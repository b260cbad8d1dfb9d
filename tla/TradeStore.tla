----------------------------- MODULE TradeStore -----------------------------
(***************************************************************************)
(* Persistence of the paper account: the engine's fire-and-forget writes   *)
(* (src/src/lib/engine-runtime.ts, src/runner/db.ts), the SQL they run     *)
(* (src/src/lib/db/edge-store.server.ts), crash and boot (loadBootState,   *)
(* hydrate, restoreFundingEvents) and the operator's halt script           *)
(* (src/scripts/halt-trading.mjs).                                         *)
(*                                                                         *)
(* Abstractions.  Money is kept as the bag of the entries a balance is     *)
(* made of: an entry fee, a close, a funding charge, a funding correction. *)
(* Whether a close breaches the drawdown limit is a choice.  Every unit of *)
(* time ends with a funding settlement of every symbol, and all positions  *)
(* face the same way.  A write is a request in `wire` that lands later, in *)
(* order (ordered) or in any order; a close, a reset and a settled funding *)
(* rate take two statements.  The requests of a dead process have landed   *)
(* or are lost before the next one boots.                                  *)
(***************************************************************************)
EXTENDS Integers, FiniteSets, FiniteSetsExt, Sequences, SequencesExt

CONSTANTS
    Symbols,
    None,
    Drivers,      \* who may run the engine: "runner", "dashboard"
    Orderings,    \* may the connection keep the order of writes (TRUE) or not?
    Lossy,        \* may a write fail? (the engine reports it and goes on)
    SeedLimit,    \* rows of paper_funding_events that a boot reads at most
    MaxIds,       \* bound: positions opened
    MaxTime,      \* bound: settlements
    MaxCrashes,   \* bound: crashes
    MaxResets     \* bound: account resets

Ids   == 1..MaxIds
Times == 1..MaxTime
Key   == Symbols \X Times

ASSUME StoreAssumption ==
    /\ IsFiniteSet(Symbols)
    /\ Drivers \subseteq {"runner", "dashboard"} /\ None \notin {"runner", "dashboard"}
    /\ None \notin [id : Ids, final : BOOLEAN] \cup [id : Ids, watermark : 0..MaxTime]
    /\ None \notin [symbol : Symbols, at : 0..MaxTime, open : BOOLEAN]
    /\ Orderings \subseteq BOOLEAN /\ Lossy \in BOOLEAN
    /\ SeedLimit \in Nat /\ MaxIds \in Nat /\ MaxTime \in Nat /\ MaxCrashes \in Nat
    /\ MaxResets \in Nat

(* Entries of a balance *)
Fee(id)           == <<"fee", id, 0>>
Result(id)        == <<"result", id, 0>>
Funding(id, at)   == <<"funding", id, at>>
Correction(id, at) == <<"correction", id, at>>
Entry == ({"fee", "result"} \X Ids \X {0})
         \cup ({"funding", "correction"} \X Ids \X Times)
Empty == [e \in Entry |-> 0]
Plus(balance, e) == [balance EXCEPT ![e] = @ + 1]

VARIABLES
    ordered,      \* do writes land in the order they were issued?  never changes
    now,          \* settlements so far
    driver,       \* who runs the engine, or None while it is down
    booting,      \* the account row a boot has read, or None
    book,         \* symbol -> open position in memory
    realized,     \* realizedPnl in memory
    halted,       \* halt flag in memory
    settledAt,    \* settledBoundaries: keys already charged
    events,       \* fundingEvents in memory: key -> [id, final] or None
    nextId,
    wire,         \* writes in flight
    rows,         \* paper_trades: id -> [symbol, at, open] or None
    account,      \* paper_accounts: [realized, halted]
    ledger,       \* paper_funding_events: key -> [id, final] or None
    crashes,
    resets,
    operatorHalt, \* history: the operator halted and nobody resumed
    missed,       \* history: ids whose close matched no row
    offRecord,    \* history: <<id, settlement>> charged by an engine that saves none, or
                  \* that has not read the row of it
    unread        \* history: settlements on record that the engine's boot did not read

memory   == <<driver, booting, book, realized, halted, settledAt, events, nextId>>
database == <<rows, account, ledger>>
history  == <<operatorHalt, missed, offRecord, unread>>
counters == <<crashes, resets>>
vars == <<ordered, now, memory, wire, database, counters, history>>

Init ==
    /\ ordered \in Orderings
    /\ now = 0 /\ nextId = 1 /\ crashes = 0 /\ resets = 0
    /\ driver = None /\ booting = None
    /\ book = [s \in Symbols |-> None]
    /\ realized = Empty /\ halted = FALSE
    /\ settledAt = {}
    /\ events = [k \in Key |-> None]
    /\ wire = <<>>
    /\ rows = [i \in Ids |-> None]
    /\ account = [realized |-> Empty, halted |-> FALSE]
    /\ ledger = [k \in Key |-> None]
    /\ operatorHalt = FALSE /\ missed = {} /\ offRecord = {} /\ unread = {}

Up == driver # None

-----------------------------------------------------------------------------
(* The engine.  Each callback issues its write and goes on. *)

Send(w) == wire' = Append(wire, w)

FundingWrite(key, id, final) ==
    /\ IF driver = "runner"     \* the dashboard gives its engine no saveFundingEvent
       THEN Send([kind |-> "funding", key |-> key, id |-> id, final |-> final])
       ELSE UNCHANGED wire
    /\ offRecord' = IF driver = "runner" /\ key \notin unread THEN offRecord
                    ELSE offRecord \cup {<<id, key[2]>>}

(* tryFill, onOpen *)
Open(s) ==
    /\ Up /\ ~halted
    /\ book[s] = None
    /\ nextId \in Ids
    /\ book' = [book EXCEPT ![s] = [id |-> nextId, watermark |-> now]]
    /\ realized' = Plus(realized, Fee(nextId))
    /\ nextId' = nextId + 1
    /\ Send([kind |-> "open", id |-> nextId, symbol |-> s, at |-> now])
    /\ UNCHANGED <<now, driver, booting, halted, settledAt, events, database, counters, history>>

(* closePosition.  onClose runs before the drawdown check that follows it, so
   the write carries the halt flag from before. *)
Close(s, breach) ==
    /\ Up
    /\ book[s] # None
    /\ LET id == book[s].id IN
           /\ realized' = Plus(realized, Result(id))
           /\ Send([kind |-> "close", id |-> id, realized |-> realized',
                    halted |-> halted])
    /\ book' = [book EXCEPT ![s] = None]
    /\ halted' = (halted \/ breach)
    /\ UNCHANGED <<now, driver, booting, settledAt, events, nextId, database, counters, history>>

Owed(p) == p.watermark < now

(* accrueFunding, for the next settlement owed *)
Accrue(s, final) ==
    /\ Up
    /\ book[s] # None
    /\ Owed(book[s])
    /\ LET at  == book[s].watermark + 1
           id  == book[s].id
           key == <<s, at>>
       IN  /\ book' = [book EXCEPT ![s].watermark = at]
           /\ IF key \in settledAt
              THEN UNCHANGED <<realized, settledAt, events, wire, offRecord>>
              ELSE /\ realized' = Plus(realized, Funding(id, at))
                   /\ settledAt' = settledAt \cup {key}
                   /\ events' = [events EXCEPT ![key] = [id |-> id, final |-> final]]
                   /\ FundingWrite(key, id, final)
    /\ UNCHANGED <<now, driver, booting, halted, nextId, database, counters, operatorHalt, missed, unread>>

(* recoverMissedFunding after a boot: settlements are published in order, so
   it charges the next one owed, at its settled rate. *)
Replay(s) == Accrue(s, TRUE)

(* reconcileFunding: the exchange has published the settled rate. *)
Reconcile(key) ==
    /\ Up
    /\ events[key] # None
    /\ ~events[key].final
    /\ LET id == events[key].id IN
           /\ events' = [events EXCEPT ![key].final = TRUE]
           /\ realized' = Plus(realized, Correction(id, key[2]))
           /\ FundingWrite(key, id, TRUE)
    /\ UNCHANGED <<now, driver, booting, book, halted, settledAt, nextId,
                   database, counters, operatorHalt, missed, unread>>

(* resetBroker of the dashboard: memory at once, the database by a write *)
Reset ==
    /\ driver = "dashboard"
    /\ resets < MaxResets
    /\ resets' = resets + 1
    /\ book' = [s \in Symbols |-> None]
    /\ realized' = Empty /\ halted' = FALSE
    /\ settledAt' = {}
    /\ events' = [k \in Key |-> None]
    /\ Send([kind |-> "reset"])
    /\ UNCHANGED <<now, driver, booting, nextId, database, crashes, history>>

-----------------------------------------------------------------------------
(* The database.  Lands(i, next) takes the i-th write off the wire, or
   replaces it by its second statement. *)

Lands(i) == wire' = RemoveAt(wire, i)
Continues(i, w) == wire' = ReplaceAt(wire, i, w)

(* persistOpenTrade: INSERT ... ON CONFLICT DO UPDATE SET status = 'open' *)
LandOpen(i) ==
    /\ wire[i].kind = "open"
    /\ rows' = [rows EXCEPT ![wire[i].id] =
           [symbol |-> wire[i].symbol, at |-> wire[i].at, open |-> TRUE]]
    /\ Lands(i)
    /\ UNCHANGED <<account, ledger, history>>

AfterClose(row) == [row EXCEPT !.open = FALSE]

(* persistCloseTrade, first statement: UPDATE paper_trades *)
LandClose(i) ==
    /\ wire[i].kind = "close"
    /\ LET id == wire[i].id IN
           IF rows[id] = None
           THEN missed' = missed \cup {id} /\ UNCHANGED rows
           ELSE rows' = [rows EXCEPT ![id] = AfterClose(@)] /\ UNCHANGED missed
    /\ Continues(i, [kind |-> "account", realized |-> wire[i].realized,
                     halted |-> wire[i].halted])
    /\ UNCHANGED <<account, ledger, operatorHalt, offRecord, unread>>

StoredHalt_Overwrites(stored, incoming) == incoming
StoredHalt(stored, incoming) == stored \/ incoming

(* persistCloseTrade, second statement: the paper_accounts upsert *)
LandAccount(i) ==
    /\ wire[i].kind = "account"
    /\ account' = [realized |-> wire[i].realized,
                   halted   |-> StoredHalt(account.halted, wire[i].halted)]
    /\ Lands(i)
    /\ UNCHANGED <<rows, ledger, history>>

OnConflict_Update(old, new) == new
OnConflict(old, new) == old     \* ON CONFLICT ... DO NOTHING

Confirms(w) == w.final

(* persistFundingEvent; a settled rate that finds a row confirms it next. *)
LandFunding(i) ==
    /\ wire[i].kind = "funding"
    /\ LET key == wire[i].key
           row == [id |-> wire[i].id, final |-> wire[i].final]
       IN  IF ledger[key] = None
           THEN ledger' = [ledger EXCEPT ![key] = row] /\ Lands(i)
           ELSE /\ ledger' = [ledger EXCEPT ![key] = OnConflict(@, row)]
                /\ IF Confirms(wire[i]) THEN Continues(i, [kind |-> "confirm", key |-> key])
                                    ELSE Lands(i)
    /\ UNCHANGED <<rows, account, history>>

(* confirmFundingEvent *)
LandConfirm(i) ==
    /\ wire[i].kind = "confirm"
    /\ ledger' = [ledger EXCEPT ![wire[i].key] = IF @ = None THEN @ ELSE [@ EXCEPT !.final = TRUE]]
    /\ Lands(i)
    /\ UNCHANGED <<rows, account, history>>

(* resetPaperAccount(wipeHistory = false): DELETE open rows, then the account *)
LandReset(i) ==
    /\ wire[i].kind = "reset"
    /\ rows' = [id \in Ids |-> IF rows[id] # None /\ rows[id].open THEN None ELSE rows[id]]
    /\ Continues(i, [kind |-> "zero"])
    /\ UNCHANGED <<account, ledger, history>>

LandZero(i) ==
    /\ wire[i].kind = "zero"
    /\ account' = [realized |-> Empty, halted |-> FALSE]
    /\ operatorHalt' = FALSE
    /\ Lands(i)
    /\ UNCHANGED <<rows, ledger, missed, offRecord, unread>>

Land(i) ==
    /\ ordered => i = 1
    /\ \/ LandOpen(i) \/ LandClose(i) \/ LandAccount(i)
       \/ LandFunding(i) \/ LandConfirm(i) \/ LandReset(i) \/ LandZero(i)
    /\ UNCHANGED <<now, memory, counters>>

(* A write fails, or dies with the process that issued it. *)
Drop(i) ==
    /\ Lossy \/ ~Up
    /\ ordered => i = Len(wire)
    /\ Lands(i)
    /\ UNCHANGED <<now, memory, database, counters, history>>

-----------------------------------------------------------------------------
(* Crash, boot, operator, time *)

Crash ==
    /\ Up
    /\ crashes < MaxCrashes
    /\ crashes' = crashes + 1
    /\ driver' = None /\ booting' = None
    /\ book' = [s \in Symbols |-> None]
    /\ realized' = Empty /\ halted' = FALSE
    /\ settledAt' = {} /\ events' = [k \in Key |-> None]
    /\ UNCHANGED <<now, nextId, wire, database, resets, history>>

(* loadBootState reads the account row first ... *)
BootAccount ==
    /\ ~Up
    /\ booting = None
    /\ wire = <<>>
    /\ booting' = account
    /\ UNCHANGED <<now, driver, book, realized, halted, settledAt, events, nextId,
                   wire, database, counters, history>>

OpenRows_AnyStatus(s) == {id \in Ids : rows[id] # None /\ rows[id].symbol = s}
OpenRows(s) == {id \in Ids : rows[id] # None /\ rows[id].open /\ rows[id].symbol = s}

Recorded_Forgotten == {}
Recorded == {k \in Key : ledger[k] # None}

(* loadFundingEvents: the newest rows up to its limit; a read that fails is
   logged and the boot goes on with none *)
NewestSeed(seed) == \A k \in Recorded \ seed, n \in seed : k[2] <= n[2]
Seeds == {{}} \cup {seed \in SUBSET Recorded :
                       /\ Cardinality(seed) = Min({SeedLimit, Cardinality(Recorded)})
                       /\ NewestSeed(seed)}

(* ... then the open rows, newest first, which hydrate puts into a map by
   symbol: the oldest row of a symbol wins.  A row stores no watermark, so
   the position is owed every settlement since it opened. *)
BootTrades(who) ==
    /\ booting # None
    /\ driver' = who
    /\ booting' = None
    /\ book' = [s \in Symbols |-> IF OpenRows(s) = {} THEN None
                    ELSE LET id == Min(OpenRows(s))
                         IN  [id |-> id, watermark |-> rows[id].at]]
    /\ realized' = booting.realized
    /\ halted' = booting.halted
    /\ settledAt' \in Seeds /\ unread' = Recorded \ settledAt'
    /\ UNCHANGED <<now, events, nextId, wire, database, counters, operatorHalt, missed, offRecord>>

(* halt-trading.mjs: a compare-and-set on the account row *)
OperatorHalt ==
    /\ account' = [account EXCEPT !.halted = TRUE]
    /\ operatorHalt' = TRUE
    /\ UNCHANGED <<now, memory, wire, rows, ledger, counters, missed, offRecord, unread>>

OperatorResume ==
    /\ account.halted
    /\ account' = [account EXCEPT !.halted = FALSE]
    /\ operatorHalt' = FALSE
    /\ UNCHANGED <<now, memory, wire, rows, ledger, counters, missed, offRecord, unread>>

Tick ==
    /\ now < MaxTime
    /\ now' = now + 1
    /\ UNCHANGED <<memory, wire, database, counters, history>>

-----------------------------------------------------------------------------
Engine ==
    \/ \E s \in Symbols :
          \/ Open(s)
          \/ \E breach \in BOOLEAN : Close(s, breach)
          \/ \E final \in BOOLEAN : Accrue(s, final)
          \/ Replay(s)
    \/ \E key \in Key : Reconcile(key)
    \/ Reset

Step ==
    \/ Engine
    \/ \E i \in DOMAIN wire : Land(i) \/ Drop(i)
    \/ Crash
    \/ BootAccount
    \/ \E who \in Drivers : BootTrades(who)
    \/ OperatorHalt
    \/ OperatorResume
    \/ Tick

Next == Step /\ UNCHANGED ordered

Spec == Init /\ [][Next]_vars

-----------------------------------------------------------------------------
(* Properties *)

Balance == [Entry -> Nat]
Write ==
    [kind : {"open"}, id : Ids, symbol : Symbols, at : 0..MaxTime]
    \cup [kind : {"close"}, id : Ids, realized : Balance, halted : BOOLEAN]
    \cup [kind : {"account"}, realized : Balance, halted : BOOLEAN]
    \cup [kind : {"funding"}, key : Key, id : Ids, final : BOOLEAN]
    \cup [kind : {"confirm"}, key : Key]
    \cup [kind : {"reset", "zero"}]

(* Every variable has its type. *)
TypeOK ==
    /\ ordered \in BOOLEAN
    /\ now \in 0..MaxTime /\ nextId \in 1..(MaxIds + 1) /\ crashes \in 0..MaxCrashes
    /\ resets \in 0..MaxResets
    /\ driver \in Drivers \cup {None}
    /\ booting \in [realized : Balance, halted : BOOLEAN] \cup {None}
    /\ book \in [Symbols -> [id : Ids, watermark : 0..MaxTime] \cup {None}]
    /\ realized \in Balance /\ halted \in BOOLEAN
    /\ settledAt \subseteq Key
    /\ events \in [Key -> [id : Ids, final : BOOLEAN] \cup {None}]
    /\ wire \in Seq(Write)
    /\ rows \in [Ids -> [symbol : Symbols, at : 0..MaxTime, open : BOOLEAN] \cup {None}]
    /\ account \in [realized : Balance, halted : BOOLEAN]
    /\ ledger \in [Key -> [id : Ids, final : BOOLEAN] \cup {None}]
    /\ operatorHalt \in BOOLEAN /\ missed \subseteq Ids /\ offRecord \subseteq Ids \X Times
    /\ unread \subseteq Key

Drained == Up /\ wire = <<>>
Settled(id) == rows[id] # None /\ ~rows[id].open

(* An operator's halt stands until the operator, or a reset, lifts it: no
   close of a running engine, however late its write lands, lowers it. *)
OperatorHaltSticks == operatorHalt => account.halted

(* The engine never holds a position the database has closed, whatever order
   its writes land in and whatever is lost. *)
HeldIsNotSettled == \A s \in Symbols : book[s] # None => ~Settled(book[s].id)

(* A settlement on record is never charged again, in this process or the next,
   unless its boot did not get to read the row: that read may fail, and is cut
   at a limit, and the boot goes on. *)
RecordedNotRecharged == [][Up =>
    \A key \in settledAt' \ (settledAt \cup unread) : ledger[key] = None]_vars

(* The connection keeps the order of the writes and none of them fails. *)
Reliable == ordered /\ ~Lossy

(* A settlement the runner has confirmed is recorded as confirmed once its
   writes have landed, even when the provisional write arrives last. *)
ConfirmationsLand == (Drained /\ driver = "runner" /\ ~Lossy) => \A key \in Key :
    (events[key] # None /\ events[key].final) => ledger[key] # None /\ ledger[key].final

(* When the writes have landed, and in order, the open rows are exactly the
   positions in memory. *)
BookMatchesRows == Drained /\ Reliable =>
    {id \in Ids : rows[id] # None /\ rows[id].open} = {book[s].id : s \in {t \in Symbols : book[t] # None}}

(* Written in order, the account never counts a close that has no closed row
   behind it. *)
AccountBackedByRows == Reliable => \A id \in Ids :
    account.realized[Result(id)] > 0 => Settled(id)

(* Written in order, nothing is counted twice in the account, across any number
   of crashes; but a settlement the dashboard charged, which no row records, is
   charged again by the engine that boots next, and so is one whose row that
   boot failed to read. *)
CountedOnce == Reliable => \A e \in Entry :
    <<e[2], e[3]>> \notin offRecord => account.realized[e] <= 1

(* "a drawdown breach can still escalate to halted" *)
BreachEscalates == Drained /\ halted => account.halted

(* "A close that matches no row means the open-row write never landed" *)
MissedHasNoRow == \A id \in missed : rows[id] = None

(* "Losing the seed only costs idempotency belt (the persisted lastFundingAt
   watermark is still the braces)": refuted, no row has a watermark. *)
ChargedOncePerPosition ==
    driver = "runner" => \A id \in Ids, at \in Times : realized[Funding(id, at)] <= 1

(* The funding table keeps its promise. *)
Promise == INSTANCE FundingRecord WITH
    Key <- Key,
    record <- [k \in Key |-> IF ledger[k] = None THEN "none"
                              ELSE IF ledger[k].final THEN "settled" ELSE "provisional"]
FundingRecordKept == Promise!Spec

(* Through crashes, retries and late writes an operator's halt stands in the stored account,
   and no position is held that the rows have closed (saveAccount, updateTrade, loadBootState). *)
StoreOK == TypeOK /\ OperatorHaltSticks /\ HeldIsNotSettled

(* With its writes in order and landed, the rows, the stored account and the settlements on
   record are those of the engine, and each close is counted once (engine-runtime's queue). *)
RowsAgree == BookMatchesRows /\ AccountBackedByRows /\ CountedOnce /\ ConfirmationsLand

=============================================================================
