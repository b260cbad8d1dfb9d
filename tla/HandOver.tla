------------------------------ MODULE HandOver ------------------------------
(***************************************************************************)
(* Who drives the book.  A headless runner (src/runner/index.ts), a        *)
(* dashboard tab (src/src/routes/_authenticated/dashboard.tsx) and the     *)
(* scheduled watchdog (src/src/lib/daemon/tick.server.ts) work on one      *)
(* account.  A heartbeat row says that the runner lives: the tab observes  *)
(* while it is fresh, the watchdog settles once it is stale.  The watchdog *)
(* reads and writes Supabase, so this is the deployment DATA_STORE =       *)
(* supabase (src/src/lib/db/supabase-store.server.ts).                     *)
(*                                                                         *)
(* Abstractions.  A trade has one result; a total is the number of times   *)
(* it holds each trade's result.  That a stop has been crossed is a choice *)
(* that is never taken back.  Timers are punctual: time does not pass a    *)
(* due heartbeat or poll, the call behind it may fail.  Two writes of one  *)
(* trade land in the order they were issued (TradeStore has the others).   *)
(***************************************************************************)
EXTENDS Integers, FiniteSets

CONSTANTS
    Users, Me,      \* accounts; the one with a runner and a tab
    Trades, Owner,  \* trades, and the account of each
    None,
    Age,            \* the order in which the trades are opened
    Fresh,          \* trades no engine has opened yet
    Runs,           \* invocations of the watchdog that may overlap
    MaxUsers, MaxPositions,       \* the watchdog's work bounds
    LeaseFor, TakeoverAfter,      \* LOCK_MS, TAKEOVER_AFTER_MS, in ticks
    ReadOnlyAfter,                \* the tab's 60 s
    BeatEvery,                    \* between two heartbeats
    MaxFaults,      \* bound: calls that fail and processes that die
    MaxStarts       \* bound: starts of the runner and of the tab

ASSUME HandOverAssumption ==
    /\ Me \in Users /\ Owner \in [Trades -> Users] /\ Fresh \subseteq Trades
    /\ Age \in [Trades -> Nat] /\ \A s, t \in Trades : Age[s] = Age[t] => s = t
    /\ IsFiniteSet(Runs)
    /\ {LeaseFor, TakeoverAfter, ReadOnlyAfter, BeatEvery} \subseteq Nat \ {0}
    /\ BeatEvery < ReadOnlyAfter
    /\ {MaxUsers, MaxPositions, MaxFaults, MaxStarts} \subseteq Nat

VARIABLES
    rows,       \* paper_trades: "none", "open", or who closed the trade
    total,      \* paper_accounts.realized_pnl: how often it holds each result
    crossed,    \* trades whose stop or target the market has crossed
    beat,       \* runner_state: [status, age] per user
    lease,      \* ticks left of daemon_state.locked_until
    engine,     \* the engines of the runner and of the tab
    boot,       \* what the tab's loadState returned last
    reload,     \* the total a loadState of the observing tab has read, or None
    seen,       \* the heartbeat the tab has seen: [status, age]
    wire,       \* writes of the engines in flight
    run,        \* the watchdog's invocations
    sinceBeat, missed,
    faults, starts,
    opened,     \* history: trades that have been opened
    carried,    \* history: trades whose result came to the account with the close
                \* of another one, before their own row was closed
    contended   \* history: two parties worked on one account at once

view == <<boot, reload, seen>>
timers == <<sinceBeat, missed>>
counters == <<faults, starts>>
history == <<opened, carried>>
vars == <<rows, total, crossed, beat, lease, engine, view, wire, run,
          timers, counters, history, contended>>

Engines == {"runner", "tab"}
Mine == {t \in Trades : Owner[t] = Me}
NoResults == [t \in Trades |-> 0]
NoBeat == [status |-> "none", age |-> 0]
EmptyBook == [held |-> {}, total |-> NoResults]
Off == [phase |-> "off", held |-> {}, total |-> NoResults, readOnly |-> FALSE]
IdleRun == [at |-> "idle", todo |-> {}, orphaned |-> {}, delta |-> NoResults, read |-> NoResults]

Init ==
    /\ rows = [t \in Trades |-> IF t \in Fresh THEN "none" ELSE "open"]
    /\ total = NoResults
    /\ crossed = {}
    /\ beat = [u \in Users |-> NoBeat]
    /\ lease = 0
    /\ engine = [e \in Engines |-> Off]
    /\ boot = EmptyBook /\ reload = None /\ seen = NoBeat
    /\ wire = {}
    /\ run = [w \in Runs |-> IdleRun]
    /\ sinceBeat = 0 /\ missed = 0
    /\ faults = 0 /\ starts = 0
    /\ opened = Trades \ Fresh /\ carried = {}
    /\ contended = FALSE

Live(e) == engine[e].phase = "on"
Fails == faults < MaxFaults /\ faults' = faults + 1

Older(age) == IF age < TakeoverAfter THEN age + 1 ELSE age

-----------------------------------------------------------------------------
(* The tab's view of the runner, and the runtime it builds from it *)

RunnerActive(s) == s.status = "running" /\ s.age < ReadOnlyAfter

Runtime(book, s) ==
    [phase |-> "on", held |-> book.held, total |-> book.total, readOnly |-> RunnerActive(s)]

(* The effect that owns the runtime runs again when runnerActive changes, from
   the state loaded last *)

Effect(tab, s) ==
    IF tab.phase = "on" /\ tab.readOnly # RunnerActive(s)
    THEN Runtime(boot, s)
    ELSE tab

(* A poll shows the tab the row as it is, or nothing when the call fails *)
Polled(row) ==
    /\ \/ seen' = row /\ UNCHANGED faults
       \/ Fails /\ seen' = NoBeat
    /\ engine' = [engine EXCEPT !["tab"] = Effect(@, seen')]

Poll ==
    /\ engine["tab"].phase # "off" /\ seen # beat[Me]
    /\ Polled(beat[Me])
    /\ UNCHANGED <<rows, total, crossed, history, beat, lease, boot, reload, wire, run, timers, starts>>

(* Time passes; a tab polls at least once in a tick *)
Tick ==
    /\ Live("runner") => sinceBeat < BeatEvery
    /\ beat' = [u \in Users |-> IF beat[u].status = "running"
                                THEN [beat[u] EXCEPT !.age = Older(@)] ELSE beat[u]]
    /\ \/ engine["tab"].phase # "off" /\ Polled(beat'[Me])
       \/ engine["tab"].phase = "off" /\ UNCHANGED <<seen, engine, faults>>
    /\ lease' = IF lease > 0 THEN lease - 1 ELSE 0
    /\ sinceBeat' = IF Live("runner") THEN sinceBeat + 1 ELSE 0
    /\ UNCHANGED <<rows, total, crossed, history, boot, reload, wire, run, missed, starts>>

Cross(t) ==
    /\ t \notin crossed
    /\ crossed' = crossed \cup {t}
    /\ UNCHANGED <<rows, total, beat, lease, engine, view, wire, run, timers, counters, history>>

-----------------------------------------------------------------------------
(* Booting an engine: sbLoadBootState reads the account, then the trades, and looks at
   no error: an account that cannot be read has earned nothing, trades that cannot be
   read are none *)

OpenRows_All == {t \in Mine : rows[t] # "none"}

OpenRows == {t \in Mine : rows[t] = "open"}

AccountRead(sum) ==
    \/ sum = total /\ UNCHANGED faults
    \/ sum = NoResults /\ Fails

RowsRead(held) ==
    \/ held = OpenRows /\ UNCHANGED faults
    \/ held = {} /\ Fails

LoadAccount(e) ==
    /\ engine[e].phase = "off"
    /\ starts < MaxStarts
    /\ starts' = starts + 1
    /\ \E sum \in {total, NoResults} :
       /\ AccountRead(sum)
       /\ engine' = [engine EXCEPT ![e] = [Off EXCEPT !.phase = "load", !.total = sum]]
    /\ UNCHANGED <<rows, total, crossed, history, beat, lease, view, wire, run, timers>>

LoadRows(e) ==
    /\ engine[e].phase = "load"
    /\ \E held \in {OpenRows, {}} :
       LET book == [held |-> held, total |-> engine[e].total] IN
       /\ RowsRead(held)
       /\ \/ /\ e = "runner"
             /\ engine' = [engine EXCEPT ![e] = [Runtime(book, NoBeat) EXCEPT !.readOnly = FALSE]]
             /\ sinceBeat' = 0 /\ missed' = TakeoverAfter
             /\ UNCHANGED boot
          \/ /\ e = "tab"
             /\ engine' = [engine EXCEPT ![e] = Runtime(book, seen)]
             /\ boot' = book
             /\ UNCHANGED <<sinceBeat, missed>>
    /\ UNCHANGED <<rows, total, crossed, history, beat, lease, reload, seen, wire, run, starts>>

(* A tab whose call is not answered starts with nothing; a runner exits *)
FallbackBoot ==
    /\ engine["tab"].phase = "load"
    /\ Fails
    /\ engine' = [engine EXCEPT !["tab"] = Runtime(EmptyBook, seen)]
    /\ boot' = EmptyBook
    /\ UNCHANGED <<rows, total, crossed, history, beat, lease, reload, seen, wire, run, timers, starts>>

(* While it observes, the tab loads the state again and again; its engine
   runs on meanwhile, and keeps its book when the call fails *)
ReloadAccount ==
    /\ Live("tab") /\ engine["tab"].readOnly
    /\ reload = None
    /\ \E sum \in {total, NoResults} : AccountRead(sum) /\ reload' = sum
    /\ UNCHANGED <<rows, total, crossed, history, beat, lease, engine, boot, seen, wire, run, timers, starts>>

ReloadRows ==
    /\ Live("tab") /\ reload # None
    /\ \E held \in {OpenRows, {}} :
       LET book == [held |-> held, total |-> reload] IN
       /\ RowsRead(held)
       /\ boot' = book
       /\ engine' = [engine EXCEPT !["tab"] = Runtime(book, seen)]
    /\ reload' = None
    /\ UNCHANGED <<rows, total, crossed, history, beat, lease, seen, wire, run, timers, starts>>

ReloadFails ==
    /\ reload # None
    /\ Fails
    /\ reload' = None
    /\ UNCHANGED <<rows, total, crossed, history, beat, lease, engine, boot, seen, wire, run, timers, starts>>

(* A crash, a closed tab, process.exit: memory is gone, requests that were sent
   are not *)
Leave(e) ==
    /\ engine[e].phase # "off"
    /\ \/ e = "tab" /\ UNCHANGED faults
       \/ e = "runner" /\ Fails
    /\ engine' = [engine EXCEPT ![e] = Off]
    /\ \/ e = "tab" /\ reload' = None /\ boot' = EmptyBook /\ seen' = NoBeat
       \/ e = "runner" /\ UNCHANGED view
    /\ UNCHANGED <<rows, total, crossed, history, beat, lease, wire, run, timers, starts>>

(* shutdown: the runtime stops, the last heartbeat says so if it lands *)
ShutDown ==
    /\ Live("runner")
    /\ engine' = [engine EXCEPT !["runner"] = Off]
    /\ \/ beat' = [beat EXCEPT ![Me] = [status |-> "stopped", age |-> 0]] /\ UNCHANGED faults
       \/ Fails /\ UNCHANGED beat
    /\ UNCHANGED <<rows, total, crossed, history, lease, view, wire, run, timers, starts>>

Beat ==
    /\ Live("runner")
    /\ sinceBeat = BeatEvery
    /\ sinceBeat' = 0
    /\ \/ /\ beat' = [beat EXCEPT ![Me] = [status |-> "running", age |-> 0]]
          /\ missed' = 0
          /\ UNCHANGED faults
       \/ /\ Fails
          /\ missed' = IF missed < TakeoverAfter THEN missed + 1 ELSE missed
          /\ UNCHANGED beat
    /\ UNCHANGED <<rows, total, crossed, history, lease, engine, view, wire, run, starts>>

-----------------------------------------------------------------------------
(* What an engine does: readOnly holds back proposals, not the marks *)

Write(kind, t, e, sum) == [kind |-> kind, trade |-> t, observer |-> engine[e].readOnly, total |-> sum]

EngineOpen(e, t) ==
    /\ Live(e) /\ ~engine[e].readOnly
    /\ t \in Mine \ opened
    /\ opened' = opened \cup {t}
    /\ engine' = [engine EXCEPT ![e].held = @ \cup {t}]
    /\ wire' = wire \cup {Write("open", t, e, NoResults)}
    /\ UNCHANGED <<rows, total, crossed, beat, lease, view, run, timers, counters, carried>>

EngineClose(e, t) ==
    /\ Live(e)
    /\ t \in engine[e].held \cap crossed
    /\ LET sum == [engine[e].total EXCEPT ![t] = @ + 1] IN
       /\ engine' = [engine EXCEPT ![e].held = @ \ {t}, ![e].total = sum]
       /\ wire' = wire \cup {Write("row", t, e, sum)}
    /\ UNCHANGED <<rows, total, crossed, history, beat, lease, view, run, timers, counters>>

(* A trade whose row is open, or will be *)
Unclosed(t) == rows[t] = "open" \/ \E o \in wire : o.kind = "open" /\ o.trade = t

(* sbPersistOpenTrade, and the two statements of sbPersistCloseTrade *)
Land(m) ==
    /\ m.kind # "open" => \A o \in wire : o.kind = "open" => o.trade # m.trade
    /\ \/ /\ m.kind = "open"
          /\ rows' = [rows EXCEPT ![m.trade] = "open"]
          /\ wire' = wire \ {m}
          /\ UNCHANGED <<total, carried>>
       \/ /\ m.kind = "row"
          /\ rows' = [rows EXCEPT ![m.trade] = IF @ = "none" THEN @ ELSE "engine"]
          /\ wire' = (wire \ {m}) \cup {[m EXCEPT !.kind = "account"]}
          /\ UNCHANGED <<total, carried>>
       \/ /\ m.kind = "account"
          /\ total' = [t \in Trades |-> IF t \in Mine THEN m.total[t] ELSE total[t]]
          /\ wire' = wire \ {m}
          /\ carried' = carried \cup {t \in Mine \ {m.trade} : m.total[t] > 0 /\ Unclosed(t)}
          /\ UNCHANGED rows
    /\ UNCHANGED <<crossed, opened, beat, lease, engine, view, run, timers, counters>>

Lose(m) ==
    /\ Fails
    /\ wire' = wire \ {m}
    /\ UNCHANGED <<rows, total, crossed, history, beat, lease, engine, view, run, timers, starts>>

-----------------------------------------------------------------------------
(* The watchdog: runDaemonTick, one step per await *)

Goes(w, r) == run' = [run EXCEPT ![w] = r]
At(w, at) == [run[w] EXCEPT !.at = at]
KeepsEngines == UNCHANGED <<crossed, history, beat, engine, view, wire, timers, starts>>

(* The reads below ignore their error: a lease that cannot be read is free, a
   heartbeat that cannot be read is not there. *)

(* acquireLock reads the lease, and writes it in a second call.  A row marked paused ends
   the invocation here with nothing changed; nothing in the repository marks it, and the
   fairness below takes it to be unmarked. *)
LeaseRead(w) ==
    /\ run[w].at = "idle"
    /\ \/ lease = 0 /\ UNCHANGED faults
       \/ Fails
    /\ Goes(w, At(w, "claim"))
    /\ KeepsEngines /\ UNCHANGED <<rows, total, lease>>

LeaseClaim(w) ==
    /\ run[w].at = "claim"
    /\ lease' = LeaseFor
    /\ Goes(w, At(w, "scan"))
    /\ KeepsEngines /\ UNCHANGED <<rows, total, faults>>

Before(t) == {o \in Trades : Age[o] < Age[t]}
FirstTrades(S) == {t \in S : Cardinality(S \cap Before(t)) < MaxPositions}

Scan(w) ==
    /\ run[w].at = "scan"
    /\ LET open == FirstTrades({t \in Trades : rows[t] = "open"}) IN
       \/ /\ Goes(w, IF open = {} THEN At(w, "release") ELSE [At(w, "check") EXCEPT !.todo = open])
          /\ UNCHANGED faults
       \/ Fails /\ Goes(w, At(w, "release"))
    /\ KeepsEngines /\ UNCHANGED <<rows, total, lease>>

OthersBefore(S, t) == {Owner[o] : o \in S \cap Before(t)} \ {Owner[t]}
FirstOwners(S) == {Owner[t] : t \in {r \in S : Cardinality(OthersBefore(S, r)) < MaxUsers}}

HasDriver(u) == beat[u].status = "running" /\ beat[u].age < TakeoverAfter

Check(w) ==
    /\ run[w].at = "check"
    /\ LET owners == FirstOwners(run[w].todo)
           quiet == {u \in owners : ~HasDriver(u)} IN
       \/ /\ Goes(w, IF quiet = {} THEN At(w, "release")
                     ELSE [At(w, "marks") EXCEPT !.orphaned = quiet])
          /\ UNCHANGED faults
       \/ Fails /\ Goes(w, [At(w, "marks") EXCEPT !.orphaned = owners])
    /\ KeepsEngines /\ UNCHANGED <<rows, total, lease>>

(* fetchMarks: what will be settled is known from here on *)
FetchMarks(w) ==
    /\ run[w].at = "marks"
    /\ \/ /\ Goes(w, [At(w, "settle") EXCEPT !.todo =
                         {t \in run[w].todo : Owner[t] \in run[w].orphaned /\ t \in crossed}])
          /\ UNCHANGED faults
       \/ Fails /\ Goes(w, At(w, "release"))
    /\ KeepsEngines /\ UNCHANGED <<rows, total, lease>>

(* The update names status = 'open'; the result is added to the delta whether
   or not it matched a row *)
SettledRow_Unguarded(t) == [rows EXCEPT ![t] = "watchdog"]

SettledRow(t) == [rows EXCEPT ![t] = IF @ = "open" THEN "watchdog" ELSE @]

Settle(w) ==
    /\ run[w].at = "settle"
    /\ \E t \in run[w].todo :
       /\ run[w].todo \cap Before(t) = {}
       /\ \/ /\ rows' = SettledRow(t)
             /\ Goes(w, [run[w] EXCEPT !.todo = @ \ {t}, !.delta = [run[w].delta EXCEPT ![t] = @ + 1]])
             /\ UNCHANGED faults
          \/ /\ Fails
             /\ Goes(w, [run[w] EXCEPT !.todo = @ \ {t}])
             /\ UNCHANGED rows
    /\ KeepsEngines /\ UNCHANGED <<total, lease>>

Indebted(w) == {u \in Users : \E t \in Trades : Owner[t] = u /\ run[w].delta[t] > 0}

(* The total of an account that cannot be read is zero *)
ReadAccount(w) ==
    /\ run[w].at = "settle" /\ run[w].todo = {}
    /\ \/ Indebted(w) = {} /\ Goes(w, At(w, "release")) /\ UNCHANGED faults
       \/ Indebted(w) # {} /\ Goes(w, [At(w, "account") EXCEPT !.read = total]) /\ UNCHANGED faults
       \/ Indebted(w) # {} /\ Fails /\ Goes(w, [At(w, "account") EXCEPT !.read = NoResults])
    /\ KeepsEngines /\ UNCHANGED <<rows, total, lease>>

(* realized_pnl = what was read + the delta, one account after another *)
WriteAccount(w) ==
    /\ run[w].at = "account"
    /\ \E u \in Indebted(w) :
       LET paid == [run[w] EXCEPT !.at = "settle",
                      !.delta = [t \in Trades |-> IF Owner[t] = u THEN 0 ELSE @[t]]] IN
       /\ Goes(w, paid)
       /\ \/ /\ total' = [t \in Trades |-> IF Owner[t] = u THEN run[w].read[t] + run[w].delta[t]
                                           ELSE total[t]]
             /\ UNCHANGED faults
          \/ Fails /\ UNCHANGED total
    /\ KeepsEngines /\ UNCHANGED <<rows, lease>>

(* releaseLock clears the lease whoever holds it now *)
Release(w) ==
    /\ run[w].at = "release"
    /\ lease' = 0
    /\ Goes(w, IdleRun)
    /\ KeepsEngines /\ UNCHANGED <<rows, total, faults>>

(* The invocation is killed: its lease stays until it runs out *)
Die(w) ==
    /\ run[w].at # "idle"
    /\ Fails
    /\ Goes(w, IdleRun)
    /\ KeepsEngines /\ UNCHANGED <<rows, total, lease>>

-----------------------------------------------------------------------------

Advance(w) == \/ LeaseClaim(w) \/ Scan(w) \/ Check(w) \/ FetchMarks(w) \/ Settle(w)
              \/ ReadAccount(w) \/ WriteAccount(w) \/ Release(w)

Step ==
    \/ Tick \/ Beat \/ Poll \/ ShutDown \/ FallbackBoot \/ ReloadAccount \/ ReloadRows \/ ReloadFails
    \/ \E t \in Trades : Cross(t)
    \/ \E e \in Engines : LoadAccount(e) \/ LoadRows(e) \/ Leave(e)
    \/ \E e \in Engines, t \in Trades : EngineOpen(e, t) \/ EngineClose(e, t)
    \/ \E m \in wire : Land(m) \/ Lose(m)
    \/ \E w \in Runs : LeaseRead(w) \/ Advance(w) \/ Die(w)

(* The parties at work on my account: engines with memory, engines that are
   gone with writes in flight, and invocations of the watchdog *)
Parties ==
    Cardinality({e \in Engines : engine[e].phase # "off"})
    + (IF wire # {} /\ \A e \in Engines : ~Live(e) THEN 1 ELSE 0)
    + Cardinality({w \in Runs : run[w].at \notin {"idle", "claim", "release"}})

Noted(step) == step /\ contended' = (contended \/ Parties' > 1)

Next == Noted(Step)

(* Intervals, requests that were sent and the scheduler's next invocation come
   round; marks, crashes, shutdowns and reloads need not *)
Fairness ==
    /\ WF_vars(Noted(Tick)) /\ WF_vars(Noted(Beat)) /\ WF_vars(Noted(Poll))
    /\ \A e \in Engines : WF_vars(Noted(LoadRows(e)))
    /\ \A w \in Runs : WF_vars(Noted(Advance(w))) /\ WF_vars(Noted(LeaseRead(w)))

Spec == Init /\ [][Next]_vars /\ Fairness

-----------------------------------------------------------------------------

Writes == [kind : {"open", "row", "account"}, trade : Trades, observer : BOOLEAN,
           total : [Trades -> Nat]]

TypeOK ==
    /\ rows \in [Trades -> {"none", "open", "engine", "watchdog"}]
    /\ total \in [Trades -> Nat]
    /\ crossed \subseteq Trades
    /\ beat \in [Users -> [status : {"none", "running", "stopped"}, age : 0..TakeoverAfter]]
    /\ lease \in 0..LeaseFor
    /\ engine \in [Engines -> [phase : {"off", "load", "on"}, held : SUBSET Mine,
                               total : [Trades -> Nat], readOnly : BOOLEAN]]
    /\ wire \subseteq Writes
    /\ \A w \in Runs : run[w].todo \subseteq Trades /\ run[w].orphaned \subseteq Users
    /\ faults \in 0..MaxFaults /\ starts \in 0..MaxStarts

(* Whoever takes over, and whatever crash or failed call makes it, no result is
   counted twice and none is counted for a trade that is still open, as long as
   one party at a time works on the account.  A result that another trade's
   close carries to the account ahead of its own row may be: the total is
   written whole. *)
CountedOnce ==
    ~contended => \A t \in Trades \ carried :
        total[t] <= 1 /\ (total[t] = 1 => rows[t] # "open")

(* The watchdog judges an account abandoned only if the runner has gone without
   a heartbeat for the take-over time, has not landed its first one, or cannot
   be asked about. *)
TakesOver(w) == run[w].at = "check" /\ Me \in run'[w].orphaned /\ Live("runner")
Quiet == (missed + 1) * BeatEvery >= TakeoverAfter

DriverKeepsItsBook == [][\A w \in Runs : TakesOver(w) => Quiet \/ faults' # faults]_vars

(* tick.server.ts:133-134: "Only take over for users whose live driver has gone
   quiet" *)
OnlyTheQuiet == [][\A w \in Runs : TakesOver(w) => Quiet]_vars

(* tick.server.ts:58: "Acquire the single-flight lease. Returns false when another
   run holds it." *)
SingleFlight == [][\A w \in Runs : lease > 0 /\ run[w].at = "claim" => run'[w].at # "scan"]_vars

(* A result an engine has recorded is not replaced by the watchdog's, however
   old the list of open trades it works from. *)
ResultStands == [][\A t \in Trades : rows[t] = "engine" => rows'[t] # "watchdog"]_vars

(* A tab that observes a live runner writes nothing. *)
ObserverNeverWrites == \A m \in wire : ~m.observer

(* The watchdog leaves a book alone that a tab is driving. *)
TabKeepsItsBook ==
    [][\A t \in engine["tab"].held :
        rows[t] = "open" /\ rows'[t] = "watchdog" => engine["tab"].readOnly]_vars

(* A book nobody drives never sits through a stop: once the engines are gone
   for good the watchdog settles what is crossed, also after an invocation that
   died with the lease. *)
UnattendedSettles ==
    <>[](\A e \in Engines : engine[e].phase = "off")
        => \A t \in Trades : (t \in crossed /\ rows[t] = "open") ~> (rows[t] # "open")

(* When the runner stays, the tab ends up observing. *)
OneDriverInTheEnd ==
    <>[]Live("runner") => <>[](engine["tab"].phase = "off" \/ engine["tab"].readOnly)

(* Whoever closes a trade, runner, tab or watchdog, it is counted once while one of them is
   at work. *)
HandOverOK == TypeOK /\ CountedOnce

(* The watchdog leaves a driven book alone, a result once stored stands, what nobody drives
   is settled, and of several drivers one remains. *)
BookIsTended == DriverKeepsItsBook /\ ResultStands /\ UnattendedSettles /\ OneDriverInTheEnd

=============================================================================
