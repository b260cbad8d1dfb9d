# Alpha Swarm trading engine: TLA+ models and proofs

This directory holds TLA+ specifications of the trading system of the repository, the TLC
configurations that check them on small instances, and TLAPS proofs of the results that hold for
every instance. Paths such as `src/src/lib/paper-broker.ts` are relative to the directory above
`src/`; the repository's root is `src/`.

## 1. The system

The program is a TypeScript engine that trades USDT perpetuals with paper money. (The
repository's top-level `README.md` describes a Python design that is not in the tree; the models
follow the TypeScript.) A long-running **runner** process reads Bybit's tick stream, lets a panel
of agents propose trades, executes them in a simulated broker, and writes what happened to a
Postgres database. A browser **dashboard** runs the same engine when no runner is alive and can
place real orders; a scheduled **watchdog** settles positions nobody is driving; coordinators
mirror the paper book to a Binance test account and run futures grids; the **Signal Court** judges
the strategy on what was stored; operator scripts halt trading, archive signals and roll out new
versions.

### 1.1 Components

| Component | Source | State it keeps | Modules |
| --- | --- | --- | --- |
| Paper broker | `src/src/lib/paper-broker.ts` | positions and orders by symbol, cooldowns, closed trades, realized-PnL ledger, funding events, halt flag | `PaperBroker`, `Fills` |
| Engine runtime | `src/src/lib/engine-runtime.ts` | timers, signal buffer; owns broker, swarm, shadow book, grids | its callbacks are actions of `PaperBroker`, `TradeStore`, `FundingClock`, `ShadowBook`, `EdgeLoop`, `GridControl` |
| Trade store | `src/src/lib/db/edge-store.server.ts`, `src/runner/db.ts` | `paper_trades`, `paper_accounts`, `paper_funding_events` | `TradeStore`, `FundingRecord` |
| Funding clock | `src/src/lib/funding-clock.ts` | per symbol: anchor, interval, live rate, settled rates | `FundingClock` |
| Binance coordinator | `src/runner/binance-runtime.ts`, `binance-executor.ts` | mirrors by trade, armed flag; the exchange's positions and brackets | `BinanceMirror` |
| Live traders | `src/src/lib/live-trader.functions.ts`, `bybit-trader.functions.ts`, `db/live-store.server.ts`, dashboard | gate and circuit breaker of the tab, exchange positions, `live_trades`, `live_accounts` | `LiveTrade` |
| Grid coordinator and futures grid | `src/runner/grid-runtime.ts`, `src/src/lib/futures-grid.ts`, `grid.functions.ts` | grid rows, applied versions, in-memory grids | `GridControl`, `GridPlan` |
| Driver hand-over | `src/src/lib/daemon/tick.server.ts`, `db/supabase-store.server.ts`, dashboard, runner | lease, heartbeat, account row | `HandOver` |
| Runner process | `src/runner/index.ts`, `src/docker/supervisor.mjs`, `src/runner/health.ts` | children, restart window, stall watch | `Supervisor` |
| Price and book feeds | `src/src/lib/swarm.ts`, `microstructure.ts` | sockets, timers, order books | `Swarm`, `DepthFeed` |
| Panel, regime, edge model | `swarm.ts`, `regime.ts`, `edge-model.ts` | windows, votes, learned weights and thresholds | `Panel`, `EdgeLoop` |
| SigmaLui ingester | `src/src/lib/sigmalui-ingester.ts` | memory of signals, spacing per symbol, evidence rows | `SignalFeed` |
| Shadow book | `src/src/lib/shadow-book.ts` | counterfactual trades and their rows, threshold sweep | `ShadowBook`, `Advice` |
| Signal Court | `src/src/lib/court/*.ts` | registry, verdicts, candle cache, mirrors | `Court`, `Replay` |
| Operator scripts and rollout | `src/scripts/*`, `src/docker-compose.prod.yml` | halt flag, archive batches, schema, containers | `HaltTool`, `SignalArchive`, `Deploy` |
| Auth and health | `src/src/lib/auth/*`, `health/*` | users, tokens, one health request | `Accounts`, `HealthReport` |
| MCP tools, user interface | `src/src/lib/mcp`, `src/src/components` | none of their own | not modelled |

### 1.2 How the parts interact

* **Ticks** drive the engine: each goes to the broker (stops, targets, liquidation), to the panel
  (which may answer with a proposal) and to the grid. A 100 ms loop matches orders in flight, a
  500 ms loop sweeps over-age positions.
* **Callbacks** leave the broker synchronously: `onOpen`, `onClose`, `onFunding`. The engine
  answers each with a *fire and forget* write, and the runner passes opens and closes on to the
  Binance coordinator.
* **The database** is the only memory across processes. A boot reads the account, the open trades,
  the funding rows and the grids. Operator scripts, dashboard functions and the watchdog write
  the same rows.
* **Polling loops** close the remaining circuits: the coordinator polls its control row and the
  exchange, the grid coordinator its rows, dashboard and watchdog the runner's heartbeat, the
  court the closed trades.

### 1.3 Where it is hard, and what makes each part correct

| Part | Hard behaviour | Correct when |
| --- | --- | --- |
| Paper broker | caps are tested at the proposal, not again at the fill; halts and stop-outs come while orders are in flight; provisional funding is corrected when the position may be gone | caps hold over positions *and* orders; a halt or a cooldown freezes exposure; account, trades and postings agree; a stop only ratchets; orders and positions end |
| Trade store | writes overtake each other, die with the process, take two statements; a boot trusts what it finds | open rows follow the book; nothing is counted twice; an operator's halt stands; a settlement is charged once |
| Mirror, live traders | tasks interleave at awaits on one exchange position; replies are lost; limits are read before an await | no race reverses a position; what is held is guarded; account and history agree with the rows |
| Grid | works on rows read before its awaits while the user writes them and ticks save over them | a version is configured once; a report names what the engine holds; every order pays |
| Funding clock | a schedule that moves, an anchor that goes stale, late publications | every settlement exactly once, at the published rate |
| Hand-over | three drivers with different time-outs, a lease of two calls | one driver at a time; no result counted twice; an abandoned book is settled |
| Feeds, supervisor | sockets that die without a close event; crash loops; a runner that is alive and blind | one socket per chunk, feeds return, a blind runner ends, a stop starts nothing |
| Evidence | bounded memories, late or lost writes, verdicts that rest on windows | results keep their row and are decided by the rules; a conviction is judged again on evidence of its own |
| Operations | read-ask-write against a running engine; schema under a live image; a script that dies half-way | a late halt stands; code starts on its schema; VERIFIED means all there |

The hazards, each at its line and with the properties aimed at it, are in `PROJECT.json` under
`hazards`.

## 2. The plan

| Order | Modules | State |
| --- | --- | --- |
| 1 | broker, store, mirror, grid control | modelled, checked |
| 2 | funding clock, hand-over, feeds, supervisor, shadow book, court, live traders | modelled, checked |
| 3 | arithmetic (`Fills`, `GridPlan`, `Panel`, `Advice`), learning, operator scripts, rollout, accounts, health | modelled, checked |
| 4 | proofs: broker, store and its rows, halt script, rollout, grid plan, Binance mirror, grid control plane, driver hand-over | done |
| 5 | proofs: live traders, the other arithmetic, learning, accounts, court | next |

Modules are written to be proved about as well as checked: parameters are constants under a named
assumption, there is one action per operation, and no operator is RECURSIVE. Runs are few and wide;
properties of one component that one mutant could test together are conjoined under one name
(`GridOK`, `CourtOK`, ...) whose parts are separate named definitions.

## 3. The modules

The code's names are kept where TLA+ allows it. In all modules an action is a whole handler (or the
part of it between two awaits), a bound is a constant whose name starts with `Max` and which sits in
a guard, and operators named `X_HowItIsWrong` next to an `X` are its mutants: plausible mistakes that
no action uses and that the checks put in the place of `X`.

### The broker: `PaperBroker`, `Fills`, `Panel`

`PaperBroker` has `positions`, `pending`, `cooldowns`, `marked`, `closed`, `events`, `realizedPnl`,
`halted`, named after the class's fields; `nextId` numbers orders and `posted` is a history of what
the ledger was posted for each. Actions: `OnProposal` (with the gates that read broker state),
`ProcessTaker`, `ProcessCrossed`, `ProcessExpired` (the three ways `processPending` treats an order,
each ending in the whole of `tryFill`), `MarkPrice` (liquidation, stop, target, then `manageStop`),
`ManageOpen` (the time limit), `CloseManually`, `SettleFundingBoundary`, `ReconcileSettledFunding`,
`Tick` (time) and `Reset`. The loops over orders and positions are one action per element, which
allows every interleaving the loops have and more. Prices, margins and fees are small integers,
size is 1, the rejections of a fill that read only the book or the signal are one free rejection,
and absolute times are kept as the time that remains.

`Fills` has the arithmetic that `PaperBroker` leaves out: the size the book can absorb, the walk
through its levels, slippage, flat brackets, leverage tiers, the liquidation price, what a close
pays, and the restart that derives it again from the row. Prices are whole ticks, sizes whole lots,
rates basis points; the square root in the impact of a fill without a book is one of a few values.

`Panel` goes from a trade of the exchange to a proposal: the ring fills, the market is read
(`regime.ts`), each agent speaks, and the voices are weighed. Prices are abstracted to the features
computed from them, at the ends of the range each formula has.

### What is stored: `TradeStore`, `FundingRecord`, `FundingClock`, `EdgeLoop`, `Advice`

`FundingRecord` is the promise of the funding table: a settlement goes from `none` to `provisional`
or `settled`, from `provisional` to `settled`, and never back. `TradeStore` has the engine's side
(`book`, `realized`, `halted`, `settledAt`, `events`), the requests in flight (`wire`) and the tables
(`rows`, `account`, `ledger`). Every callback sends a request and goes on; `Land*` are the SQL
statements, and a request of two statements stays on the wire as its second one. `Crash`,
`BootAccount` and `BootTrades` are the end of the process and `loadBootState` + `hydrate` +
`restoreFundingEvents`; `OperatorHalt` and `OperatorResume` are the script. The boot's read of the settlements is cut at the
newest `SeedLimit` rows or fails and yields none, and the boot goes on (edge-store.server.ts:318-333);
`unread` is a history of the rows it missed. `ordered` is chosen once:
either writes land as they were issued or in any order; with `Lossy` they may fail. A balance is the
bag of its entries, so that "counted twice" is visible; each unit of time ends with one settlement of
each symbol; requests of a dead process land or are lost before the next boot; only the runner's
engine records funding. `offRecord` is a history of the settlements charged by an engine that does
not, or that has not read the row of the charge before it.

`FundingClock` has the schedule rows with anchor and interval, the walk of `boundariesBetween` with
its cap, polls, live and settled rates, the accrual, the reconciliation and the recovery after a
restart, for one symbol. `EdgeLoop` is the learning loop: votes, trades, `edge_report`, `deriveEdge`,
weights and suppressed symbols, with saves that overlap or fail and deploys that begin an epoch.
`Advice` is the threshold sweep of the shadow book with its two capped lists.

### Real orders: `BinanceMirror`, `LiveTrade`

`BinanceMirror` has the paper side (`book`, `trade`), the coordinator's `mirrors`, the phase of each
`mirrorOpen` (`opening`), `mirrorClose` (`closing`) and of the reconcile pass (`rec`, with the snapshot
it works on), `armed` and the database's `control`, and the exchange (`venue`). A task's phase names
the request it makes when it resumes, so every `await` is a point where others run. The exchange is
external: it fills a resting entry, triggers a stop, and loses or refuses requests. An order has size
1, a stop and a target are one request, and a request takes effect when it is made. A control query that
the database answers with an error has no row and disarms the mirror (`ControlUnread`).

`LiveTrade` has the tab (mode, readiness, known positions, failures in a row, the poll in flight), the
server functions of both venues split at their calls (entry, protect, persist, rollback; close order,
cancel, select, update, credit), the exchange and the rows. Calls may be refused, lost or cut off. The
reads of a poll fail one by one: without the recorded rows a history is the exchange's alone, without the
exchange it is the rows alone, and a call that fails as a whole shows nothing. Bybit answers with a page of
its newest exits (`HistoryPage`); the 200 rows a history reads are taken to be all there are.

### Grids: `GridControl`, `GridPlan`

`GridControl` has the `row`, a `stopGrid` call between its read and its write, the engine's `grid`, the
coordinator's `applied` map and `pass` (the row it read and the write it awaits), and the engine's
saves on the `wire`. A configuration is its number of orders and its cap on them. `GridPlan` has the
geometry and the economics: ranges from the form or a client, validation, the lattice around the
runner's mark; a level of a geometric grid is irrational, so levels are compared by
cross-multiplying and never computed.

### Processes: `HandOver`, `Supervisor`, `Swarm`, `DepthFeed`, `SignalFeed`

`HandOver` has the runner, a tab and the watchdog on one account in the Supabase deployment: the
heartbeat row and its age, the lease claimed in two calls, settlement row by row, the account's
read-add-write, read-only polls, shutdown, writes that land late or are lost, reads that fail and whose
error is ignored. Timers are punctual; the calls behind them may fail. `carried` is a history of the
results that another trade's close took to the account. `Supervisor` has the container with its two children, restarts, the
crash-loop window, signals, the stall watch, the shutdown and Docker's restart policy. `Swarm` and
`DepthFeed` have the sockets with reconnect timers and watchdogs, and `DepthFeed` also the books
assembled from snapshots and deltas; time is what it does to the thresholds. `stop` closes the sockets that
have opened and forgets the others (swarm.ts:554-562): one that opens later closes itself, one whose handshake
hangs stays. `SignalFeed` has polls, also those that break off at a malformed entry (`PollBreaks`),
validation, the 24 h memory, the spacing, and the evidence rows.

### Evidence: `ShadowBook`, `Court`, `Replay`

`ShadowBook` has counterfactual trades opened, marked, swept, capped, written in any order, restored
and re-adopted. `Court` has overlapping sessions of the runner, of the script and of two builds that
judge one hypothesis on the closed trades, append verdicts and retire; a session whose read of the court's
state fails goes on with an empty one (store.server.ts:416-418); confidence bounds are the sums
they bound, and placebo and deflation hold or fail freely. `Replay` has the taker and maker legs over
growing candles, the comparison of the two entries over trades and their mirrors, the candle cache by day
and the stored mirror of each shadow trade.

### Operations: `HaltTool`, `SignalArchive`, `Deploy`, `Accounts`, `HealthReport`

`HaltTool` has the script's runs statement by statement (read, court's verdict, confirmation,
compare-and-set, read back) against engines that close, breach, boot in two steps and reset.
`SignalArchive` has the frozen watermark, pages, digests, verification and the backup.
`Deploy` has the rollout: a schema applied statement by statement while the old image trades, with
Watchtower and an operator interfering. `Accounts` has sign-up, sign-in, the bot's adoption of an
existing owner query by query, tokens and rotation. `HealthReport` has one request: probes, their
deadlines, the roll-up and the hook.

## 4. The runs

| Run | Bounds | Shows |
| --- | --- | --- |
| `broker_slots` (`MCProposals`) | 3 symbols, 2 slots, 3 orders, 2 prices; every read of the market for windows of 5 samples and two lessons of the edge model | `ExposureOK` (`SlotCap`, `OneExposure`, `CoolingIsFlat`), `HaltFreezesExposure`, `PanelOK` (`FadeNeverLeads`, `SupportRaises`) |
| `broker_ledger` (`MCLedger`) | 2 symbols, one slot per direction, 2 orders, 1 settlement at one of two rates, every exit reason; funding: periods 1 and 2, 3 units of time, 1 recut, 1 late publication, 1 restart; archive: 3 signals, 2 batches, 1 reset, 1 crash; health: 2 requests over 3 deployments | `PostingsOK` (`TypeOK`, `SideCap`, `TradesMatchPostings`, `TradeNets`), `LedgerIdentity`; `FundingOK`, `FundingFlows`; `ArchiveKeeps`; `ReportIsHonest` |
| `rows` (`MCRows`) | 1 symbol, 2 trades, 1 settlement, 1 crash, 1 reset, both drivers, both orderings; a boot's read of the settlements that may fail; 2 agents, 3 trades, 2 saves at once, 1 deploy; 1 person, 2 clients, 2 users; 3 marks, 3 counts, 3 spreads; 2 operators, 2 accounts; 3 versions, 2 rollouts; 2 thresholds, 3 shadows | `StoreOK`, `RowsAgree`, `FundingRecordKept` (the refinement of `FundingRecord`), `RecordedNotRecharged`; `LearningIsSound`; `AccountsKeep`; `LatticeOK`; `HaltIsKept`; `RolloutIsSafe`; `AdviceIsSound` |
| `grid_runtime` (`MCGridControl`) | 3 submissions or stops, 1 failed write, 1 pass without a mark, 1 crash, a fitting and a breaching configuration | `GridOK` (`ConfiguredOnce`, `ReportIsTrue`); `RowCatchesUp` (`AppliedInTheEnd`, `StopsInTheEnd`, `HaltReachesRow`) |
| `hand_over` (`MCHandOver`) | 1 account, 1 trade, 1 watchdog invocation at a time, 1 failed call or crash, 2 starts | `HandOverOK` (`CountedOnce`); `BookIsTended` (`DriverKeepsItsBook`, `ResultStands`, `UnattendedSettles`, `OneDriverInTheEnd`) |
| `evidence` (`MCEvidence`) | shadow book: 1 symbol, 2 trades, 2 boots, 1 lost write; court: sessions alone, with another build (`s2`, other rules), with an overlapping one (`s3`) or with the script (`p1`), 5 or 3 closes, 4 verdicts; replay: 3 candles of 2 quotes, prices on and beyond each bracket and a slack of 1, a day of 1 candle, 1 failed download | `CourtOK`, `StaleConvictionEnds`; `ShadowKeeps`; `ReplayIsHonest` |
| `desk` (`MCDesk`) | live: 1 symbol, 2 entries, 2 exits (one page of Bybit's answer), 1 fault (any of a poll's reads, together or one by one), 2 closers; mirror: 1 symbol, a maker long and a taker short, 1 stop move, 1 trouble (lost reply, failed request, restart or flip of the switch) | `LiveOK`, `HistoryCatchesUp`; `MirrorOK` (`NoReversal`, `Protected`), `FlatInTheEnd` |
| `runner` (`MCRunner`) | broker: 1 symbol, 2 orders in turn, a ladder of 5 prices; 2 sockets, 3 drops; 2 symbols of depth, 3 versions, 2 cuts; 5 signals in 2 listings, 1 outage or broken poll, 1 lost write, 1 boot; 2 children, 2 crashes, 1 silence; 4 books, 1 fill, the shipped rates and tiers | `StopRatchets`, `ExposureEnds`; `SwarmHolds`; `DepthHolds`; `FeedHolds`; `StopIsRespected`, `SupervisorHolds`; `FillsHold`, `StopBeforeLiquidation` |
| `store_breach`, `live_cap`, `depth_watchdog`, `fill_slip` | the same modules, one component each | fail: section 6 |

Components that meet only in what they deliver or store share a run and not a behaviour: the `MC`
modules keep a variable `focus`, chosen once, and let that component move while the others rest. This
loses nothing, since no action of one reads a variable of another, and it keeps their state spaces a
sum and not a product.

Why these bounds are enough to be worth running: a cap is exceeded by one fill more than it allows, so
one symbol more than slots suffices; the ledger's arithmetic is per trade, and two trades are needed
only for charges that might land on the wrong one; a write overtakes another with two of them in
flight, and a crash matters once between any two steps; a race on an exchange position needs two
trades of one symbol that face opposite ways; a grid needs a version that replaces a version that
replaced one. For every property of a passing run there is a mutant that it catches under the run's own
bounds (`mutants` in `PROJECT.json`).

Bounds that are not constants of a module: `CloseBound` in `MCDesk` (two closes overlap only while
nothing fails and neither poll nor placement is under way; each of those is met with one close; of the two
closers, which are alike, the second begins while the first is at work),
`MoveBound` (one trade's stop moves), and in `MCRows` operators and accounts that are alike
(`toolRuns["bob"] <= toolRuns["ann"]`; an account alone is `u1`), and a
reset of the halt flag and a verdict of the court, which share no state, are met one at a time. `broker_slots` uses the symmetry of
its symbols; its properties are safety. `MaxOutages` bounds how often the signal feed's poll fails or breaks
off, so that `StayingSignalOffered` speaks of a feed that answers to the end in the end: an entry that is malformed
and stays listed would keep those listed after it from ever being looked at (sigmalui-ingester.ts:210-304). With one key a
boot's read of the settlements is never cut by `SeedLimit` but by a failure; the theorem has any limit. `CountedOnce` of `HandOver` is
stated while only one party works on the account (`contended` is a history of the opposite), because
with two the code does count twice, and of trades that are not `carried`, because a total is written whole
(section 6 for both); the run lets one invocation of the watchdog run at a
time for the same reason.

No run checks deadlock, because every system here may stop: bounds are used up and nothing is open, a
script has ended, a feed or a container was stopped. That work in hand is finished is stated by the
liveness properties instead.

### Fairness

| Specification | Weakly fair (strongly where said) | Because |
| --- | --- | --- |
| `MCRunner`, broker | `ProcessTaker`, `ProcessExpired`, `ManageOpen`, `Tick` | they are `setInterval` timers of the engine; ticks, proposals, funding and the operator promise nothing. `PositionsClose` speaks of symbols that have ticked: `manageOpen` skips one without a mark |
| `MCRunner`, `Swarm`, `DepthFeed`, `SignalFeed` | timers, handshakes that are not cut, polls that are not lost; strongly: the exchange talks (`OnMessage`, `OtherFrame`) or answers to the end (`Answer`) on a socket or poll that keeps coming back | the code retries for ever, and promises nothing about a network that never works |
| `MCRunner`, `Supervisor` | restarts, exits, the stall watch, Docker | a supervisor that is up reacts to `exit` events; Docker's restart policy is `always`, and an asked-for stop is taken to be followed by a start (`docker compose up` of a rollout): after a `docker stop` alone nothing comes back |
| `MCLedger`, `FundingClock`, `SignalArchive`, `HealthReport` | start-up, the two polls, accrual, reconciliation; the script's next page; deadlines, and what has none | timers; a script that is not killed; `fetch` with an abort signal |
| `GridControl` | the two-second poll with its writes, ticks, saves, the restart | timers, and a supervisor that restarts the runner |
| `HandOver` | `Tick`, `Beat`, `Poll`, `LoadRows`, `LeaseRead`, `Advance`: heartbeat, polls, start-up, the scheduled invocation and its calls | timers and cron; a failed call is a fault and bounded |
| `MCDesk` | the mirror's tasks, reconcile and control poll; the tab's poll (its second half strongly, since arming and disarming drop a poll) | every request is answered or times out, and the intervals keep firing |
| `MCEvidence` | clock, sweep, boot, landing of writes; the sessions' timer; quotes and downloads that do not fail | timers; a download that always fails stores nothing, by design |

The other properties of these runs are safety.

## 5. What is proved

TLC checks the instances above; the theorems below hold for every value of the constants. None uses
anything but the named assumption of its module: that constants have the obvious kinds, plus what is
listed under "Assumes". All are checked by `tlapm`.

| Theorem | Statement | Assumes |
| --- | --- | --- |
| `PaperBrokerProofs` `ExposureHolds` | `Spec => []ExposureOK`, that is `SlotCap`, `OneExposure`, `CoolingIsFlat` | finitely many symbols, orders take time |
| `HaltHolds` | `Spec => HaltFreezesExposure` | |
| `PostingsHold` | `Spec => []PostingsOK`, that is `TypeOK`, `SideCap`, `TradesMatchPostings`, `TradeNets` | |
| `LedgerBalances` | `Spec => []LedgerIdentity` | |
| `StopsRatchet` | `Spec => StopRatchets` | |
| `FundingHolds`, `WatermarksAdvance` | `FundingSpec => []FundingOK`, `FundingSpec => WatermarkForward` | periods are positive |
| `StopStands` | `SupervisorSpec => StopIsRespected` | the runner is one of the children |
| `PanelHolds` | `PanelSpec => []PanelOK`, that is `PanelTypeOK`, `FadeNeverLeads`, `SupportRaises` | features are percentages; a lesson is at most twice the base weight (`deriveEdge` clamps it) |
| `SumTheorems` `SumExcept`, `SumLonger` | one changed value of a function changes its sum by the difference; a number at the end of a sequence adds itself | a finite domain |
| `TradeStoreProofs` `StoreHolds` | `Spec => []StoreOK`, that is `TypeOK`, `OperatorHaltSticks`, `HeldIsNotSettled` | `None` is neither a trade nor a key |
| `FundingTableImplements` | `Spec => FundingRecordKept`: the table, the engine and the writes in flight implement `FundingRecord` | |
| `RecordedOnce` | `Spec => RecordedNotRecharged`: not charged again by an engine whose boot has read the row, for any limit and any failure of that read | |
| `RowsHold` | `Spec => []RowsAgree`, that is `BookMatchesRows`, `AccountBackedByRows`, `CountedOnce`, `ConfirmationsLand` | |
| `DeskProofs` `MirrorHolds` | `Spec => []MirrorOK`, that is types, `NoReversal`, `Protected` | |
| `LiveHolds` | `TradingSpec => []LiveOK`, that is `LiveTypeOK`, `Guarded`, `AccountOfRows`, `BreakerBounds`, `HistoryOnce` | finitely many symbols and callers; `NoCall` is no call |
| `OperatorProofs` `HaltsAreKept` | `HaltSpec => HaltIsKept`, five properties of the halt script | finitely many accounts; "unjudged" is no verdict |
| `RolloutsAreSafe` | `DeploySpec => RolloutIsSafe`, three properties of the rollout | there is at least one script |
| `AccountsHold` | `AccountsSpec => AccountsKeep`, that is `AccountsTypeOK`, `OneBot`, `TokensHaveRows`, `BindingsHold`, `OwnerAdopted` | the old id is none of the new ones |
| `GridProofs` `GridHolds` | `Spec => []GridOK`, that is `TypeOK`, `ConfiguredOnce`, `ReportIsTrue` | `None` is neither a configuration nor a state of a grid |
| `HandOverProofs` `HandOverHolds` | `Spec => []HandOverOK`, that is `TypeOK`, `CountedOnce` | finitely many invocations, distinct opening times |
| `DriversKeepTheirBooks`, `ResultsStand` | `Spec => DriverKeepsItsBook`, `Spec => ResultStands` | |
| `HandOverProofs` `ReportsAreTrue` | `HealthSpec => [](HealthTypeOK /\ AlarmsAreReal /\ OkIsEarned)`: all of `ReportIsHonest` but that the report returns | the bound on requests is a number |
| `OperatorProofs` `OffersHold` | `FeedSpec => [](FeedTypeOK /\ TradedIsDocketed) /\ OffersSpaced`, the safety parts of `FeedHolds` | a listing is a set of signals |
| `OperatorProofs` `ArchiveHolds` | `ArchiveSpec => [](ArchiveTypeOK /\ VerifiedCovers /\ BackupCovers) /\ CleanRunVerifies`: all of `ArchiveKeeps` but that the script ends | finitely many signals, pages of at least one row |
| `DeskProofs` `SocketsHold` | `SwarmSpec => [](SwarmTypeOK /\ OneSocketPerChunk /\ NeverOverReports)`, the safety parts of `SwarmHolds` | finitely many chunks |
| `CourtProofs` `CourtHolds` | `CourtSpec => []CourtOK`, that is `CourtTypeOK`, `OneRulebook`, `FreshEvidence`, `RetiredOnLiveTrades` | finitely many sessions; `NoRules` is no rulebook, `Never` no instant |
| `CourtProofs` `ReplaysHold` | `ReplaySpec => [](ReplayTypeOK /\ NeverBothGain /\ MakerNeverBetter /\ CacheIsClosed /\ MirrorNeverWorse) /\ OutcomeFinal`: all of `ReplayIsHonest` but that the mirror arrives | `Nothing` is no candle; the target is no nearer than the stop |
| `GridProofs` `LatticeHolds` | `PlanSpec => []LatticeOK`, that is `PlanTypeOK`, `EveryOrderPays`, `SplitAtTheMark`, `MiddleIsTwoSided` | |
| `DeskProofs` `BooksAreWhole` | `DepthFeedSpec => [](DepthTypeOK /\ BookWhole /\ ServesTheHotSet)`, the safety parts of `DepthHolds` | finitely many symbols |
| `HandOverProofs` `LearningHolds` | `EdgeSpec => LearningIsSound`, that is `EdgeTypeOK`, `FloorIsMeasured`, `WeightsAreEarned`, `LearnedIsCurrent` always, and `SuppressedStaysOut` | a base weight is at least a tenth; finitely many agents |
| `CourtProofs` `ShadowHolds` | `ShadowSpec => [](BookTypeOK /\ WindowRespected /\ IdsUnique /\ RowsFollowBook) /\ ClosedRowStays /\ OutcomeStands`: all of `ShadowKeeps` but `BookResolves` | finitely many symbols; `NoTrade` is no trade, `NoExit` no exit |
| `GridProofs` `AdviceHolds` | `AdviceSpec => AdviceIsSound`, that is `AdviceTypeOK` and `AdviceIsBest` always, `OnlyTheGateIsJudged`, `WinsNeverLoosen` | the ladder ascends; `NoAdvice` is neither a threshold nor a row |
| `GridProofs` `FillsStand` | `FillsSpec => FillsHold`, that is `FillsTypeOK` always (stop and target on their sides of the entry), `EntriesFitTheBook`, `RoundTripCosts` | a book is not crossed and lists its best level first; half a tick is less than the brackets; there is a tier and no leverage above 10,000; `Blank` is neither a book nor a position |

The arguments, each an invariant that is stronger than what is claimed:

* **Exposure.** `OneExposure` is inductive only together with `CoolingIsFlat`: a cooldown starts where a
  position closes, and then nothing else may be on the symbol. The used slots are the union of two
  finite sets; only `OnProposal` adds to it, under its guard, and a fill moves a symbol from one to the
  other, so that the cap outlives the fill although nothing tests it there. This is why `OneExposure`
  comes first. The side cap needs in addition that a fill copies the side of its order. Shape lemmas
  (`ProposalShape`, `CloseShape`, ...) say once what an action does to exposure.
* **Ledger.** `LedgerInv`: orders, positions and closed trades have distinct ids below `nextId`, a
  funding event names an id that was opened, and nothing is posted for any other id. Without the first, a
  charge could be posted for one trade and booked on another. `LedgerIdentity` then is a step of
  `SumExcept` per action. `SumTheorems` avoids the induction over data that is out of the provers' reach:
  the sum is `MapThenFoldSet`, and a statement that fails for some finite set fails for one of least
  cardinality (`LeastNatural`, from the well-foundedness of the naturals).
* **Funding clock.** `FundingInv`: settlements lie behind and are published in order (`Behind`), and what a
  start-up is about to replay has no gap: every settlement of the position before one of its instants is
  charged or will be replayed too (`Replays`). Without it, the watermark that jumps to the latest replayed
  instant could pass one that stays unpaid. The arithmetic of the walk from the anchor, with its rounded
  division, is in `FirstOfGrid`; `BoundariesTrue` draws from it that a true clock finds the settlements in
  order and without a gap.
* **Supervisor.** `SupervisorInv`: while the container is not stopping, no child has been restarted more often
  in its window than allowed and one is alive; what waits for its restart is dead. Every way out goes through
  `Exits`, whose lemma `ExitsKeep` is proved once.
* **Panel.** `PanelInv`: a proposal is what the present voices, market and lessons combine to. A voice counts
  for at most its share (`VoiceInShare`); in a trend or a breakout the share of MeanRev is at most 56 points
  of the 60 a proposal needs. Taking a voice away changes the net by what it said and leaves the whole
  (`Silenced`), and a quotient with one divisor is monotone (`QuotientGrows`).
* **Store.** `StoreInv` says which of memory, wire and table may run ahead of which: `Fresh` (what was
  never issued is nowhere), `Held` (a position's row is not closed and no close of it is on the way),
  `Distinct` and `Quiet` (one request per kind and trade; none before a boot that could undo it),
  `Charged` (a key that was charged and recorded is known to the engine that would charge it, or is one its
  boot did not read).
* **Rows.** What a crash leaves behind is decided by how much of the wire has landed. `RowsInv` is about
  *every* database ahead: the present one, the one after the first write lands, and so on. Each is
  `Sound`, and the last agrees with the engine's memory. An action of the engine appends one, a write
  that lands drops the first, the death of a process drops from the end. The chain is quantified
  existentially, as a function on `0..n`, so no recursive definition is needed.
* **Mirror.** `MirrorInv`: tasks work on trades that were dealt and sweeps on positions that were seen;
  the resting orders, the stop and the net position of a symbol come from its own trades (`OnExchange`,
  `Owned`); and while nothing has failed, the only trade of a symbol is entered once and lacks a stop
  only while one of its tasks is at work (`FirstTrade`, `OneTrade`).
* **Live traders.** `LiveInv`: what the tab knows and how many failures it has counted is bounded by the
  entries made and the placements under way (`TabInv`); a position without a stop has the side and the size
  of the one entry its placement made (`SiteInv`); a close carries an exit the exchange made and a row that
  is there, and an open row has no profit yet. The account is *behind* its rows by what closes have yet to
  credit, a second sum, over the callers (`Booked`): without it no single step of two closes that overlap
  preserves `AccountOfRows`. The history is the rows and the listed exits without them, so neither half
  repeats an exit and a failed read leaves out only its own.
* **Halt script.** `HaltInv`: the flags an engine saves include the ones it has read, and a run of the
  script knows which flags it compared. **Rollout.** `DeployInv`: a container that serves has an image
  that was built, and the schema's progress says which scripts are applied.
* **Accounts.** `AccountsInv`: whoever is signed in as the bot has the id of the row with the bot's address,
  of which there is one (`Based`), and every id in use was handed out, so that a fresh one is free. What the
  writers of `app_users` have in common is one action, `RowsKept`: no id goes, and no address changes its id.
* **Court.** `CourtInv`: the verdicts are in the order of their instants and no close has an instant of one
  (`Chronicle`), and what each session has in hand (`Evidence`) is what the rows showed when it read them.
  A session whose read failed knows of no retirement, so what it convicts on need not be fresh (`knows`).
  Closes only add to the closed trades and rows only grow, so evidence that was fresh when it was read is
  still on the record when the session writes, and a row written meanwhile is later than all of it. The
  charges are sums over a set of trades, hence `SumExcept`.
* **Signal feed.** `FeedInv`: for every signal that was offered within the retention, the map of signals has
  its age (`Remembers`), and the map of symbols one no older than that of any signal of the symbol. An answer
  admits the first signal of a symbol only (`OffersAreNew`), so the offers of one answer keep their distance
  from each other as well as from the past. What was taken up is on the docket or its write was lost
  (`Docketed`).
* **Archive.** `ArchiveInv`: a run of the script, wherever its cursor stands, has seen the frozen rows before
  it that the source still has, and has staged a set of rows, one for each it counted, with none left out
  before the cursor (`Progress`, `Streamed`). It rests on one lemma on keyset pages, `PageCovers`: a page
  misses nothing between the cursor and its newest row, and an empty one is the end. That follows from the
  order of `(created_at, id)` being total (`UptoOrders`) and from the first and last rows of a finite set
  (`EndRows`, by `LeastNatural` on the number of rows before one). A reset of the source only takes rows away,
  a late commit is of a row nobody froze (`SourceMoves`).
* **Sockets.** `SwarmInv`: a chunk that waits to reconnect has no socket, and one whose socket has not opened
  is not counted. The count of open sockets moves with the set it counts (`InSockets`).
* **Depth feed.** `DepthInv`: the book that is shown, the frames under way and the book of the exchange are
  of one sequence of versions (`InOrder`): a delta is the version after the frame of its symbol before it, or
  after the book when it is the first, and the last frame is what the exchange has. Frames only join at the end
  (`OrderJoins`, `OrderDelta`) and leave at the front (`OrderTail`), and a book that is dropped meanwhile does
  not break the sequence (`OrderZero`). A reconnect that is due finds no frame under way.
* **Learning.** `EdgeInv`: what is learned derives from a report that the rows have outgrown, `Within`: no
  set of rows has more members in it than there are now. A row that lands adds one to each count that has it
  (`CountGrows`), so a floor or a weight that was earned by a sample stays earned. While saves come one at a
  time, what is learned is behind by the one under way only (`InStep`), and that is when a proposal heeds what
  the rows say (`ProposalsHeed`). Sums of naturals are naturals by `SumNat`.
* **Replay.** An outcome is decided at the first candle that hits, so candles that come later leave it
  (`WalkStays`, `MakerStays`): minima of sets of candles agree on a common beginning. A mirror may have been
  decided on a candle that was still moving. `Earned` says what it then owes the closed candles: a stop or a
  target that was hit there stays hit, because a candle can only widen, so the final candle can only bring the
  stop forward.
* **Shadow book.** `ShadowInv` says what the rows will hold when every write has landed, in whatever order: an
  id is live when an opening speaks of it, as a row or on the wire, and no close does (`LiveIds`). While no
  write failed and no boot read rows that were being written, the live ids are those of the open trades; after
  a crash they are those of a set of at most `MaxOpen` trades of different symbols (`LeftOpen`), so the boot's
  limit and its one trade per symbol leave none behind (`BootKeeps`). An id is of an instant at which the book
  that gave it was up, and a restart takes time: a boot that forgets the numbers cannot repeat an id (`Fresh`).
  A close and a sweep are one lemma, `ClosesKeep`.
* **Advice.** `AdviceInv` gives the kinds only; the rest is arithmetic. One row covers another when its mean is
  higher, or on a tie when it has more trades or is stricter; covering is transitive (`CoversOn`, by cross
  multiplication in `Crosswise`), and the least step of the walk up the ladder that misses a better rung does
  not exist (`BestIsBest`). A trade that pays more than the mean of the advised row counts for every laxer
  one too, and lifts the advised one, which has fewer trades, at least as much (`LiftsMore`).
* **Fills.** A walk through a book is the function that its recursion defines (`ChainExists`), and facts about
  it go up level by level (`Upwards`). `ExecutableOK` is the invariant of the walk that sizes an order: any
  part of what it counts, not only the whole, costs no more than the limit allows, for the order may be the
  smaller of that and what the risk asks. Prices are rounded to a tick and a tick can be coarse: the result is
  off by at most half of one (`NearestOff`), which `Resolved` compares with the brackets. It is assumed of the
  prices of the books and follows for all that are further up (`LaterPriceResolved`). Nothing is assumed of the
  leverage but its bound, the tiers are any sequence but the empty one, and nothing is said of the liquidation price.
* **Health report.** `HealthInv`: an answer is on file for exactly the probes that are configured, and the
  unreachable ones are those that failed (`Asked`); once all have answered, the report is what the answers
  say (`Told`, `StateFacts`), also while it waits for the hook.
* **Grid plan.** `PlanInv`: a lattice that runs was validated with the mark it runs on; the lemma
  `TopOrderAboveMiddle` gives both sides their orders. A level of a geometric lattice is compared by powers of
  its bounds; that they grow with the level is proved by a least counterexample, as for the sums.
* **Grid control.** `GridInv`: a pass works on a version that the row has had, and nothing applied is newer
  (`Underway`, `Ordered`); a version that may not be configured again until a write fails is settled, or its
  'running' is being written (`Once`); an engine that knows of the row's version has its configuration
  (`Held`); an engine without a grid was booted from a row without state (`Empty`), so that no row reports a
  grid it could not have.
* **Hand-over.** `HandInv`: while one party works (`LoneRun`: an invocation at work excludes engines and
  their writes), a result that an engine, a write or a total holds is held once (`Counted`), nothing holds the
  result of a trade that is open or about to be (`Backed`), and an invocation carries only results whose rows
  it settled and which the account lacks (`Works`). `Punctual` bounds a live runner's last heartbeat by the
  beats it has missed.

Only model-checked:

* liveness (`HistoryCatchesUp`, `FlatInTheEnd`, `RowCatchesUp`, `BookIsTended`, `ExposureEnds`,
  `SupervisorHolds`, `StaleConvictionEnds`) and the liveness parts of the conjunctions `FundingFlows`,
  `ArchiveKeeps`, `ReportIsHonest`, `SwarmHolds`, `FeedHolds`, `DepthHolds`, `ReplayIsHonest` and `ShadowKeeps`, whose safety
  parts are proved: the prover has no `ENABLED`;
* `StopBeforeLiquidation`: nothing in the code compares `SL_PCT` with `LEVERAGE`, so that the stop comes before the
  liquidation is a fact about the shipped settings, and the run checks it for those.

## 6. What the models found

Four runs fail, each on a sentence of the repository that the code does not keep (`findings`):

* `store_breach`: the close that trips the drawdown halt is written with the flag from before. The trace has
  a boot, an open, a close that loses too much, and its writes landing; no operator is at work in it.
* `live_cap`: a burst of proposals does exceed the cap of live positions, which is read before an await.
* `depth_watchdog`: the depth feed's watchdog is not armed again after the first reconnect.
* `fill_slip`: the sign of `slippageBps` makes the entry gate refuse favourable fills and pass adverse
  ones.

Other statements that the code does not keep stay in the modules as definitions no run checks:

* `PaperBroker` `LiquidationLosesMargin`: the late correction of a provisional charge changes a
  liquidated trade's loss, which "is the posted margin regardless" (paper-broker.ts:1018, 1778).
* `TradeStore` `MissedHasNoRow`: a close may match no row because its open is late, and the open then
  leaves an open row of a closed position (edge-store.server.ts:160, 188). `ChargedOncePerPosition`: the
  funding watermark is not stored, so a settlement whose row was lost, could not be read, or is not among the 500 newest is charged again after a
  restart, although "the persisted lastFundingAt watermark is still the braces" (paper-broker.ts:1167,
  edge-store.server.ts:318-333).
* `BinanceMirror` `RecordedIsPushed`: `syncBrackets` records the stop as it is two awaits later
  (binance-runtime.ts:281, field at 52).
* `GridControl` `NeverRebuilt`: after a failed 'running' write the next pass rebuilds the live grid
  (grid-runtime.ts:89, header 12-13).
* `HandOver` `TabKeepsItsBook`: only the runner writes the heartbeat, so the watchdog settles a book a tab
  is driving (tick.server.ts:136, header 7-8). `OnlyTheQuiet`: a heartbeat read that fails looks like a
  driver that has gone quiet, and the watchdog settles the positions of a runner that beats on time (133-136).
  `SingleFlight`: the lease is read and then written in two calls, so two invocations both hold it (58-82).
  `ObserverNeverWrites`: an observing tab still closes and
  saves (engine-runtime.ts:367, dashboard.tsx:651-653).
* `Court` `NoFlipBack`: the script judges again after a retirement, and so does a session whose read of the
  court's state failed, since `loadCourtState` answers an error with an empty state: on the very trades that
  retired the hypothesis (court.ts:149, parole.ts:6-8, store.server.ts:416-418, snapshot.server.ts:118).
  `FreshEvidence` is therefore stated of the sessions that read the retirement.
* `FundingClock` `ChargesAreSettlements`: on the 8 h fallback schedule, or after a schedule change,
  instants are charged that are no settlements (funding-clock.ts:3, engine-runtime.ts:637-639).
* `GridPlan` `TwoSided`, `PreviewIsTrue`: with the mark in the top cell the lattice is all buys
  (futures-grid.ts:325-327), and the form's preview counts one buy too few between levels.
* `Panel` `ChopIsQuiet`: in a chop, Trend, MeanRev or Breakout alone can pass the threshold, though "only
  the volume-shock agent is allowed a (small) voice" (regime.ts). `FadeNeverLeads` holds while the edge
  model weights MeanRev at most 1.40 times; it would fail near 1.875.
* `Advice` `SamplesBringAdvice`: "N more samples needed" reaches 0 without advice.
* `Deploy` `CodeHasItsSchema`, `ReportIsCurrent`: Watchtower starts a version on the old schema
  (verify-migration.mjs:127-131), and an older checkout's script replaces `edge_report`.
* `Fills` `RestartKeepsRisk`: `hydrate` derives leverage from the configuration alone, so margin and
  liquidation price differ after a restart.
* `HaltTool` `OverridesHaveAReason`: the reason may be the next flag (halt-trading.mjs:139).
* `Accounts` `PeopleKeepTheirAddress`, `SessionServed`; `EdgeLoop` `LastReportLearned`, `LosersDamped`,
  `TradingGoesOn`; `SignalFeed` `AdmittedIsOnRecord`; `Supervisor` `BlindNeverStays`: their comments say how
  each is missed.

Met while modelling, with no definition of their own:

* *Broker and fills.* The drawdown limit is compared only where a position closes, so funding alone never
  halts (paper-broker.ts:1873). A restored position whose symbol never ticks is skipped by the time limit
  (1679). The entry fee is restored at the taker rate for maker entries. The exit's `walk.avgPrice` is not
  clamped to the trigger (1737-1738). The `allowPartialFills` branch cannot be reached. A stop-loss may lose
  more than the posted margin: nothing compares `SL_PCT` with `LEVERAGE`.
* *Store.* `recoverMissedFunding` never reconciles provisional rows of an earlier process, and a failed
  confirmation is not retried (engine-runtime.ts:526, 571). A settlement charged by a dashboard's engine is
  not recorded, and is charged again by the engine that boots after it. The boot reads the account before
  the trades. A select-then-insert race exists on the paper account (edge-store.server.ts:58-64).
* *Halt.* The header of `halt-trading.mjs` (16-31) says a close overwrites the flag; `persistCloseTrade`
  ORs (edge-store.server.ts:217-223). `sbPersistCloseTrade` does overwrite it (supabase-store:211). A flag
  lifted and set again between read and compare-and-set is not noticed (200-205). A resume while the
  engine is up is undone by its next close.
* *Mirror.* A post-only entry that rests is cancelled by the bracket sync that follows its own
  acknowledgement (binance-runtime.ts:261, 278). The kill switch is looked at before the awaits of an entry
  and not again (169). The orphan sweep compares with a snapshot taken before its awaits (362-389), which is
  why `Protected` speaks of the first trade of a symbol.
* *Live traders.* A Binance entry whose answer is lost leaves an unprotected position
  (live-trader.functions.ts:368-381). `cancelAll` after a stale read strips a new position's stop. Two
  closers may meet on one row and credit it twice. A history refreshed while Bybit does not answer lacks the
  exits that have no row yet (bybit-trader.functions.ts:653-658). "At most one, by design" (live-store.server.ts:129) has no guard.
* *Grid.* A boot pairs the row's present configuration with the older runtime state, although "restore never
  front-runs validation" (runner/db.ts:129-141). A halted save of an old version that lands late leaves a
  healthy grid reported halted. After a failed 'running' and a halted save the applied version stays behind,
  and a restart clears the halt.
* *Funding clock.* An anchor older than the cap of intervals is given up, and settlements at or before
  `after` are returned (funding-clock.ts:216).
* *Hand-over.* The lease is a read followed by an upsert, and releasing it clears anyone's, so two
  invocations may count a result twice (tick.server.ts:58-96). A result is added even when the update
  matched no row (202-224). The total is written whole, so a close also stores the results of other trades
  whose own row is late or lost, and the next engine counts those again. A failed heartbeat poll makes the tab take over. `limit(100)` and `MAX_USERS`
  may starve accounts. A lease row marked paused ends each invocation at once (67); nothing in the repository
  marks it, and the fairness takes it as unmarked. `sbLoadBootState` looks at no error: an account or trades that cannot be read boot as
  empty ones (supabase-store:52-106), and a tab whose call fails starts with an empty book (dashboard.tsx:640-644).
* *Feeds and supervisor.* The depth socket that is mute from its first frame is never recycled. A swarm
  socket that never opened decrements `connected`. `stop` leaves a socket whose handshake hangs
  (swarm.ts:554-562). A malformed entry of the feed ends its poll before the entries after it are looked at
  (sigmalui-ingester.ts:210-304). A halted runner does not exit on a dead feed
  (index.ts:376-379). A signal listed for more than 24 h is offered again, a failed evidence write is not
  retried for 24 h, and the cooldown is used up even if the broker refuses. With both children waiting on
  unref'd timers the supervisor exits 0. Its header
  gives up at `>= MAX_RESTARTS` restarts, the code one later (supervisor.mjs:8, 82).
* *Court and evidence.* A retirement refused because the rules changed is still listed
  (snapshot.server.ts:135-141). A rolling window of 14 days keeps `signals:*` too early for ever. A
  transient "candles unavailable" is stored for good (58-70). The replay uses the unfinished candle. Shadow
  marks are not persisted, so the sweep after a restart exits at the entry price (shadow-book.ts:562).
* *Operations.* After a reset the archive's count exceeds the source's and no later batch verifies. With
  `DATABASE_URL` unset `apply-schema` exits 0 and the deploy goes on. A hanging database makes the health
  report never return. Two owners and one bot may overwrite a person's e-mail (`adoptExistingOwnerId`).
  `bybit-executor.ts` is imported by nothing.

## 7. Not modelled, and why

The agents' indicators and the court's statistics (bootstrap, sign-flip tests) are floating-point
computations over series; the models take what they decide as a free input, at the ends of its range
where a formula has one. Request signing, quantity filters, password hashing and log rotation are
libraries or one-liners without state. MCP tools and the user interface keep no state of their own, apart
from the tab's, which `LiveTrade` and `HandOver` have. Migration verifiers and one-shot repair scripts run
once by hand. `bybit-executor.ts` is dead code, and of `bybit-grid.ts` only the mode functions are used.

A component is "partly" modelled in `PROJECT.json` when an operation of it that changes state is among
these.

## 8. Running it

    tlc -workers 2 -config BrokerSlots.cfg MCProposals
    tlapm PaperBrokerProofs.tla

`runs` in `PROJECT.json` names the configuration and the module of each run; the longest takes under
four minutes. `tlapm` takes a few minutes for each proof module the first time.
