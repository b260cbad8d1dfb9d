----------------------------- MODULE GridControl -----------------------------
(***************************************************************************)
(* The grid control plane.  The dashboard writes what it wants into a row  *)
(* of futures_grid_state (src/src/lib/grid.functions.ts); the runner's     *)
(* coordinator polls the row, configures the engine and reports back       *)
(* (src/runner/grid-runtime.ts); the engine marks the grid on every tick   *)
(* and saves it, fire and forget (src/src/lib/engine-runtime.ts).  The SQL *)
(* is in src/src/lib/db/edge-store.server.ts.                              *)
(*                                                                         *)
(* Abstractions.  One user, one symbol.  A configuration is its number of  *)
(* orders and its cap on them: in paper mode the position is always zero,  *)
(* so the order cap is the only risk limit a grid can breach.  Whether the *)
(* mark is known and inside the range is a choice.  The requests of a dead *)
(* process have landed or are lost before the next one boots.              *)
(***************************************************************************)
EXTENDS Integers, Sequences, SequencesExt

CONSTANTS
    Configs,      \* [orders, cap] records the user may submit
    None,
    MaxVersion,   \* bound: submissions
    MaxWire,      \* bound: saves in flight when a tick saves
    MaxFailures,  \* bound: coordinator writes that fail
    MaxTroubles,  \* bound: passes that find no usable mark
    MaxCrashes    \* bound: crashes of the runner

Versions == 1..MaxVersion

ASSUME GridAssumption ==
    /\ Configs \subseteq [orders : Nat, cap : Nat]
    /\ MaxVersion \in Nat /\ MaxWire \in Nat /\ MaxFailures \in Nat
    /\ MaxTroubles \in Nat /\ MaxCrashes \in Nat
    /\ None \notin [orders : Nat, halted : BOOLEAN]
                      \cup [config : Configs, orders : Nat, halted : BOOLEAN]

VARIABLES
    row,          \* the row; version 0 stands for no row
    stopping,     \* the configuration a stopGrid call has read, or None
    up,           \* is the runner running?
    grid,         \* the engine's grid: [config, orders, halted] or None
    applied,      \* the coordinator's map, for this row
    pass,         \* the coordinator's pass: [at, row, applied]
    wire,         \* saves of the engine in flight: [orders, halted]
    failures, troubles, crashes,
    builds        \* history: times this process configured each version

runner == <<up, grid, applied, pass>>
counters == <<failures, troubles, crashes>>
vars == <<row, stopping, runner, wire, counters, builds>>

NoPass == [at |-> "idle", row |-> None, applied |-> 0]
NoBuilds == [v \in Versions |-> 0]

Init ==
    /\ row = [version |-> 0, desired |-> "stopped", config |-> None,
              status |-> "idle", applied |-> 0, state |-> None]
    /\ stopping = None
    /\ up = TRUE /\ grid = None /\ applied = 0 /\ pass = NoPass
    /\ wire = <<>>
    /\ failures = 0 /\ troubles = 0 /\ crashes = 0
    /\ builds = NoBuilds

-----------------------------------------------------------------------------
(* The dashboard.  upsertGridConfig bumps the version in the statement. *)

Upsert(config, desired) ==
    /\ row.version < MaxVersion
    /\ row' = [row EXCEPT !.version = @ + 1, !.config = config, !.desired = desired]

Submit(config) ==
    /\ Upsert(config, "running")
    /\ UNCHANGED <<stopping, runner, wire, counters, builds>>

(* stopGrid reads the stored configuration, then writes it back *)
StopRead ==
    /\ row.version > 0
    /\ stopping = None
    /\ stopping' = row.config
    /\ UNCHANGED <<row, runner, wire, counters, builds>>

StopWrite ==
    /\ stopping # None
    /\ Upsert(stopping, "stopped")
    /\ stopping' = None
    /\ UNCHANGED <<runner, wire, counters, builds>>

-----------------------------------------------------------------------------
(* The coordinator: sync, one row *)

Runnable(r) == r.desired = "running" \/ r.status \in {"running", "starting"}

Settled_RunningOnly(r, effective) == r.version <= effective /\ r.status = "running"
Settled(r, effective) == r.version <= effective /\ r.status \in {"running", "halted"}

Larger(m, n) == IF m >= n THEN m ELSE n

(* loadRunnableGridStates *)
Load ==
    /\ up
    /\ pass.at = "idle"
    /\ Runnable(row)
    /\ pass' = [at |-> "loaded", row |-> row, applied |-> Larger(applied, row.applied)]
    /\ UNCHANGED <<row, stopping, up, grid, applied, wire, counters, builds>>

Goes(at) == pass' = [pass EXCEPT !.at = at]
Ends == pass' = NoPass

(* reconcile, up to its first write: the pass is at the write it awaits.  A
   stopped row that is loaded is never 'idle', see Runnable; the code's test
   for it is kept. *)
Reconcile ==
    /\ pass.at = "loaded"
    /\ \/ /\ pass.row.desired = "stopped"
          /\ pass.row.status # "idle"
          /\ Goes("stop")
          /\ UNCHANGED applied
       \/ /\ pass.row.desired = "stopped"
          /\ pass.row.status = "idle"
          /\ Ends
          /\ applied' = pass.row.version
       \/ /\ pass.row.desired = "running"
          /\ Settled(pass.row, pass.applied)
          /\ Ends
          /\ UNCHANGED applied
       \/ /\ pass.row.desired = "running"
          /\ ~Settled(pass.row, pass.applied)
          /\ Goes("start")
          /\ UNCHANGED applied
    /\ UNCHANGED <<row, stopping, up, grid, wire, counters, builds>>

(* persistGridRuntime.  `stored`: did the row change?  `answered`: does the
   coordinator learn so?  It can fail either way, unless both are TRUE. *)
Persist(status, state, version, stored, answered) ==
    /\ answered => stored
    /\ answered \/ failures < MaxFailures
    /\ failures' = IF answered THEN failures ELSE failures + 1
    /\ row' = IF stored
              THEN [row EXCEPT !.status = status, !.state = state, !.applied = version]
              ELSE row

(* desired 'stopped': a failure leaves the pass, and the map as it was *)
PersistStopped(stored, answered) ==
    /\ pass.at = "stop"
    /\ Persist("idle", pass.row.state, pass.row.version, stored, answered)
    /\ applied' = IF answered THEN pass.row.version ELSE applied
    /\ Ends
    /\ UNCHANGED <<stopping, up, grid, wire, troubles, crashes, builds>>

PersistStarting(stored, answered) ==
    /\ pass.at = "start"
    /\ Persist("starting", pass.row.state, pass.applied, stored, answered)
    /\ Goes(IF answered THEN "configure" ELSE "fail")
    /\ UNCHANGED <<stopping, up, grid, applied, wire, troubles, crashes, builds>>

(* resolveMarkPrice or assertMarkInsideRange throws *)
NoUsableMark ==
    /\ pass.at = "configure"
    /\ troubles < MaxTroubles
    /\ troubles' = troubles + 1
    /\ Goes("fail")
    /\ UNCHANGED <<row, stopping, up, grid, applied, wire, failures, crashes, builds>>

Save(g) == wire' = Append(wire, [orders |-> g.orders, halted |-> g.halted])

(* configureGrid: a fresh grid, its save on the way, and the version in the
   map before the awaited write *)
ConfigureGrid ==
    /\ pass.at = "configure"
    /\ grid' = [config |-> pass.row.config, orders |-> pass.row.config.orders,
                halted |-> FALSE]
    /\ Save(grid')
    /\ applied' = pass.row.version
    /\ builds' = [builds EXCEPT ![pass.row.version] = @ + 1]
    /\ Goes("run")
    /\ UNCHANGED <<row, stopping, up, counters>>

AppliedVersion == pass.row.version

PersistRunning(stored, answered) ==
    /\ pass.at = "run"
    /\ Persist("running", [orders |-> pass.row.config.orders, halted |-> FALSE],
               AppliedVersion, stored, answered)
    /\ IF answered THEN Ends ELSE Goes("fail")
    /\ UNCHANGED <<stopping, up, grid, applied, wire, troubles, crashes, builds>>

(* the catch clause, whose own failure is ignored *)
PersistError(stored, answered) ==
    /\ pass.at = "fail"
    /\ Persist("error", pass.row.state, pass.applied, stored, answered)
    /\ Ends
    /\ UNCHANGED <<stopping, up, grid, applied, wire, troubles, crashes, builds>>

-----------------------------------------------------------------------------
(* The engine *)

Breached(g) == g.orders > g.config.cap

SaveDue_OnChange(old, new) == old.halted # new.halted
SaveDue(old, new) == TRUE    \* a changed disposition, or the interval is over

(* updateGridRiskState on a tick that saves *)
Mark ==
    /\ up
    /\ grid # None
    /\ Len(wire) < MaxWire
    /\ grid' = [grid EXCEPT !.halted = Breached(grid)]
    /\ SaveDue(grid, grid')
    /\ Save(grid')
    /\ UNCHANGED <<row, stopping, up, applied, pass, counters, builds>>

(* persistGridRuntimeBySymbol: the status can only go up to 'halted' *)
Land(i) ==
    /\ row' = [row EXCEPT !.state = wire[i],
                          !.status = IF wire[i].halted THEN "halted" ELSE @]
    /\ wire' = RemoveAt(wire, i)
    /\ UNCHANGED <<stopping, runner, counters, builds>>

(* A save dies with its process. *)
Drop(i) ==
    /\ ~up
    /\ wire' = RemoveAt(wire, i)
    /\ UNCHANGED <<row, stopping, runner, counters, builds>>

Crash ==
    /\ up
    /\ crashes < MaxCrashes
    /\ crashes' = crashes + 1
    /\ up' = FALSE
    /\ grid' = None /\ applied' = 0 /\ pass' = NoPass
    /\ builds' = NoBuilds
    /\ UNCHANGED <<row, stopping, wire, failures, troubles>>

(* loadGridBoot: the row's configuration with the row's runtime state *)
Boot ==
    /\ ~up
    /\ wire = <<>>
    /\ up' = TRUE
    /\ grid' = IF row.state = None THEN None
               ELSE [config |-> row.config, orders |-> row.state.orders,
                     halted |-> row.state.halted]
    /\ UNCHANGED <<row, stopping, applied, pass, wire, counters, builds>>

-----------------------------------------------------------------------------
Awaited(stored, answered) ==
    \/ PersistStopped(stored, answered)
    \/ PersistStarting(stored, answered)
    \/ PersistRunning(stored, answered)
    \/ PersistError(stored, answered)

User == \/ \E config \in Configs : Submit(config)
        \/ StopRead
        \/ StopWrite

Next ==
    \/ User
    \/ Load \/ Reconcile
    \/ \E stored, answered \in BOOLEAN : Awaited(stored, answered)
    \/ NoUsableMark \/ ConfigureGrid
    \/ Mark
    \/ \E i \in DOMAIN wire : Land(i) \/ Drop(i)
    \/ Crash \/ Boot

Spec == Init /\ [][Next]_vars

(* The sync timer keeps firing and every request is answered; ticks keep
   coming; the runner is restarted by its supervisor. *)
Fairness ==
    /\ WF_vars(Load) /\ WF_vars(Reconcile) /\ WF_vars(ConfigureGrid)
    /\ WF_vars(\E stored, answered \in BOOLEAN : Awaited(stored, answered))
    /\ WF_vars(Mark)
    /\ WF_vars(\E i \in DOMAIN wire : Land(i))
    /\ WF_vars(Boot)

FairSpec == Spec /\ Fairness

-----------------------------------------------------------------------------
(* Properties *)

Statuses == {"idle", "starting", "running", "halted", "error"}
State == [orders : Nat, halted : BOOLEAN]
Row == [version : 0..MaxVersion, desired : {"stopped", "running"},
        config : Configs \cup {None}, status : Statuses,
        applied : 0..MaxVersion, state : State \cup {None}]

(* Every variable has its type. *)
TypeOK ==
    /\ row \in Row
    /\ stopping \in Configs \cup {None}
    /\ up \in BOOLEAN
    /\ grid \in [config : Configs, orders : Nat, halted : BOOLEAN] \cup {None}
    /\ applied \in 0..MaxVersion
    /\ pass \in [at : {"idle", "loaded", "stop", "start", "configure", "run", "fail"},
                 row : Row \cup {None}, applied : 0..MaxVersion]
    /\ wire \in Seq(State)
    /\ failures \in 0..MaxFailures /\ troubles \in 0..MaxTroubles
    /\ crashes \in 0..MaxCrashes
    /\ builds \in [Versions -> Nat]

(* A process configures a version once, and once more at most for each write
   that failed: passes never reconfigure a grid on their own account. *)
ConfiguredOnce == \A v \in Versions : builds[v] <= 1 + failures

(* A row that reports its present version applied and live describes the
   configuration the engine holds, also after a restart and whatever the user
   submitted while the pass was under way. *)
ReportIsTrue ==
    (/\ up
     /\ row.desired = "running"
     /\ row.status \in {"running", "halted"}
     /\ row.applied = row.version)
    => grid # None /\ grid.config = row.config

(* What the user submits last is applied to the engine and reported so in the
   end.  The row's own applied version may stay behind for good: a halted save
   that follows a failed 'running' settles the row by the map alone. *)
Wanted(v) == row.version = v /\ row.desired = "running"
Live(v) == /\ Larger(applied, row.applied) = v
           /\ row.status \in {"running", "halted"}
           /\ grid # None /\ grid.config = row.config
AppliedInTheEnd == \A v \in Versions :
    Wanted(v) ~> (row.version # v \/ Live(v))

(* A grid the user stopped does not stay reported as running. *)
StopsInTheEnd ==
    row.desired = "stopped"
        ~> (row.desired = "running" \/ row.status \notin {"running", "starting"})

(* A grid that stays halted in the engine is reported halted for good, even
   when the coordinator's 'running' lands after the first halted save. *)
HaltReachesRow ==
    <>[](up /\ grid # None /\ grid.halted) => <>[](row.status = "halted")

(* "taking the max of the two prevents reconfiguring a grid that is already
   live" *)
NeverRebuilt == \A v \in Versions : builds[v] <= 1

(* A grid is configured once per version, and what the row reports was so. *)
GridOK == TypeOK /\ ConfiguredOnce /\ ReportIsTrue

(* What the operator asked for is applied, what was stopped stops, and a halt of the risk
   check reaches the row, across crashes and failed writes. *)
RowCatchesUp == AppliedInTheEnd /\ StopsInTheEnd /\ HaltReachesRow

=============================================================================
