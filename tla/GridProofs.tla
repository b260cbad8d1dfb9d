------------------------------ MODULE GridProofs ------------------------------
(***************************************************************************)
(* What holds of the grids for every instance, proved with TLAPS.  First   *)
(* the control plane (GridControl): a version is configured once, and the  *)
(* report is true.  Then the geometry (GridPlan), for every range, count,  *)
(* price and cost.  The levels of a geometric grid are powers, of which it *)
(* is enough to know that they grow with the base and that a level grows   *)
(* with its number.  Then the suggested gate of the dashboard (Advice):   *)
(* the walk up the ladder is the best, since covering is transitive; and   *)
(* what an order costs (Fills), for every book, rate, risk limit and size. *)
(***************************************************************************)
EXTENDS GridControl, GridPlan, Advice, Fills, SumTheorems, FiniteSetTheorems, SequenceTheorems, TLAPS

(* A pass is under way *)
Active == pass.at # "idle"

(* A row without a version was never written; a row that reports a live grid
   has its state *)
Submitted ==
    /\ row.version > 0 => row.config \in Configs
    /\ row.version = 0 => /\ row.desired = "stopped" /\ row.status = "idle" /\ row.state = None
                          /\ ~Active /\ grid = None /\ wire = <<>>
    /\ row.status \in {"running", "halted"} => row.state # None

(* Where a version counts as applied: the row, the map, the pass *)
Known(v) ==
    \/ row.applied = v \/ applied = v
    \/ Active /\ (pass.applied = v \/ (pass.at = "run" /\ pass.row.version = v))

(* A pass works on a version the row has had, and nothing it can have applied
   is newer *)
Underway ==
    Active =>
       /\ up /\ pass.row \in Row
       /\ 0 < pass.row.version /\ pass.row.version <= row.version
       /\ pass.applied <= pass.row.version
       /\ applied <= pass.row.version /\ row.applied <= pass.row.version
       /\ pass.row.config \in Configs
       /\ pass.row.version = row.version =>
             pass.row.desired = row.desired /\ pass.row.config = row.config
       /\ pass.at = "stop" => pass.row.desired = "stopped"
       /\ pass.at \in {"start", "configure", "run"} => pass.row.desired = "running"

(* No version is applied before it is submitted, and a dead process knows none *)
Ordered ==
    /\ row.applied <= row.version /\ applied <= row.version
    /\ ~up => applied = 0 /\ \A v \in Versions : builds[v] = 0

(* A version that may not be configured again until a write has failed: it is
   settled, or its 'running' is being written *)
Spent(v) == builds[v] = 1 + failures
Once ==
    \A v \in Versions :
       /\ builds[v] <= 1 + failures
       /\ Spent(v) =>
          /\ v <= row.version
          /\ row.version = v =>
                /\ row.desired = "running" /\ v <= applied
                /\ row.status \in {"running", "halted"} \/ pass.at = "run"
          /\ Active => /\ v <= pass.row.version
                       /\ pass.row.version = v =>
                            \/ pass.at = "run"
                            \/ /\ pass.at = "loaded" /\ pass.row.desired = "running"
                               /\ Settled(pass.row, pass.applied)

(* An engine that knows of the row's version has its configuration *)
Held ==
    up /\ row.desired = "running" /\ Known(row.version) =>
        grid = None \/ grid.config = row.config

(* An engine without a grid was booted from a row without state *)
Empty ==
    up /\ grid = None =>
       /\ row.state = None /\ wire = <<>>
       /\ Active => pass.row.state = None /\ pass.at # "run"

GridInv == TypeOK /\ Submitted /\ Underway /\ Ordered /\ Once /\ Held /\ Empty

(* The numbers the other lemmas compare. *)
LEMMA GridInvNumbers ==
  ASSUME GridInv
  PROVE  /\ row.version \in Nat /\ row.applied \in Nat /\ applied \in Nat /\ failures \in Nat
         /\ Active => pass.row.version \in Nat /\ pass.applied \in Nat
         /\ Active => pass.row.version \in Versions
<1>1. row \in Row /\ applied \in 0..MaxVersion /\ failures \in 0..MaxFailures
  BY DEF GridInv, TypeOK
<1>2. pass.applied \in 0..MaxVersion
  BY DEF GridInv, TypeOK
<1>3. Active => pass.row \in Row /\ 0 < pass.row.version
  BY DEF GridInv, Underway
<1> QED
  BY <1>1, <1>2, <1>3, GridAssumption DEF Row, Versions

LEMMA Upserted ==
  ASSUME TypeOK, NEW config \in Configs \cup {None}, NEW desired \in {"running", "stopped"}, Upsert(config, desired)
  PROVE  /\ row' \in Row
         /\ row'.version = row.version + 1 /\ row'.desired = desired /\ row'.config = config
         /\ row'.status = row.status /\ row'.applied = row.applied /\ row'.state = row.state
<1>1. row \in Row /\ row.version \in 0..MaxVersion /\ row.version < MaxVersion /\ MaxVersion \in Nat
  BY GridAssumption DEF TypeOK, Upsert, Row
<1>2. row' = [row EXCEPT !.version = row.version + 1, !.config = config, !.desired = desired]
  BY DEF Upsert
<1>3. row' = [version |-> row.version + 1, desired |-> desired, config |-> config,
              status |-> row.status, applied |-> row.applied, state |-> row.state]
  BY <1>1, <1>2 DEF Row
<1>4. row.version + 1 \in 0..MaxVersion
  BY <1>1
<1>5. row.status \in Statuses /\ row.applied \in 0..MaxVersion /\ row.state \in State \cup {None}
  BY <1>1 DEF Row
<1> QED
  BY <1>3, <1>4, <1>5 DEF Row

(* What the dashboard writes is a version nobody knows. *)
LEMMA UpsertKeeps ==
  ASSUME GridInv, NEW config \in Configs, NEW desired \in {"running", "stopped"},
         Upsert(config, desired), stopping' \in Configs \cup {None},
         UNCHANGED <<up, grid, applied, pass, wire, failures, troubles, crashes, builds>>
  PROVE  GridInv'
<1>0. TypeOK
  BY DEF GridInv
<1>2. /\ row' \in Row
      /\ row'.version = row.version + 1 /\ row'.desired = desired /\ row'.config = config
      /\ row'.status = row.status /\ row'.applied = row.applied /\ row'.state = row.state
  BY <1>0, Upserted
<1>4. /\ row.version \in Nat /\ row.applied \in Nat /\ applied \in Nat
      /\ Active => pass.row.version \in Nat /\ pass.applied \in Nat
  BY GridInvNumbers
<1>5. TypeOK'
  BY <1>0, <1>2 DEF TypeOK
<1>6. Submitted'
  BY <1>2, <1>4 DEF GridInv, Submitted, Active
<1>7. Underway'
  BY <1>2, <1>4 DEF GridInv, Underway, Active
<1>8. Ordered'
  BY <1>2, <1>4 DEF GridInv, Ordered
<1>9. Once'
  BY <1>2, <1>4 DEF GridInv, Once, Spent, Active, Versions
<1>10. Held'
  <2>1. /\ row'.version # row.applied /\ row'.version # applied
        /\ Active => row'.version # pass.applied /\ row'.version # pass.row.version
    BY <1>2, <1>4 DEF GridInv, Underway, Ordered
  <2> QED
    BY <1>2, <2>1 DEF Held, Known, Active
<1>11. Empty'
  BY <1>2, <1>4 DEF GridInv, Empty, Active
<1> QED
  BY <1>5, <1>6, <1>7, <1>8, <1>9, <1>10, <1>11 DEF GridInv

LEMMA SubmitKeeps ==
  ASSUME GridInv, NEW config \in Configs, Submit(config)
  PROVE  GridInv'
<1>1. Upsert(config, "running") /\ stopping' = stopping
  BY DEF Submit
<1>2. UNCHANGED <<up, grid, applied, pass, wire, failures, troubles, crashes, builds>>
  BY DEF Submit, runner, counters
<1> QED
  BY <1>1, <1>2, UpsertKeeps DEF GridInv, TypeOK

LEMMA StopWriteKeeps ==
  ASSUME GridInv, StopWrite
  PROVE  GridInv'
<1>1. Upsert(stopping, "stopped") /\ stopping' = None /\ stopping \in Configs
  BY DEF StopWrite, GridInv, TypeOK
<1>2. UNCHANGED <<up, grid, applied, pass, wire, failures, troubles, crashes, builds>>
  BY DEF StopWrite, runner, counters
<1> QED
  BY <1>1, <1>2, UpsertKeeps

LEMMA StopReadKeeps ==
  ASSUME GridInv, StopRead
  PROVE  GridInv'
<1>1. UNCHANGED <<row, up, grid, applied, pass, wire, failures, troubles, crashes, builds>>
  BY DEF StopRead, runner, counters
<1>2. stopping' \in Configs \cup {None}
  BY DEF StopRead, GridInv, Submitted
<1>3. TypeOK'
  BY <1>1, <1>2 DEF GridInv, TypeOK
<1>4. /\ Submitted' /\ Underway' /\ Ordered' /\ Once' /\ Held' /\ Empty'
  BY <1>1 DEF GridInv, Submitted, Underway, Ordered, Once, Held, Empty, Active, Known, Spent
<1> QED
  BY <1>3, <1>4 DEF GridInv

(* A stopped version that is taken into the map is none that is wanted. *)
LEMMA StoppedApplied ==
  ASSUME GridInv, Active, pass.at \in {"loaded", "stop"}, pass.row.desired = "stopped",
         pass' = NoPass, applied' = pass.row.version,
         UNCHANGED <<row, stopping, up, grid, wire, failures, troubles, crashes, builds>>
  PROVE  GridInv'
<1>1. ~Active' /\ NoPass.at = "idle" /\ NoPass.row = None /\ NoPass.applied = 0
  BY DEF Active, NoPass
<1>2. /\ pass.row \in Row /\ pass.row.version \in Nat /\ row.version \in Nat /\ applied \in Nat
      /\ applied <= pass.row.version /\ pass.row.version <= row.version /\ up
      /\ pass.row.version \in 0..MaxVersion
  BY GridInvNumbers DEF GridInv, Underway, Row
<1>3. TypeOK'
  BY <1>2, GridAssumption DEF GridInv, TypeOK, NoPass
<1>4. Submitted' /\ Empty' /\ Underway'
  BY <1>1 DEF GridInv, Submitted, Empty, Underway
<1>5. Ordered'
  BY <1>2 DEF GridInv, Ordered
<1>6. Once'
  BY <1>1, <1>2 DEF GridInv, Once, Spent, Versions
<1>7. Held'
  BY <1>1, <1>2 DEF GridInv, Held, Known, Underway
<1> QED
  BY <1>3, <1>4, <1>5, <1>6, <1>7 DEF GridInv

LEMMA LoadKeeps ==
  ASSUME GridInv, Load
  PROVE  GridInv'
<1>0. row \in Row /\ TypeOK /\ up /\ ~Active
  BY DEF GridInv, TypeOK, Load, Active
<1>1. UNCHANGED <<row, stopping, up, grid, applied, wire, failures, troubles, crashes, builds>>
  BY DEF Load, counters
<1>2. row.version \in Nat /\ row.applied \in Nat /\ applied \in Nat
  BY GridInvNumbers
<1>3. PICK n \in Nat : n = Larger(applied, row.applied)
  BY <1>2 DEF Larger
<1>4. /\ pass' = [at |-> "loaded", row |-> row, applied |-> n]
      /\ n \in {applied, row.applied} /\ applied <= n /\ row.applied <= n
  BY <1>2, <1>3 DEF Load, Larger
<1>5. /\ pass'.at = "loaded" /\ pass'.row = row /\ pass'.applied = n /\ Active'
      /\ n <= row.version
  BY <1>2, <1>4 DEF Active, GridInv, Ordered
<1>6. 0 < row.version
  BY <1>2 DEF Load, Runnable, GridInv, Submitted
<1>7. TypeOK'
  <2>1. n \in 0..MaxVersion
    BY <1>0, <1>4 DEF TypeOK, Row
  <2> QED
    BY <1>0, <1>1, <1>4, <2>1 DEF TypeOK
<1>8. Submitted'
  BY <1>1, <1>2, <1>5, <1>6 DEF GridInv, Submitted
<1>9. Underway'
  BY <1>0, <1>1, <1>2, <1>4, <1>5, <1>6 DEF GridInv, Underway, Submitted, Ordered
<1>10. Ordered'
  BY <1>1 DEF GridInv, Ordered
<1>11. Once'
  <2>1. ASSUME NEW v \in Versions, Spent(v)
        PROVE  /\ v <= row.version
               /\ row.version = v => /\ row.desired = "running" /\ v <= applied
                                    /\ row.status \in {"running", "halted"} /\ Settled(row, n)
    <3>1. v \in Nat
      BY DEF Versions
    <3> QED
      BY <1>0, <1>2, <1>4, <2>1, <3>1 DEF GridInv, Once, Settled, Active, Load
  <2>2. \A v \in Versions : builds[v] <= 1 + failures
    BY DEF GridInv, Once
  <2> QED
    BY <1>1, <1>5, <2>1, <2>2 DEF Once, Spent
<1>12. Held'
  BY <1>1, <1>4, <1>5 DEF GridInv, Held, Known
<1>13. Empty'
  BY <1>1, <1>5 DEF GridInv, Empty
<1> QED
  BY <1>7, <1>8, <1>9, <1>10, <1>11, <1>12, <1>13 DEF GridInv

(* A pass that ends forgets what it knew. *)
LEMMA PassEnds ==
  ASSUME GridInv, pass' = NoPass, UNCHANGED <<row, stopping, up, grid, applied, wire, failures, troubles, crashes, builds>>,
         pass.at # "run"
  PROVE  GridInv'
<1>1. ~Active' /\ NoPass.at = "idle" /\ NoPass.row = None /\ NoPass.applied = 0
  BY DEF Active, NoPass
<1>2. TypeOK'
  BY GridAssumption DEF GridInv, TypeOK, NoPass
<1>3. Submitted' /\ Ordered' /\ Empty' /\ Underway'
  BY <1>1 DEF GridInv, Submitted, Ordered, Empty, Underway
<1>4. Once'
  BY <1>1 DEF GridInv, Once, Spent, Versions
<1>5. Held'
  BY <1>1 DEF GridInv, Held, Known
<1> QED
  BY <1>2, <1>3, <1>4, <1>5 DEF GridInv

(* A pass that goes on in the same way keeps what is known of its row. *)
LEMMA PassGoes ==
  ASSUME GridInv, Active, NEW at \in {"loaded", "stop", "start", "configure", "fail"},
         Goes(at), pass.at # "run",
         UNCHANGED <<row, stopping, up, grid, applied, wire, failures, crashes, builds>>,
         troubles' \in 0..MaxTroubles,
         at = "stop" => pass.row.desired = "stopped",
         at \in {"start", "configure"} => pass.row.desired = "running",
         \A v \in Versions : Spent(v) => pass.row.version # v
  PROVE  GridInv'
<1>1. pass' = [pass EXCEPT !.at = at] /\ pass \in [at : {"idle", "loaded", "stop", "start", "configure", "run", "fail"},
                 row : Row \cup {None}, applied : 0..MaxVersion]
  BY DEF Goes, GridInv, TypeOK
<1>2. /\ pass' = [at |-> at, row |-> pass.row, applied |-> pass.applied]
      /\ pass'.at = at /\ pass'.row = pass.row /\ pass'.applied = pass.applied /\ Active'
  BY <1>1 DEF Active
<1>3. TypeOK'
  BY <1>1, <1>2 DEF GridInv, TypeOK
<1>4. Submitted' /\ Ordered'
  BY <1>2 DEF GridInv, Submitted, Ordered
<1>5. Underway'
  BY <1>2 DEF GridInv, Underway
<1>6. Once'
  BY <1>2 DEF GridInv, Once, Spent
<1>7. Held'
  BY <1>2 DEF GridInv, Held, Known
<1>8. Empty'
  BY <1>2 DEF GridInv, Empty
<1> QED
  BY <1>3, <1>4, <1>5, <1>6, <1>7, <1>8 DEF GridInv

LEMMA ReconcileKeeps ==
  ASSUME GridInv, Reconcile
  PROVE  GridInv'
<1>0. pass.at = "loaded" /\ Active /\ pass.row \in Row
  BY DEF Reconcile, Active, GridInv, Underway
<1>1. UNCHANGED <<row, stopping, up, grid, wire, failures, troubles, crashes, builds>>
  BY DEF Reconcile, counters
<1>2. troubles \in 0..MaxTroubles /\ pass.row.version \in Nat
  BY <1>0, GridInvNumbers DEF GridInv, TypeOK
<1>3. \A v \in Versions : Spent(v) /\ pass.row.version = v => pass.row.desired = "running" /\ Settled(pass.row, pass.applied)
  BY <1>0 DEF GridInv, Once
<1>4. CASE pass.row.desired = "stopped" /\ Goes("stop") /\ applied' = applied
  <2>1. \A v \in Versions : Spent(v) => pass.row.version # v
    BY <1>3, <1>4
  <2> QED
    BY <1>0, <1>1, <1>2, <1>4, <2>1, PassGoes
<1>5. CASE pass.row.desired = "running" /\ ~Settled(pass.row, pass.applied) /\ Goes("start") /\ applied' = applied
  <2>1. \A v \in Versions : Spent(v) => pass.row.version # v
    BY <1>3, <1>5
  <2> QED
    BY <1>0, <1>1, <1>2, <1>5, <2>1, PassGoes
<1>6. CASE pass.row.desired = "running" /\ Settled(pass.row, pass.applied) /\ Ends /\ applied' = applied
  BY <1>0, <1>1, <1>6, PassEnds DEF Ends
<1>7. CASE pass.row.desired = "stopped" /\ Ends /\ applied' = pass.row.version
  BY <1>0, <1>1, <1>7, StoppedApplied DEF Ends
<1> QED
  BY <1>4, <1>5, <1>6, <1>7 DEF Reconcile

LEMMA NoUsableMarkKeeps ==
  ASSUME GridInv, NoUsableMark
  PROVE  GridInv'
<1>1. /\ pass.at = "configure" /\ Active /\ Goes("fail")
      /\ UNCHANGED <<row, stopping, up, grid, applied, wire, failures, crashes, builds>>
  BY DEF NoUsableMark, Active
<1>2. troubles' \in 0..MaxTroubles
  BY GridAssumption DEF NoUsableMark, GridInv, TypeOK
<1>3. \A v \in Versions : Spent(v) => pass.row.version # v
  BY <1>1 DEF GridInv, Once
<1> QED
  BY <1>1, <1>2, <1>3, PassGoes

(* The engine takes over the configuration of the pass; only now is the
   version spent. *)
LEMMA ConfigureKeeps ==
  ASSUME GridInv, ConfigureGrid
  PROVE  GridInv'
<1>0. pass.at = "configure" /\ Active
  BY DEF ConfigureGrid, Active
<1>1. UNCHANGED <<row, stopping, up, failures, troubles, crashes>>
  BY DEF ConfigureGrid, counters
<1>2. /\ pass.row \in Row /\ pass.row.config \in Configs /\ pass.row.config.orders \in Nat
      /\ pass.row.version \in Versions /\ pass.row.version \in 0..MaxVersion
      /\ pass.row.version \in Nat /\ row.version \in Nat /\ applied \in Nat /\ failures \in Nat
      /\ pass.row.desired = "running"
  BY <1>0, GridInvNumbers, GridAssumption DEF GridInv, Underway, Row
<1>3. pass' = [pass EXCEPT !.at = "run"] /\ pass \in [at : {"idle", "loaded", "stop", "start", "configure", "run", "fail"},
                 row : Row \cup {None}, applied : 0..MaxVersion]
  BY DEF ConfigureGrid, Goes, GridInv, TypeOK
<1>4. /\ pass' = [at |-> "run", row |-> pass.row, applied |-> pass.applied]
      /\ pass'.at = "run" /\ pass'.row = pass.row /\ pass'.applied = pass.applied /\ Active'
  BY <1>3 DEF Active
<1>5. /\ grid' = [config |-> pass.row.config, orders |-> pass.row.config.orders, halted |-> FALSE]
      /\ grid'.orders = pass.row.config.orders /\ grid'.halted = FALSE /\ grid'.config = pass.row.config
      /\ wire' = Append(wire, [orders |-> pass.row.config.orders, halted |-> FALSE])
  BY DEF ConfigureGrid, Save
<1>6. grid' # None /\ grid' \in [config : Configs, orders : Nat, halted : BOOLEAN]
  <2>1. grid' \in [config : Configs, orders : Nat, halted : BOOLEAN]
    BY <1>2, <1>5
  <2>2. None \notin [config : Configs, orders : Nat, halted : BOOLEAN]
    BY GridAssumption
  <2> QED
    BY <2>1, <2>2
<1>7. /\ applied' = pass.row.version
      /\ builds' = [builds EXCEPT ![pass.row.version] = @ + 1] /\ builds \in [Versions -> Nat]
  BY DEF ConfigureGrid, GridInv, TypeOK
<1>8. TypeOK'
  <2>1. wire' \in Seq(State)
    <3>1. [orders |-> pass.row.config.orders, halted |-> FALSE] \in State
      BY <1>2 DEF State
    <3>2. wire \in Seq(State)
      BY DEF GridInv, TypeOK
    <3> QED
      BY <1>5, <3>1, <3>2
  <2>2. builds' \in [Versions -> Nat]
    BY <1>2, <1>7
  <2>3. pass' \in [at : {"idle", "loaded", "stop", "start", "configure", "run", "fail"},
                 row : Row \cup {None}, applied : 0..MaxVersion]
    BY <1>3, <1>4
  <2> QED
    BY <1>1, <1>2, <1>6, <1>7, <2>1, <2>2, <2>3 DEF GridInv, TypeOK
<1>9. Submitted'
  <2>1. row.version # 0
    BY <1>0, <1>2 DEF GridInv, Underway
  <2> QED
    BY <1>1, <2>1 DEF GridInv, Submitted
<1>10. Underway'
  BY <1>0, <1>1, <1>2, <1>4, <1>7 DEF GridInv, Underway
<1>11. Ordered'
  BY <1>0, <1>1, <1>2, <1>7 DEF GridInv, Ordered, Underway
<1>12. Once'
  <2> SUFFICES ASSUME NEW v \in Versions
               PROVE  /\ builds'[v] <= 1 + failures
                      /\ builds'[v] = 1 + failures =>
                         /\ v <= row.version
                         /\ row.version = v => row.desired = "running" /\ v <= pass.row.version
                         /\ v <= pass.row.version
    BY <1>1, <1>4, <1>7 DEF Once, Spent
  <2>0. builds[v] \in Nat /\ v \in Nat
    BY <1>7 DEF Versions
  <2>1. CASE v = pass.row.version
    <3>1. builds[v] # 1 + failures /\ builds[v] <= 1 + failures
      BY <1>0, <2>1 DEF GridInv, Once, Spent
    <3>2. builds'[v] = builds[v] + 1
      BY <1>7, <2>1
    <3>3. v <= row.version /\ (row.version = v => row.desired = "running")
      BY <1>0, <1>2, <2>1 DEF GridInv, Underway
    <3> QED
      BY <1>2, <2>0, <2>1, <3>1, <3>2, <3>3
  <2>2. CASE v # pass.row.version
    <3>1. builds'[v] = builds[v]
      BY <1>7, <2>2
    <3> QED
      BY <1>0, <1>2, <2>0, <3>1 DEF GridInv, Once, Spent
  <2> QED
    BY <2>1, <2>2
<1>13. Held'
  <2>1. row.version # pass.row.version =>
          row.applied # row.version /\ pass.row.version # row.version /\ pass.applied # row.version
    BY <1>0, <1>2, GridInvNumbers DEF GridInv, Underway
  <2>2. row.version = pass.row.version => grid'.config = row.config
    BY <1>0, <1>5 DEF GridInv, Underway
  <2> QED
    BY <1>1, <1>4, <1>7, <2>1, <2>2 DEF Held, Known
<1>14. Empty'
  BY <1>6 DEF Empty
<1> QED
  BY <1>8, <1>9, <1>10, <1>11, <1>12, <1>13, <1>14 DEF GridInv

(* What a write of the coordinator leaves in the row. *)
LEMMA Persisted ==
  ASSUME TypeOK, NEW status \in Statuses, NEW state \in State \cup {None}, NEW version \in 0..MaxVersion,
         NEW stored \in BOOLEAN, NEW answered \in BOOLEAN, Persist(status, state, version, stored, answered)
  PROVE  /\ row' \in Row /\ failures' \in 0..MaxFailures
         /\ row'.version = row.version /\ row'.desired = row.desired /\ row'.config = row.config
         /\ stored => row'.status = status /\ row'.state = state /\ row'.applied = version
         /\ ~stored => row' = row
         /\ answered => stored /\ failures' = failures
         /\ ~answered => failures' = failures + 1
<1>1. row \in Row /\ failures \in 0..MaxFailures /\ MaxFailures \in Nat
  BY GridAssumption DEF TypeOK
<1>2. failures' \in 0..MaxFailures /\ (answered => stored /\ failures' = failures)
        /\ (~answered => failures' = failures + 1)
  BY <1>1 DEF Persist
<1>3. CASE stored
  <2>1. row' = [row EXCEPT !.status = status, !.state = state, !.applied = version]
    BY <1>3 DEF Persist
  <2>2. row' = [version |-> row.version, desired |-> row.desired, config |-> row.config,
                status |-> status, applied |-> version, state |-> state]
    BY <1>1, <2>1 DEF Row
  <2>3. /\ row.version \in 0..MaxVersion /\ row.desired \in {"stopped", "running"}
        /\ row.config \in Configs \cup {None}
    BY <1>1 DEF Row
  <2>4. row' \in Row
    BY <2>2, <2>3 DEF Row
  <2> QED
    BY <1>2, <1>3, <2>2, <2>4
<1>4. CASE ~stored
  BY <1>1, <1>2, <1>4 DEF Persist
<1> QED
  BY <1>3, <1>4

(* A write that fails is itself the licence for one more configuration. *)
LEMMA FailureLicenses ==
  ASSUME GridInv, failures' = failures + 1, builds' = builds
  PROVE  Once'
<1>1. failures \in Nat /\ builds \in [Versions -> Nat]
  BY GridInvNumbers DEF GridInv, TypeOK
<1>2. \A v \in Versions : builds[v] \in Nat /\ builds[v] <= 1 + failures
  BY <1>1 DEF GridInv, Once
<1>3. \A v \in Versions : builds'[v] <= failures' /\ builds'[v] \in Nat /\ failures' \in Nat
  BY <1>1, <1>2
<1> QED
  BY <1>3 DEF Once, Spent

LEMMA PersistStoppedKeeps ==
  ASSUME GridInv, NEW stored \in BOOLEAN, NEW answered \in BOOLEAN, PersistStopped(stored, answered)
  PROVE  GridInv'
<1> DEFINE p == pass.row
<1>0. /\ pass.at = "stop" /\ Active /\ pass' = NoPass /\ ~Active' /\ NoPass.at = "idle"
      /\ UNCHANGED <<stopping, up, grid, wire, troubles, crashes, builds>>
      /\ applied' = IF answered THEN p.version ELSE applied
  BY DEF PersistStopped, Ends, Active, NoPass
<1>1. /\ p \in Row /\ p.desired = "stopped" /\ 0 < p.version /\ p.version <= row.version
      /\ p.version \in Nat /\ p.version \in 0..MaxVersion /\ row.version \in Nat /\ applied \in Nat
      /\ row.applied \in Nat /\ applied <= p.version /\ p.state \in State \cup {None} /\ up
      /\ (p.version = row.version => row.desired = "stopped")
  BY <1>0, GridInvNumbers DEF GridInv, Underway, Row
<1>2. /\ row' \in Row /\ failures' \in 0..MaxFailures
      /\ row'.version = row.version /\ row'.desired = row.desired /\ row'.config = row.config
      /\ stored => row'.status = "idle" /\ row'.state = p.state /\ row'.applied = p.version
      /\ ~stored => row' = row
      /\ answered => stored /\ failures' = failures
      /\ ~answered => failures' = failures + 1
  <2>1. TypeOK /\ "idle" \in Statuses
    BY DEF GridInv, Statuses
  <2> QED
    BY <1>1, <2>1, Persisted DEF PersistStopped
<1>3. TypeOK'
  BY <1>0, <1>1, <1>2, GridAssumption DEF GridInv, TypeOK, NoPass
<1>4. Submitted' /\ Underway'
  BY <1>0, <1>1, <1>2 DEF GridInv, Submitted, Underway
<1>5. Ordered'
  BY <1>0, <1>1, <1>2 DEF GridInv, Ordered
<1>6. Once'
  <2>1. CASE ~answered
    BY <1>0, <1>2, <2>1, FailureLicenses
  <2>2. CASE answered
    BY <1>0, <1>1, <1>2, <2>2 DEF GridInv, Once, Spent, Versions
  <2> QED
    BY <2>1, <2>2
<1>7. Held'
  BY <1>0, <1>1, <1>2 DEF GridInv, Held, Known
<1>8. Empty'
  BY <1>0, <1>2 DEF GridInv, Empty
<1> QED
  BY <1>3, <1>4, <1>5, <1>6, <1>7, <1>8 DEF GridInv

LEMMA PersistStartingKeeps ==
  ASSUME GridInv, NEW stored \in BOOLEAN, NEW answered \in BOOLEAN, PersistStarting(stored, answered)
  PROVE  GridInv'
<1> DEFINE p == pass.row
           at == IF answered THEN "configure" ELSE "fail"
<1>0. /\ pass.at = "start" /\ Active /\ UNCHANGED <<stopping, up, grid, applied, wire, troubles, crashes, builds>>
  BY DEF PersistStarting, Active
<1>1. /\ p \in Row /\ p.desired = "running" /\ 0 < p.version /\ p.version <= row.version
      /\ p.version \in Nat /\ row.version \in Nat /\ applied \in Nat /\ pass.applied \in Nat
      /\ pass.applied \in 0..MaxVersion /\ pass.applied <= p.version
      /\ applied <= p.version /\ p.state \in State \cup {None} /\ up
  BY <1>0, GridInvNumbers DEF GridInv, Underway, Row, TypeOK
<1>2. /\ row' \in Row /\ failures' \in 0..MaxFailures
      /\ row'.version = row.version /\ row'.desired = row.desired /\ row'.config = row.config
      /\ stored => row'.status = "starting" /\ row'.state = p.state /\ row'.applied = pass.applied
      /\ ~stored => row' = row
      /\ answered => stored /\ failures' = failures
      /\ ~answered => failures' = failures + 1
  <2>1. TypeOK /\ "starting" \in Statuses
    BY DEF GridInv, Statuses
  <2> QED
    BY <1>1, <2>1, Persisted DEF PersistStarting
<1>3. pass' = [at |-> at, row |-> p, applied |-> pass.applied]
  <2>1. pass' = [pass EXCEPT !.at = at] /\ pass \in [at : {"idle", "loaded", "stop", "start", "configure", "run", "fail"},
                 row : Row \cup {None}, applied : 0..MaxVersion]
    BY DEF PersistStarting, Goes, GridInv, TypeOK
  <2> QED
    BY <2>1
<1>4. pass'.at = at /\ pass'.row = p /\ pass'.applied = pass.applied /\ Active'
  BY <1>3 DEF Active
<1> HIDE DEF p
<1>5. TypeOK'
  <2>1. at \in {"idle", "loaded", "stop", "start", "configure", "run", "fail"}
    OBVIOUS
  <2> QED
    BY <1>0, <1>1, <1>2, <1>3, <2>1 DEF GridInv, TypeOK
<1>6. Submitted'
  BY <1>0, <1>1, <1>2, <1>4 DEF GridInv, Submitted
<1>7. Underway'
  <2>1. /\ p.config \in Configs /\ row.applied <= p.version
        /\ p.version = row.version => p.desired = row.desired /\ p.config = row.config
    BY <1>0 DEF GridInv, Underway, p
  <2>2. row'.applied <= p.version
    BY <1>1, <1>2, <2>1
  <2> QED
    BY <1>0, <1>1, <1>2, <1>4, <2>1, <2>2 DEF Underway
<1>8. Ordered'
  BY <1>0, <1>1, <1>2 DEF GridInv, Ordered
<1>9. Once'
  <2>1. CASE ~answered
    BY <1>0, <1>2, <2>1, FailureLicenses
  <2>2. CASE answered
    <3>1. \A v \in Versions : Spent(v) => v <= p.version /\ v # p.version /\ v # row.version /\ v <= row.version
      BY <1>0, <1>1 DEF GridInv, Once, Versions, p
    <3>2. \A v \in Versions : builds[v] <= 1 + failures
      BY DEF GridInv, Once
    <3> QED
      BY <1>0, <1>2, <1>4, <2>2, <3>1, <3>2 DEF Once, Spent
  <2> QED
    BY <2>1, <2>2
<1>10. Held'
  <2>1. \A v : Known(v)' => Known(v)
    BY <1>0, <1>2, <1>4 DEF Known, p
  <2> QED
    BY <1>0, <1>2, <2>1 DEF GridInv, Held
<1>11. Empty'
  BY <1>0, <1>2, <1>4 DEF GridInv, Empty, p
<1> QED
  BY <1>5, <1>6, <1>7, <1>8, <1>9, <1>10, <1>11 DEF GridInv

LEMMA PersistErrorKeeps ==
  ASSUME GridInv, NEW stored \in BOOLEAN, NEW answered \in BOOLEAN, PersistError(stored, answered)
  PROVE  GridInv'
<1> DEFINE p == pass.row
<1>0. /\ pass.at = "fail" /\ Active /\ pass' = NoPass /\ ~Active' /\ NoPass.at = "idle"
      /\ UNCHANGED <<stopping, up, grid, applied, wire, troubles, crashes, builds>>
  BY DEF PersistError, Ends, Active, NoPass
<1>1. /\ p \in Row /\ 0 < p.version /\ p.version <= row.version
      /\ p.version \in Nat /\ row.version \in Nat /\ pass.applied \in Nat
      /\ pass.applied \in 0..MaxVersion /\ pass.applied <= p.version
      /\ p.state \in State \cup {None} /\ up
  BY <1>0, GridInvNumbers DEF GridInv, Underway, Row, TypeOK
<1>2. /\ row' \in Row /\ failures' \in 0..MaxFailures
      /\ row'.version = row.version /\ row'.desired = row.desired /\ row'.config = row.config
      /\ stored => row'.status = "error" /\ row'.state = p.state /\ row'.applied = pass.applied
      /\ ~stored => row' = row
      /\ answered => stored /\ failures' = failures
      /\ ~answered => failures' = failures + 1
  <2>1. TypeOK /\ "error" \in Statuses
    BY DEF GridInv, Statuses
  <2> QED
    BY <1>1, <2>1, Persisted DEF PersistError
<1>3. TypeOK'
  BY <1>0, <1>1, <1>2, GridAssumption DEF GridInv, TypeOK, NoPass
<1>4. Submitted' /\ Underway'
  BY <1>0, <1>1, <1>2 DEF GridInv, Submitted, Underway
<1>5. Ordered'
  BY <1>0, <1>1, <1>2 DEF GridInv, Ordered
<1>6. Once'
  <2>1. CASE ~answered
    BY <1>0, <1>2, <2>1, FailureLicenses
  <2>2. CASE answered
    <3>1. \A v \in Versions : Spent(v) => v # row.version /\ v <= row.version
      BY <1>0, <1>1 DEF GridInv, Once, Versions
    <3>2. \A v \in Versions : builds[v] <= 1 + failures
      BY DEF GridInv, Once
    <3> QED
      BY <1>0, <1>2, <2>2, <3>1, <3>2 DEF Once, Spent
  <2> QED
    BY <2>1, <2>2
<1>7. Held'
  <2>1. \A v : Known(v)' => Known(v)
    BY <1>0, <1>2 DEF Known
  <2> QED
    BY <1>0, <1>2, <2>1 DEF GridInv, Held
<1>8. Empty'
  BY <1>0, <1>2 DEF GridInv, Empty
<1> QED
  BY <1>3, <1>4, <1>5, <1>6, <1>7, <1>8 DEF GridInv

LEMMA PersistRunningKeeps ==
  ASSUME GridInv, NEW stored \in BOOLEAN, NEW answered \in BOOLEAN, PersistRunning(stored, answered)
  PROVE  GridInv'
<1> DEFINE p == pass.row
           state == [orders |-> p.config.orders, halted |-> FALSE]
<1>0. /\ pass.at = "run" /\ Active /\ UNCHANGED <<stopping, up, grid, applied, wire, troubles, crashes, builds>>
  BY DEF PersistRunning, Active
<1>1. /\ p \in Row /\ p.desired = "running" /\ 0 < p.version /\ p.version <= row.version
      /\ p.version \in Nat /\ row.version \in Nat /\ applied \in Nat /\ p.version \in 0..MaxVersion
      /\ p.config \in Configs /\ up
  BY <1>0, GridInvNumbers DEF GridInv, Underway, Row, TypeOK
<1>s. state \in State /\ state # None
  <2>1. p.config.orders \in Nat
    BY <1>1, GridAssumption
  <2>2. state \in [orders : Nat, halted : BOOLEAN]
    BY <2>1
  <2>3. None \notin [orders : Nat, halted : BOOLEAN]
    BY GridAssumption
  <2> QED
    BY <2>2, <2>3 DEF State
<1>2. /\ row' \in Row /\ failures' \in 0..MaxFailures
      /\ row'.version = row.version /\ row'.desired = row.desired /\ row'.config = row.config
      /\ stored => row'.status = "running" /\ row'.state = state /\ row'.applied = p.version
      /\ ~stored => row' = row
      /\ answered => stored /\ failures' = failures
      /\ ~answered => failures' = failures + 1
  <2>1. TypeOK /\ "running" \in Statuses
    BY DEF GridInv, Statuses
  <2>2. Persist("running", state, p.version, stored, answered)
    BY DEF PersistRunning, AppliedVersion
  <2> QED
    BY <1>1, <1>s, <2>1, <2>2, Persisted
<1>3. \/ answered /\ pass' = NoPass /\ ~Active' /\ NoPass.at = "idle"
      \/ ~answered /\ pass' = [at |-> "fail", row |-> p, applied |-> pass.applied]
                   /\ Active' /\ pass'.at = "fail" /\ pass'.row = p /\ pass'.applied = pass.applied
  <2>1. pass \in [at : {"idle", "loaded", "stop", "start", "configure", "run", "fail"},
                 row : Row \cup {None}, applied : 0..MaxVersion]
    BY DEF GridInv, TypeOK
  <2>2. CASE answered
    BY <2>2 DEF PersistRunning, Ends, NoPass, Active
  <2>3. CASE ~answered
    <3>1. pass' = [pass EXCEPT !.at = "fail"]
      BY <2>3 DEF PersistRunning, Goes
    <3> QED
      BY <2>1, <2>3, <3>1 DEF Active
  <2> QED
    BY <2>2, <2>3
<1> HIDE DEF p, state
<1>5. TypeOK'
  <2>1. pass' \in [at : {"idle", "loaded", "stop", "start", "configure", "run", "fail"},
                 row : Row \cup {None}, applied : 0..MaxVersion]
    BY <1>1, <1>3, GridAssumption DEF GridInv, TypeOK, NoPass
  <2> QED
    BY <1>0, <1>2, <2>1 DEF GridInv, TypeOK
<1>6. Submitted'
  BY <1>0, <1>1, <1>s, <1>2, <1>3 DEF GridInv, Submitted
<1>7. Underway'
  <2>1. /\ row.applied <= p.version /\ applied <= p.version /\ pass.applied <= p.version
        /\ p.version = row.version => p.desired = row.desired /\ p.config = row.config
    BY <1>0 DEF GridInv, Underway, p
  <2>2. row'.applied <= p.version
    BY <1>1, <1>2, <2>1
  <2> QED
    BY <1>0, <1>1, <1>2, <1>3, <2>1, <2>2 DEF Underway
<1>8. Ordered'
  BY <1>0, <1>1, <1>2 DEF GridInv, Ordered
<1>9. Once'
  <2>1. CASE ~answered
    BY <1>0, <1>2, <2>1, FailureLicenses
  <2>2. CASE answered
    BY <1>0, <1>2, <1>3, <2>2 DEF GridInv, Once, Spent
  <2> QED
    BY <2>1, <2>2
<1>10. Held'
  <2>1. \A v : Known(v)' => Known(v)
    BY <1>0, <1>2, <1>3 DEF Known, p
  <2> QED
    BY <1>0, <1>2, <2>1 DEF GridInv, Held
<1>11. Empty'
  <2>1. grid # None
    BY <1>0, <1>1 DEF GridInv, Empty
  <2> QED
    BY <1>0, <2>1 DEF Empty
<1> QED
  BY <1>5, <1>6, <1>7, <1>8, <1>9, <1>10, <1>11 DEF GridInv

-----------------------------------------------------------------------------
(* The engine and the death of its process *)

LEMMA MarkKeeps ==
  ASSUME GridInv, Mark
  PROVE  GridInv'
<1> DEFINE g == [grid EXCEPT !.halted = Breached(grid)]
           Grids == [config : Configs, orders : Nat, halted : BOOLEAN]
<1>1. /\ grid' = g /\ wire' = Append(wire, [orders |-> grid'.orders, halted |-> grid'.halted]) /\ grid # None
      /\ UNCHANGED <<row, stopping, up, applied, pass, failures, troubles, crashes, builds>>
  BY DEF Mark, Save, counters
<1>2. grid \in Grids /\ Breached(grid) \in BOOLEAN
  BY <1>1 DEF GridInv, TypeOK, Breached
<1>3. grid' \in Grids /\ grid'.config = grid.config /\ grid'.orders \in Nat /\ grid'.halted \in BOOLEAN
  BY <1>1, <1>2
<1>4. grid' # None
  BY <1>3, GridAssumption
<1>5. TypeOK'
  <2>1. [orders |-> grid'.orders, halted |-> grid'.halted] \in State
    BY <1>3 DEF State
  <2>2. wire' \in Seq(State)
    BY <1>1, <2>1 DEF GridInv, TypeOK
  <2> QED
    BY <1>1, <1>3, <2>2 DEF GridInv, TypeOK
<1>6. Submitted'
  BY <1>1 DEF GridInv, Submitted, Active
<1>7. Underway' /\ Ordered' /\ Once'
  BY <1>1 DEF GridInv, Underway, Ordered, Once, Spent, Active
<1>8. Held'
  BY <1>1, <1>3 DEF GridInv, Held, Known, Active
<1>9. Empty'
  BY <1>4 DEF Empty
<1> QED
  BY <1>5, <1>6, <1>7, <1>8, <1>9 DEF GridInv

LEMMA Removed ==
  ASSUME NEW S, NEW s \in Seq(S), NEW i \in DOMAIN s
  PROVE  RemoveAt(s, i) \in Seq(S) /\ s[i] \in S /\ s # <<>>
<1>1. i \in 1..Len(s) /\ Len(s) \in Nat
  OBVIOUS
<1>2. SubSeq(s, 1, i - 1) \in Seq(S)
  BY <1>1
<1>3. SubSeq(s, i + 1, Len(s)) \in Seq(S)
  BY <1>1
<1> QED
  BY <1>1, <1>2, <1>3 DEF RemoveAt

LEMMA LandKeeps ==
  ASSUME GridInv, NEW i \in DOMAIN wire, Land(i)
  PROVE  GridInv'
<1>1. /\ UNCHANGED <<stopping, up, grid, applied, pass, failures, troubles, crashes, builds>>
      /\ wire' = RemoveAt(wire, i)
  BY DEF Land, runner, counters
<1>2. wire \in Seq(State) /\ row \in Row
  BY DEF GridInv, TypeOK
<1>3. wire' \in Seq(State) /\ wire[i] \in State /\ wire # <<>>
  BY <1>1, <1>2, Removed
<1>4. wire[i] # None /\ wire[i].halted \in BOOLEAN
  BY <1>3, GridAssumption DEF State
<1> DEFINE status == IF wire[i].halted THEN "halted" ELSE row.status
<1>5. row' = [row EXCEPT !.state = wire[i], !.status = status]
  BY DEF Land
<1>6. row' = [version |-> row.version, desired |-> row.desired, config |-> row.config,
              status |-> status, applied |-> row.applied, state |-> wire[i]]
  BY <1>2, <1>5 DEF Row
<1>7. /\ row.version \in 0..MaxVersion /\ row.desired \in {"stopped", "running"}
      /\ row.config \in Configs \cup {None} /\ row.applied \in 0..MaxVersion /\ status \in Statuses
  BY <1>2 DEF Row, Statuses
<1>8. /\ row' \in Row
      /\ row'.version = row.version /\ row'.desired = row.desired /\ row'.config = row.config
      /\ row'.applied = row.applied /\ row'.state # None
      /\ row'.status \in {"halted", row.status}
  <2>1. row' \in Row
    BY <1>3, <1>6, <1>7 DEF Row
  <2> QED
    BY <1>4, <1>6, <2>1
<1>9. TypeOK'
  BY <1>1, <1>3, <1>8 DEF GridInv, TypeOK
<1>10. Submitted'
  BY <1>1, <1>3, <1>8 DEF GridInv, Submitted, Active
<1>11. Underway' /\ Ordered' /\ Once'
  BY <1>1, <1>8 DEF GridInv, Underway, Ordered, Once, Spent, Active
<1>12. Held'
  BY <1>1, <1>8 DEF GridInv, Held, Known, Active
<1>13. Empty'
  BY <1>1, <1>3 DEF GridInv, Empty
<1> QED
  BY <1>9, <1>10, <1>11, <1>12, <1>13 DEF GridInv

LEMMA DropKeeps ==
  ASSUME GridInv, NEW i \in DOMAIN wire, Drop(i)
  PROVE  GridInv'
<1>1. /\ UNCHANGED <<row, stopping, up, grid, applied, pass, failures, troubles, crashes, builds>>
      /\ wire' = RemoveAt(wire, i) /\ ~up
  BY DEF Drop, runner, counters
<1>2. wire \in Seq(State)
  BY DEF GridInv, TypeOK
<1>3. wire' \in Seq(State) /\ wire # <<>>
  BY <1>1, <1>2, Removed
<1>4. TypeOK'
  BY <1>1, <1>3 DEF GridInv, TypeOK
<1>5. Submitted'
  BY <1>1, <1>3 DEF GridInv, Submitted, Active
<1>6. Underway' /\ Ordered' /\ Once' /\ Held' /\ Empty'
  BY <1>1 DEF GridInv, Underway, Ordered, Once, Spent, Active, Held, Empty
<1> QED
  BY <1>4, <1>5, <1>6 DEF GridInv

LEMMA CrashKeeps ==
  ASSUME GridInv, Crash
  PROVE  GridInv'
<1>1. /\ ~up' /\ grid' = None /\ applied' = 0 /\ pass' = NoPass /\ builds' = NoBuilds
      /\ UNCHANGED <<row, stopping, wire, failures, troubles>> /\ crashes' \in 0..MaxCrashes
      /\ up' = FALSE
  BY GridAssumption DEF Crash, GridInv, TypeOK
<1>2. ~Active' /\ row.version \in Nat /\ failures \in Nat
  BY <1>1, GridInvNumbers DEF Active, NoPass
<1>3. TypeOK'
  <2>1. 0 \in 0..MaxVersion
    BY GridAssumption
  <2>2. pass' \in [at : {"idle", "loaded", "stop", "start", "configure", "run", "fail"},
                 row : Row \cup {None}, applied : 0..MaxVersion]
    BY <1>1, <2>1 DEF NoPass
  <2>3. builds' \in [Versions -> Nat]
    BY <1>1 DEF NoBuilds
  <2> QED
    BY <1>1, <2>1, <2>2, <2>3 DEF GridInv, TypeOK
<1>4. Submitted' /\ Underway' /\ Held' /\ Empty'
  BY <1>1, <1>2 DEF GridInv, Submitted, Underway, Held, Empty
<1>5. Ordered' /\ Once'
  BY <1>1, <1>2 DEF GridInv, Ordered, Once, Spent, NoBuilds
<1> QED
  BY <1>3, <1>4, <1>5 DEF GridInv

LEMMA BootKeeps ==
  ASSUME GridInv, Boot
  PROVE  GridInv'
<1>1. /\ up' = TRUE /\ ~up /\ wire = <<>>
      /\ UNCHANGED <<row, stopping, applied, pass, wire, failures, troubles, crashes, builds>>
      /\ grid' = IF row.state = None THEN None
                 ELSE [config |-> row.config, orders |-> row.state.orders, halted |-> row.state.halted]
  BY DEF Boot, counters
<1>2. ~Active /\ ~Active'
  BY <1>1 DEF GridInv, Underway, Active
<1>3. row.state = None => grid' = None
  BY <1>1
<1>4. row.state # None =>
         /\ grid' # None /\ grid' \in [config : Configs, orders : Nat, halted : BOOLEAN]
         /\ grid'.config = row.config /\ row.version # 0
  <2> SUFFICES ASSUME row.state # None
               PROVE  /\ grid' # None /\ grid' \in [config : Configs, orders : Nat, halted : BOOLEAN]
                      /\ grid'.config = row.config /\ row.version # 0
    OBVIOUS
  <2>1. row \in Row /\ row.version \in Nat
    BY GridInvNumbers DEF GridInv, TypeOK
  <2>2. row.state \in State /\ row.version # 0 /\ row.config \in Configs
    BY <2>1 DEF GridInv, Submitted, Row
  <2>3. row.state.orders \in Nat /\ row.state.halted \in BOOLEAN
    BY <2>2 DEF State
  <2>4. grid' = [config |-> row.config, orders |-> row.state.orders, halted |-> row.state.halted]
    BY <1>1
  <2>5. grid' \in [config : Configs, orders : Nat, halted : BOOLEAN] /\ grid'.config = row.config
    BY <2>2, <2>3, <2>4
  <2>6. None \notin [config : Configs, orders : Nat, halted : BOOLEAN]
    BY GridAssumption
  <2> QED
    BY <2>2, <2>5, <2>6
<1>5. TypeOK'
  BY <1>1, <1>3, <1>4 DEF GridInv, TypeOK
<1>6. Submitted'
  BY <1>1, <1>2, <1>3, <1>4 DEF GridInv, Submitted
<1>7. Underway' /\ Ordered' /\ Once'
  BY <1>1, <1>2 DEF GridInv, Underway, Ordered, Once, Spent
<1>8. Held'
  BY <1>1, <1>3, <1>4 DEF Held
<1>9. Empty'
  BY <1>1, <1>2, <1>3, <1>4 DEF Empty
<1> QED
  BY <1>5, <1>6, <1>7, <1>8, <1>9 DEF GridInv

-----------------------------------------------------------------------------

LEMMA GridInit == Init => GridInv
<1> SUFFICES ASSUME Init PROVE GridInv
  OBVIOUS
<1>1. TypeOK
  <2>1. row \in Row
    BY GridAssumption DEF Init, Row, Statuses
  <2>2. pass \in [at : {"idle", "loaded", "stop", "start", "configure", "run", "fail"},
                 row : Row \cup {None}, applied : 0..MaxVersion]
    BY GridAssumption DEF Init, NoPass
  <2>3. builds \in [Versions -> Nat]
    BY DEF Init, NoBuilds
  <2> QED
    BY <2>1, <2>2, <2>3, GridAssumption DEF Init, TypeOK
<1>2. ~Active
  BY DEF Init, NoPass, Active
<1>3. Submitted /\ Underway /\ Ordered /\ Once /\ Held /\ Empty
  BY <1>2 DEF Init, Submitted, Underway, Ordered, Once, Held, Empty, Spent, NoBuilds
<1> QED
  BY <1>1, <1>3 DEF GridInv

LEMMA GridStep == GridInv /\ [Next]_vars => GridInv'
<1> SUFFICES ASSUME GridInv, [Next]_vars PROVE GridInv'
  OBVIOUS
<1>1. CASE UNCHANGED vars
  <2>1. UNCHANGED <<row, stopping, up, grid, applied, pass, wire, failures, troubles, crashes, builds>>
    BY <1>1 DEF vars, runner, counters
  <2> QED
    BY <2>1 DEF GridInv, TypeOK, Submitted, Underway, Ordered, Once, Held, Empty, Active, Known, Spent
<1>2. CASE User
  BY <1>2, SubmitKeeps, StopReadKeeps, StopWriteKeeps DEF User
<1>3. CASE Load \/ Reconcile \/ NoUsableMark \/ ConfigureGrid
  BY <1>3, LoadKeeps, ReconcileKeeps, NoUsableMarkKeeps, ConfigureKeeps
<1>4. CASE \E stored, answered \in BOOLEAN : Awaited(stored, answered)
  BY <1>4, PersistStoppedKeeps, PersistStartingKeeps, PersistRunningKeeps, PersistErrorKeeps DEF Awaited
<1>5. CASE Mark \/ Crash \/ Boot
  BY <1>5, MarkKeeps, CrashKeeps, BootKeeps
<1>6. CASE \E i \in DOMAIN wire : Land(i) \/ Drop(i)
  BY <1>6, LandKeeps, DropKeeps
<1> QED
  BY <1>1, <1>2, <1>3, <1>4, <1>5, <1>6 DEF Next

LEMMA GridSafe == GridInv => GridOK
<1> SUFFICES ASSUME GridInv PROVE GridOK
  OBVIOUS
<1>1. TypeOK /\ ConfiguredOnce
  BY DEF GridInv, Once, ConfiguredOnce
<1>2. ReportIsTrue
  BY DEF GridInv, Held, Known, Empty, Submitted, ReportIsTrue
<1> QED
  BY <1>1, <1>2 DEF GridOK

(* Passes never configure a version twice on their own account, and a row that reports a
   running grid describes the configuration the engine holds: for any submissions, failed
   or half-failed writes, crashes and restarts, with saves of older grids landing late. *)
THEOREM GridHolds == Spec => []GridOK
<1> QED
  BY GridInit, GridStep, GridSafe, PTL DEF Spec

-----------------------------------------------------------------------------
(* The geometry *)

PlanTypes ==
    /\ mark \in Marks
    /\ plan \in Plans \cup {NoPlan}
    /\ lattice = NoLattice \/
         /\ lattice.plan \in Plans /\ lattice.mark \in Marks
         /\ lattice.side = CreateOrders(lattice.plan, lattice.mark * Unit)

(* What was checked before it was stored or run *)
Checked ==
    /\ plan # NoPlan => AssertGridEconomics(plan)
    /\ lattice # NoLattice =>
          /\ AssertGridEconomics(lattice.plan)
          /\ AssertMarkInsideRange(lattice.plan, lattice.mark * Unit)

PlanInv == PlanTypes /\ Checked

-----------------------------------------------------------------------------
(* No configuration, and no lattice, is mistaken for none. *)
LEMMA PlansAreMade == NoPlan \notin Plans
<1>1. \A p \in Plans : p.type \in GridTypes
  BY DEF Plans
<1>2. NoPlan.type \notin GridTypes
  BY DEF NoPlan, GridTypes
<1>3. QED
  BY <1>1, <1>2

LEMMA InitPlan == PlanInit => PlanInv
  BY DEF PlanInit, PlanInv, PlanTypes, Checked

(* The server stores a configuration that it could not refuse. *)
LEMMA StoreStep ==
  ASSUME PlanInv, NEW p \in Plans, Store(p)
  PROVE  PlanInv'
  BY DEF PlanInv, PlanTypes, Checked, Store

LEMMA FormStep ==
  ASSUME PlanInv, NEW type \in GridTypes, NEW r \in Spreads, NEW n \in Counts, NEW need \in Needs,
         SubmitForm(type, r, n, need)
  PROVE  PlanInv'
<1> DEFINE range == DeriveRange(mark, r)
           p == [type |-> type, lower |-> range.lower, upper |-> range.upper, count |-> n, need |-> need]
<1>1. mark \in Int /\ Unit \in Int /\ r \in Int /\ n \in Int /\ need \in Nat
  BY GridPlanAssumption DEF PlanInv, PlanTypes
<1>2. range = [lower |-> mark * (Unit - r), upper |-> mark * (Unit + r)]
  BY DEF DeriveRange
<1>3. range.lower \in Int /\ range.upper \in Int
  BY <1>1, <1>2
<1>4. p \in Plans
  BY <1>1, <1>3 DEF Plans
<1>5. Store(p)
  BY DEF SubmitForm
<1>6. QED
  BY <1>4, <1>5, StoreStep

LEMMA DirectStep ==
  ASSUME PlanInv, NEW type \in GridTypes, NEW lower \in Bounds, NEW upper \in Bounds,
         NEW n \in Counts, NEW need \in Needs, SubmitDirectly(type, lower, upper, n, need)
  PROVE  PlanInv'
<1>1. [type |-> type, lower |-> lower, upper |-> upper, count |-> n, need |-> need] \in Plans
  BY GridPlanAssumption DEF Plans
<1>2. QED
  BY <1>1, StoreStep DEF SubmitDirectly

LEMMA ConfigureStep ==
  ASSUME PlanInv, Configure
  PROVE  PlanInv'
<1>1. /\ lattice' = [plan |-> plan, mark |-> mark, side |-> CreateOrders(plan, mark * Unit)]
      /\ plan # NoPlan /\ plan \in Plans /\ mark \in Marks /\ UNCHANGED <<mark, plan>>
      /\ AssertGridEconomics(plan) /\ AssertMarkInsideRange(plan, mark * Unit)
  BY DEF Configure, PlanInv, PlanTypes
<1>2. lattice'.plan = plan /\ lattice'.mark = mark /\ lattice'.side = CreateOrders(plan, mark * Unit)
  BY <1>1
<1>3. PlanTypes'
  BY <1>1, <1>2 DEF PlanTypes
<1>4. Checked'
  BY <1>1, <1>2 DEF Checked
<1>5. QED
  BY <1>3, <1>4 DEF PlanInv

LEMMA PlanStep == PlanInv /\ [PlanNext]_planVars => PlanInv'
<1> SUFFICES ASSUME PlanInv, [PlanNext]_planVars PROVE PlanInv'
  OBVIOUS
<1>1. CASE UNCHANGED planVars
  BY <1>1 DEF planVars, PlanInv, PlanTypes, Checked
<1>2. CASE MarkMoves
  BY <1>2 DEF MarkMoves, PlanInv, PlanTypes, Checked
<1>3. CASE PlanNext
  BY <1>2, <1>3, FormStep, DirectStep, ConfigureStep DEF PlanNext
<1>4. QED
  BY <1>1, <1>3

LEMMA PlanInvariant == PlanSpec => []PlanInv
<1>1. QED
  BY InitPlan, PlanStep, PTL DEF PlanSpec

-----------------------------------------------------------------------------
(* The arithmetic of the levels *)

(* Times count, the top order of an arithmetic lattice is no lower than the middle. *)
LEMMA TopOrderAboveMiddle ==
  ASSUME NEW lower \in Nat, NEW upper \in Nat, lower < upper, NEW count \in Nat, count >= 2,
         NEW price \in Nat, 2 * price <= lower + upper
  PROVE  price * count <= lower * count + (upper - lower) * (count - 1)
<1> DEFINE width == upper - lower
           more == count - 2
<1>1. width \in Nat /\ more \in Nat /\ upper = lower + width /\ count = more + 2
  OBVIOUS
<1>2. 2 * price <= 2 * lower + width
  BY <1>1
<1>3. (2 * price) * count <= (2 * lower + width) * count
  <2>1. \A a, b, c \in Nat : a <= b => a * c <= b * c
    OBVIOUS
  <2>2. 2 * price \in Nat /\ 2 * lower + width \in Nat
    BY <1>1
  <2>3. QED
    BY <1>2, <2>1, <2>2
<1>4. (2 * lower + width) * count = 2 * (lower * count) + width * count
  BY <1>1
<1>5. width * count = width * more + 2 * width /\ width * (count - 1) = width * more + width
  BY <1>1
<1>6. width * more \in Nat /\ price * count \in Nat /\ lower * count \in Nat
  BY <1>1
<1>7. (2 * price) * count = 2 * (price * count)
  OBVIOUS
<1> HIDE DEF width, more
<1>8. 2 * (price * count) <= 2 * (lower * count) + 2 * (width * (count - 1))
  BY <1>1, <1>3, <1>4, <1>5, <1>6, <1>7
<1>9. QED
  BY <1>1, <1>5, <1>6, <1>8 DEF width

-----------------------------------------------------------------------------
(* Powers.  As the sums of SumTheorems they are a recursion, and what holds of them
   holds because there is no least counterexample. *)

(* p raises b as far as n *)
Raises(p, b, n) ==
    p \in [0..n -> Int] /\ p[0] = 1 /\ \A k \in 1..n : p[k] = b * p[k - 1]

LEMMA RaisesOn ==
  ASSUME NEW b \in Int, NEW n \in Nat, NEW p, Raises(p, b, n)
  PROVE  Raises([k \in 0..(n + 1) |-> IF k = n + 1 THEN b * p[n] ELSE p[k]], b, n + 1)
<1> DEFINE r == [k \in 0..(n + 1) |-> IF k = n + 1 THEN b * p[n] ELSE p[k]]
<1>1. p \in [0..n -> Int] /\ p[0] = 1 /\ \A k \in 1..n : p[k] = b * p[k - 1]
  BY DEF Raises
<1>2. b * p[n] \in Int
  BY <1>1
<1>3. r \in [0..(n + 1) -> Int] /\ r[0] = 1
  BY <1>1, <1>2
<1>4. ASSUME NEW k \in 1..(n + 1) PROVE r[k] = b * r[k - 1]
  <2>1. CASE k = n + 1
    BY <2>1
  <2>2. CASE k # n + 1
    BY <1>1, <2>2
  <2> QED BY <2>1, <2>2
<1> QED BY <1>3, <1>4 DEF Raises

LEMMA RaisesExist ==
  ASSUME NEW b \in Int
  PROVE  \A n \in Nat : \E p : Raises(p, b, n)
<1> DEFINE Bad == {n \in Nat : ~\E p : Raises(p, b, n)}
<1> SUFFICES ASSUME Bad # {} PROVE FALSE
  OBVIOUS
<1>1. PICK n \in Bad : \A m \in Bad : n <= m
  BY LeastNatural
<1>2. CASE n = 0
  <2>1. Raises([k \in 0..0 |-> 1], b, 0)
    BY DEF Raises
  <2> QED BY <1>2, <2>1
<1>3. CASE n # 0
  <2>1. n - 1 \in Nat /\ n - 1 \notin Bad
    BY <1>1, <1>3
  <2>2. PICK p : Raises(p, b, n - 1)
    BY <2>1
  <2>3. PICK r : Raises(r, b, (n - 1) + 1)
    BY <2>1, <2>2, RaisesOn
  <2>4. (n - 1) + 1 = n
    BY <1>1
  <2> QED BY <2>3, <2>4
<1> QED BY <1>2, <1>3

LEMMA RaisesOnce ==
  ASSUME NEW b \in Int, NEW n \in Nat, NEW m \in Nat, NEW p, NEW r, Raises(p, b, n), Raises(r, b, m)
  PROVE  \A k \in Nat : k <= n /\ k <= m => p[k] = r[k]
<1> DEFINE Bad == {k \in Nat : k <= n /\ k <= m /\ p[k] # r[k]}
<1> SUFFICES ASSUME Bad # {} PROVE FALSE
  OBVIOUS
<1>1. PICK k \in Bad : \A j \in Bad : k <= j
  BY LeastNatural
<1>2. k # 0 /\ k - 1 \in Nat
  BY <1>1 DEF Raises
<1>3. p[k - 1] = r[k - 1]
  BY <1>1, <1>2
<1>4. k \in 1..n /\ k \in 1..m
  BY <1>1, <1>2
<1> QED BY <1>1, <1>3, <1>4 DEF Raises

(* The recursion has a solution, so that a power is what it says *)
Solves(p, b) == p = [k \in Nat |-> IF k = 0 THEN 1 ELSE b * p[k - 1]]

LEMMA PowersExist ==
  ASSUME NEW b \in Int
  PROVE  \E p : Solves(p, b) /\ p \in [Nat -> Int]
<1> DEFINE far(n) == CHOOSE p : Raises(p, b, n)
           p == [k \in Nat |-> far(k)[k]]
<1>1. \A n \in Nat : Raises(far(n), b, n)
  BY RaisesExist
<1> HIDE DEF far
<1>2. p \in [Nat -> Int]
  BY <1>1 DEF Raises
<1>3. ASSUME NEW k \in Nat PROVE p[k] = IF k = 0 THEN 1 ELSE b * p[k - 1]
  <2>1. CASE k = 0
    BY <1>1, <2>1 DEF Raises
  <2>2. CASE k # 0
    <3>1. k - 1 \in Nat /\ k \in 1..k /\ k - 1 <= k /\ k - 1 <= k - 1
      BY <2>2
    <3>2. Raises(far(k), b, k) /\ Raises(far(k - 1), b, k - 1)
      BY <1>1, <3>1
    <3>3. far(k)[k - 1] = far(k - 1)[k - 1]
      BY <3>1, <3>2, RaisesOnce
    <3>4. far(k)[k] = b * far(k)[k - 1]
      BY <3>1, <3>2 DEF Raises
    <3> QED BY <2>2, <3>1, <3>3, <3>4
  <2> QED BY <2>1, <2>2
<1>4. Solves(p, b)
  BY <1>3 DEF Solves
<1> QED BY <1>2, <1>4

LEMMA PowerFacts ==
  ASSUME NEW b \in Int
  PROVE  /\ Power(b, 0) = 1
         /\ \A n \in Nat : Power(b, n) \in Int /\ Power(b, n + 1) = b * Power(b, n)
<1> DEFINE p == CHOOSE p : Solves(p, b)
<1>1. \A n : Power(b, n) = p[n]
  BY DEF Power, Solves
<1>2. Solves(p, b)
  BY PowersExist
<1> HIDE DEF p
<1>3. p[0] = 1 /\ \A n \in Nat : p[n + 1] = b * p[n]
  <2>1. ASSUME NEW n \in Nat PROVE p[n + 1] = b * p[n]
    <3>1. n + 1 \in Nat /\ n + 1 # 0 /\ (n + 1) - 1 = n
      OBVIOUS
    <3> QED BY <1>2, <3>1 DEF Solves
  <2> QED BY <1>2, <2>1 DEF Solves
<1>4. \A n \in Nat : p[n] \in Int
  <2> DEFINE Bad == {n \in Nat : p[n] \notin Int}
  <2> SUFFICES ASSUME Bad # {} PROVE FALSE
    OBVIOUS
  <2>1. PICK n \in Bad : \A m \in Bad : n <= m
    BY LeastNatural
  <2>2. n # 0 /\ n - 1 \in Nat /\ (n - 1) + 1 = n
    BY <1>3, <2>1
  <2>3. p[n - 1] \in Int
    BY <2>1, <2>2
  <2>4. p[n] = b * p[n - 1]
    BY <1>3, <2>2
  <2> QED BY <2>1, <2>3, <2>4
<1> QED BY <1>1, <1>3, <1>4

LEMMA PowerPositive ==
  ASSUME NEW b \in Nat, b > 0
  PROVE  \A n \in Nat : Power(b, n) \in Nat /\ Power(b, n) > 0
<1> DEFINE Bad == {n \in Nat : ~(Power(b, n) > 0)}
<1>0. b \in Int /\ Power(b, 0) = 1 /\ \A n \in Nat : Power(b, n) \in Int /\ Power(b, n + 1) = b * Power(b, n)
  BY PowerFacts
<1>1. Bad = {}
  <2> SUFFICES ASSUME Bad # {} PROVE FALSE
    OBVIOUS
  <2>1. PICK n \in Bad : \A m \in Bad : n <= m
    BY LeastNatural
  <2>2. n # 0 /\ n - 1 \in Nat /\ (n - 1) + 1 = n
    BY <1>0, <2>1
  <2>3. PICK x \in Int : x = Power(b, n - 1) /\ x > 0
    BY <1>0, <2>1, <2>2
  <2>4. Power(b, n) = b * x
    BY <1>0, <2>2, <2>3
  <2>5. b * x > 0
    BY <2>3
  <2> QED BY <2>1, <2>4, <2>5
<1> QED BY <1>0, <1>1

LEMMA PowerGrows ==
  ASSUME NEW b \in Nat, b > 0, NEW c \in Nat, b < c
  PROVE  \A n \in Nat : n > 0 => Power(b, n) < Power(c, n)
<1> DEFINE Bad == {n \in Nat : n > 0 /\ ~(Power(b, n) < Power(c, n))}
<1> SUFFICES ASSUME Bad # {} PROVE FALSE
  OBVIOUS
<1>1. PICK n \in Bad : \A m \in Bad : n <= m
  BY LeastNatural
<1>2. PICK k \in Nat : k + 1 = n
  <2>1. n - 1 \in Nat /\ (n - 1) + 1 = n
    BY <1>1
  <2> QED BY <2>1
<1>3. PICK x \in Nat : x = Power(b, k) /\ x > 0
  BY PowerPositive
<1>0. b \in Int /\ c \in Int /\ c > 0
  OBVIOUS
<1>4. PICK y \in Nat : y = Power(c, k) /\ y > 0
  BY <1>0, PowerPositive
<1>5. Power(b, n) = b * x /\ Power(c, n) = c * y
  <2>1. Power(b, k + 1) = b * Power(b, k) /\ Power(c, k + 1) = c * Power(c, k)
    BY <1>0, PowerFacts
  <2> QED BY <1>2, <1>3, <1>4, <2>1
<1>6. x <= y
  <2>1. CASE k = 0
    BY <1>3, <1>4, <2>1, PowerFacts
  <2>2. CASE k # 0
    <3>1. k \notin Bad
      BY <1>1, <1>2
    <3> QED BY <1>3, <1>4, <2>2, <3>1
  <2> QED BY <2>1, <2>2
<1>7. b * x < c * y
  <2>1. b * x <= b * y
    BY <1>3, <1>4, <1>6
  <2>2. b * y < c * y
    BY <1>4
  <2>3. b * x \in Int /\ b * y \in Int /\ c * y \in Int
    BY <1>3, <1>4
  <2> QED BY <2>1, <2>2, <2>3
<1> QED BY <1>1, <1>5, <1>7

(* A level of a geometric grid, to the power of the count *)
Rise(lower, upper, n, i) == Power(lower, n - i) * Power(upper, i)

LEMMA RiseStep ==
  ASSUME NEW lower \in Nat, lower > 0, NEW upper \in Nat, lower < upper,
         NEW n \in Nat, NEW i \in Nat, i < n
  PROVE  Rise(lower, upper, n, i) <= Rise(lower, upper, n, i + 1)
<1>1. PICK k \in Nat : n - i = k + 1 /\ n - (i + 1) = k
  <2>1. n - i - 1 \in Nat /\ n - i = (n - i - 1) + 1 /\ n - (i + 1) = n - i - 1
    OBVIOUS
  <2> QED BY <2>1
<1>2. PICK x \in Nat : x = Power(lower, k)
  BY PowerPositive
<1>0. upper > 0 /\ lower \in Int /\ upper \in Int
  OBVIOUS
<1>3. PICK y \in Nat : y = Power(upper, i)
  BY <1>0, PowerPositive
<1>4. Power(lower, k + 1) = lower * x /\ Power(upper, i + 1) = upper * y
  BY <1>0, <1>2, <1>3, PowerFacts
<1>5. (lower * x) * y <= x * (upper * y)
  <2>1. PICK z \in Nat : z = x * y
    OBVIOUS
  <2>2. (lower * x) * y = lower * z /\ x * (upper * y) = upper * z
    BY <2>1
  <2>3. lower * z <= upper * z
    BY <2>1
  <2> QED BY <2>2, <2>3
<1> QED BY <1>1, <1>2, <1>3, <1>4, <1>5 DEF Rise

LEMMA RiseIn ==
  ASSUME NEW lower \in Nat, lower > 0, NEW upper \in Nat, upper > 0, NEW n \in Nat, NEW i \in 0..n
  PROVE  Rise(lower, upper, n, i) \in Nat
<1>1. n - i \in Nat /\ i \in Nat
  OBVIOUS
<1>2. PICK x \in Nat, y \in Nat : x = Power(lower, n - i) /\ y = Power(upper, i)
  BY <1>1, PowerPositive
<1>3. x * y \in Nat
  OBVIOUS
<1> QED BY <1>2, <1>3 DEF Rise

LEMMA RiseGrows ==
  ASSUME NEW lower \in Nat, lower > 0, NEW upper \in Nat, lower < upper, NEW n \in Nat, NEW i \in 0..n
  PROVE  \A j \in 0..n : i <= j => Rise(lower, upper, n, i) <= Rise(lower, upper, n, j)
<1> DEFINE T(j) == Rise(lower, upper, n, j)
           Bad == {j \in Nat : j <= n /\ i <= j /\ ~(T(i) <= T(j))}
<1>0. upper > 0
  OBVIOUS
<1>1. \A j \in 0..n : T(j) \in Nat
  BY <1>0, RiseIn
<1>2. Bad = {}
  <2> SUFFICES ASSUME Bad # {} PROVE FALSE
    OBVIOUS
  <2>1. PICK j \in Bad : \A m \in Bad : j <= m
    BY LeastNatural
  <2>2. j \in Nat /\ j <= n /\ i < j /\ ~(T(i) <= T(j))
    BY <1>1, <2>1
  <2>3. PICK k \in Nat : k + 1 = j /\ k < n /\ i <= k /\ k \in 0..n
    <3>1. j - 1 \in Nat /\ (j - 1) + 1 = j /\ j - 1 < n /\ i <= j - 1 /\ j - 1 \in 0..n
      BY <2>2
    <3> QED BY <3>1
  <2>4. T(i) <= T(k)
    BY <2>1, <2>3
  <2>5. T(k) <= T(j)
    BY <2>3, RiseStep
  <2>6. T(i) \in Nat /\ T(k) \in Nat /\ T(j) \in Nat
    BY <1>1, <2>2, <2>3
  <2> HIDE DEF T
  <2> QED BY <2>2, <2>4, <2>5, <2>6
<1> QED BY <1>2

(* The levels and the price *)

(* The lowest level is below a price inside the range. *)
LEMMA BottomIsBelow ==
  ASSUME NEW p \in Plans, Valid(p), NEW price \in Nat, p.lower < price
  PROVE  Below(p, 0, price)
<1>1. p.lower \in Nat /\ p.lower > 0 /\ p.upper \in Nat /\ p.upper > 0 /\ p.count \in Nat /\ p.count >= 2
  BY DEF Plans, Valid
<1>2. CASE p.type = "arithmetic"
  <2>1. Level(p, 0) = p.lower * p.count
    BY <1>1 DEF Level
  <2>2. p.lower * p.count < price * p.count
    <3>1. \A a, b, c \in Nat : a < b /\ c >= 2 => a * c < b * c
      OBVIOUS
    <3>2. QED
      BY <1>1, <3>1
  <2>3. QED
    BY <1>2, <2>1, <2>2 DEF Below
<1>3. CASE p.type # "arithmetic"
  <2>1. Power(p.lower, p.count) < Power(price, p.count)
    BY <1>1, PowerGrows
  <2>2. Power(p.upper, 0) = 1 /\ Power(p.lower, p.count) \in Int /\ p.count - 0 = p.count
    <3>1. p.upper \in Int /\ p.lower \in Int /\ p.count \in Nat /\ p.count - 0 = p.count
      BY <1>1
    <3>2. QED
      BY <3>1, PowerFacts
  <2>3. Power(p.lower, p.count - 0) * Power(p.upper, 0) = Power(p.lower, p.count)
    BY <2>2
  <2>4. QED
    BY <1>3, <2>1, <2>3 DEF Below
<1>4. QED
  BY <1>2, <1>3

LEMMA LevelGrows ==
  ASSUME NEW p \in Plans, Valid(p), NEW i \in Steps(p), NEW j \in Steps(p), i <= j
  PROVE  Level(p, i) \in Int /\ Level(p, j) \in Int /\ Level(p, i) <= Level(p, j)
<1>1. p.lower \in Int /\ p.upper \in Int /\ p.count \in Int /\ i \in Nat /\ j \in Nat
  BY DEF Plans, Steps
<1>2. PICK w \in Nat : w = p.upper - p.lower
  BY <1>1 DEF Valid
<1>3. PICK b \in Int : b = p.lower * p.count
  BY <1>1
<1>4. w * i <= w * j /\ w * i \in Int /\ w * j \in Int
  BY <1>1
<1>5. Level(p, i) = b + w * i /\ Level(p, j) = b + w * j
  BY <1>2, <1>3 DEF Level
<1>6. QED
  BY <1>4, <1>5

(* Below a level that is below the price, all are. *)
LEMMA BelowDown ==
  ASSUME NEW p \in Plans, Valid(p), NEW price \in Nat,
         NEW i \in Steps(p), NEW j \in Steps(p), i <= j, Below(p, j, price)
  PROVE  Below(p, i, price)
<1>1. /\ p.lower \in Nat /\ p.lower > 0 /\ p.upper \in Nat /\ p.lower < p.upper /\ p.upper > 0
      /\ p.count \in Nat /\ i \in 0..p.count /\ j \in 0..p.count
  BY DEF Plans, Valid, Steps
<1>2. CASE p.type = "arithmetic"
  <2>1. price * p.count \in Int
    BY <1>1
  <2>2. QED
    BY <1>2, <2>1, LevelGrows DEF Below
<1>3. CASE p.type # "arithmetic"
  <2>1. Rise(p.lower, p.upper, p.count, i) <= Rise(p.lower, p.upper, p.count, j)
    BY <1>1, RiseGrows
  <2>2. Rise(p.lower, p.upper, p.count, i) \in Nat /\ Rise(p.lower, p.upper, p.count, j) \in Nat
    BY <1>1, RiseIn
  <2>3. Power(price, p.count) \in Int
    <3>1. price \in Int /\ p.count \in Nat
      BY <1>1
    <3>2. QED
      BY <3>1, PowerFacts
  <2>4. Rise(p.lower, p.upper, p.count, j) < Power(price, p.count)
    BY <1>3 DEF Below, Rise
  <2>5. Rise(p.lower, p.upper, p.count, i) < Power(price, p.count)
    BY <2>1, <2>2, <2>3, <2>4
  <2>6. QED
    BY <1>3, <2>5 DEF Below, Rise
<1>4. QED
  BY <1>2, <1>3

-----------------------------------------------------------------------------
(* The theorems *)

(* The stored configuration and the running lattice are well formed. *)
THEOREM PlanTypeCorrect == PlanSpec => []PlanTypeOK
<1>1. ASSUME PlanInv PROVE PlanTypeOK
  <2>1. \A p, price : CreateOrders(p, price) \in [Steps(p) -> {"Buy", "Sell"}]
    BY DEF CreateOrders
  <2>2. QED
    BY <1>1, <2>1 DEF PlanInv, PlanTypes, PlanTypeOK, Running
<1>2. QED
  BY <1>1, PlanInvariant, PTL

(* Every order of a running lattice earns its cost. *)
THEOREM OrdersPay == PlanSpec => []EveryOrderPays
<1>1. ASSUME PlanInv PROVE EveryOrderPays
  <2>1. \A p, price : DOMAIN CreateOrders(p, price) = Steps(p)
    BY DEF CreateOrders
  <2>2. ASSUME Running, NEW i \in DOMAIN lattice.side PROVE Pays(lattice.plan, i)
    BY <1>1, <2>1, <2>2 DEF PlanInv, PlanTypes, Checked, Running, AssertGridEconomics
  <2>3. QED
    BY <1>1, <2>2 DEF PlanInv, Checked, EveryOrderPays
<1>2. QED
  BY <1>1, PlanInvariant, PTL

(* An arithmetic lattice built at a mark no higher than the middle of its range has both
   sides. *)
THEOREM BothSides == PlanSpec => []MiddleIsTwoSided
<1>1. ASSUME PlanInv, Running, lattice.plan.type = "arithmetic",
             2 * lattice.mark * Unit <= lattice.plan.lower + lattice.plan.upper
      PROVE  Orders("Buy") # {} /\ Orders("Sell") # {}
  <2> DEFINE p == lattice.plan
             price == lattice.mark * Unit
  <2>1. /\ p \in Plans /\ lattice.side = CreateOrders(p, price) /\ lattice.mark \in Marks
        /\ p.lower > 0 /\ p.upper > p.lower /\ p.count >= 2 /\ p.lower < price
    BY <1>1 DEF PlanInv, PlanTypes, Checked, Running, AssertGridEconomics, AssertMarkInsideRange, Valid
  <2>2. p.lower \in Nat /\ p.upper \in Nat /\ p.count \in Nat /\ price \in Nat /\ 2 * price <= p.lower + p.upper
    <3>1. lattice.mark \in Nat /\ Unit \in Nat
      BY <2>1, GridPlanAssumption
    <3>2. p.lower \in Int /\ p.upper \in Int /\ p.count \in Int
      BY <2>1 DEF Plans
    <3>3. price \in Nat /\ 2 * lattice.mark * Unit = 2 * price
      BY <3>1
    <3>4. QED
      BY <1>1, <2>1, <3>2, <3>3
  <2> HIDE DEF price
  <2>3. 0 \in Steps(p) /\ p.count - 1 \in Steps(p)
    BY <2>1, <2>2 DEF Steps
  <2>4. Below(p, 0, price)
    <3>1. Level(p, 0) = p.lower * p.count
      BY <2>2 DEF Level
    <3>2. p.lower * p.count < price * p.count
      <4>1. \A a, b, c \in Nat : a < b /\ c >= 2 => a * c < b * c
        OBVIOUS
      <4>2. QED
        BY <2>1, <2>2, <4>1
    <3>3. QED
      BY <1>1, <3>1, <3>2 DEF Below
  <2>5. ~Below(p, p.count - 1, price)
    <3>1. price * p.count <= Level(p, p.count - 1)
      BY <2>1, <2>2, TopOrderAboveMiddle DEF Level
    <3>2. Level(p, p.count - 1) \in Int /\ price * p.count \in Int
      BY <2>2 DEF Level
    <3>3. QED
      BY <1>1, <3>1, <3>2 DEF Below
  <2>6. lattice.side[0] = "Buy" /\ lattice.side[p.count - 1] = "Sell"
    BY <2>1, <2>3, <2>4, <2>5 DEF CreateOrders
  <2>7. DOMAIN lattice.side = Steps(p)
    BY <2>1 DEF CreateOrders
  <2>8. QED
    BY <2>3, <2>6, <2>7 DEF Orders
<1>2. PlanInv => MiddleIsTwoSided
  BY <1>1 DEF MiddleIsTwoSided
<1>3. QED
  BY <1>2, PlanInvariant, PTL

(* A running lattice, arithmetic or geometric, buys at the bottom and has all of its
   buys under all of its sells; an arithmetic one sells unless its mark was in the
   topmost cell. *)
THEOREM LatticeSplits == PlanSpec => []SplitAtTheMark
<1>1. ASSUME PlanInv, Running PROVE SplitAtTheMark
  <2> DEFINE p == lattice.plan
             price == lattice.mark * Unit
  <2>1. /\ p \in Plans /\ lattice.side = CreateOrders(p, price) /\ lattice.mark \in Marks
        /\ Valid(p) /\ p.lower < price
    BY <1>1 DEF PlanInv, PlanTypes, Checked, Running, AssertGridEconomics, AssertMarkInsideRange
  <2>2. price \in Nat
    <3>1. lattice.mark \in Nat /\ Unit \in Nat
      BY <2>1, GridPlanAssumption
    <3>2. QED
      BY <3>1
  <2>3. p.count \in Nat /\ p.count >= 2
    BY <2>1 DEF Plans, Valid
  <2> HIDE DEF price
  <2>4. /\ \A i : i \in Orders("Buy") <=> i \in Steps(p) /\ Below(p, i, price)
        /\ \A i : i \in Orders("Sell") <=> i \in Steps(p) /\ ~Below(p, i, price)
    BY <2>1 DEF Orders, CreateOrders
  <2>5. 0 \in Orders("Buy")
    <3>1. 0 \in Steps(p)
      BY <2>3 DEF Steps
    <3>2. QED
      BY <2>1, <2>2, <2>4, <3>1, BottomIsBelow
  <2>6. ASSUME NEW i \in Orders("Buy"), NEW j \in Orders("Sell") PROVE i < j
    <3>1. i \in Steps(p) /\ j \in Steps(p) /\ Below(p, i, price) /\ ~Below(p, j, price)
      BY <2>4
    <3>2. ~(j <= i)
      BY <2>1, <2>2, <3>1, BelowDown
    <3>3. QED
      BY <3>1, <3>2 DEF Steps
  <2>7. ASSUME p.type = "arithmetic"
        PROVE  Orders("Sell") = {} <=> price * p.count > Level(p, p.count - 1)
    <3>1. p.count - 1 \in Steps(p) /\ price * p.count \in Int /\ Level(p, p.count - 1) \in Int
      <4>1. p.count - 1 \in Steps(p)
        BY <2>3 DEF Steps
      <4>2. QED
        BY <2>1, <2>2, <2>3, <4>1, LevelGrows
    <3>2. Below(p, p.count - 1, price) <=> price * p.count > Level(p, p.count - 1)
      BY <2>7, <3>1 DEF Below
    <3>3. ASSUME Below(p, p.count - 1, price), NEW i \in Orders("Sell") PROVE FALSE
      <4>1. i \in Steps(p) /\ ~Below(p, i, price) /\ i <= p.count - 1
        BY <2>3, <2>4 DEF Steps
      <4>2. QED
        BY <2>1, <2>2, <3>1, <3>3, <4>1, BelowDown
    <3>4. ASSUME ~Below(p, p.count - 1, price) PROVE p.count - 1 \in Orders("Sell")
      BY <2>4, <3>1, <3>4
    <3>5. QED
      BY <3>2, <3>3, <3>4
  <2>8. lattice.mark * Unit * lattice.plan.count = price * p.count
    BY DEF price
  <2>9. QED
    BY <2>5, <2>6, <2>7, <2>8 DEF SplitAtTheMark
<1>2. PlanInv => SplitAtTheMark
  BY <1>1 DEF SplitAtTheMark
<1>3. QED
  BY <1>2, PlanInvariant, PTL

(* All that is promised of a lattice, for every range, count, price and cost. *)
THEOREM LatticeHolds == PlanSpec => []LatticeOK
<1>1. PlanTypeOK /\ EveryOrderPays /\ SplitAtTheMark /\ MiddleIsTwoSided => LatticeOK
  BY DEF LatticeOK
<1>2. QED
  BY <1>1, PlanTypeCorrect, OrdersPay, LatticeSplits, BothSides, PTL


(*-------------------------------------------------------------------------*)
(* Advice: the suggested gate *)

RealTrades == [confidence : Confidences, bps : Earned]
Refusals == [reason : Reasons, confidence : Confidences, bps : Earned]
SweepRows == [threshold : Nat, trades : Nat, sum : Int]

AdviceInv ==
    /\ real \in Seq(RealTrades) /\ shadows \in Seq(Refusals)
    /\ Len(real) <= MaxReal /\ Len(shadows) <= MaxShadows

LEMMA TradeKinds ==
  /\ \A s \in RealTrades : s.confidence \in Nat /\ s.bps \in Int
  /\ \A s \in Refusals : s.confidence \in Nat /\ s.bps \in Int
<1>1. Confidences \subseteq Nat /\ Earned \subseteq Int
  <2>1. 0..100 \subseteq Nat
    OBVIOUS
  <2> QED BY <2>1, AdviceAssumption
<1> QED BY <1>1 DEF RealTrades, Refusals

LEMMA KeptFits ==
  ASSUME NEW T, NEW q \in Seq(T), NEW t \in T, NEW cap \in Nat \ {0}, Len(q) <= cap
  PROVE  /\ Kept(q, t, cap) \in Seq(T) /\ Len(Kept(q, t, cap)) <= cap
         /\ Len(Kept(q, t, cap)) > Len(q) => Kept(q, t, cap) = Append(q, t)
<1> DEFINE longer == Append(q, t)
<1>1. longer \in Seq(T) /\ Len(longer) = Len(q) + 1 /\ longer # <<>>
  OBVIOUS
<1>2. Tail(longer) \in Seq(T) /\ Len(Tail(longer)) = Len(longer) - 1
  BY <1>1
<1> QED BY <1>1, <1>2 DEF Kept

LEMMA AdviceStarts == AdviceInit => AdviceInv
  BY AdviceAssumption DEF AdviceInit, AdviceInv

LEMMA AdviceStep == AdviceInv /\ [AdviceNext]_adviceVars => AdviceInv'
<1> SUFFICES ASSUME AdviceInv, [AdviceNext]_adviceVars PROVE AdviceInv'
  OBVIOUS
<1>1. CASE UNCHANGED adviceVars
  BY <1>1 DEF adviceVars, AdviceInv
<1>2. ASSUME NEW c \in Confidences, NEW b \in Earned, RealClosed(c, b) PROVE AdviceInv'
  <2>1. [confidence |-> c, bps |-> b] \in RealTrades
    BY DEF RealTrades
  <2> QED BY <1>2, <2>1, KeptFits, AdviceAssumption DEF AdviceInv, RealClosed
<1>3. ASSUME NEW c \in Confidences, NEW b \in Earned, NEW r \in Reasons, ShadowClosed(r, c, b) PROVE AdviceInv'
  <2>1. [reason |-> r, confidence |-> c, bps |-> b] \in Refusals
    BY DEF Refusals
  <2> QED BY <1>3, <2>1, KeptFits, AdviceAssumption DEF AdviceInv, ShadowClosed
<1>4. ASSUME ForgetReal PROVE AdviceInv'
  BY <1>4, AdviceAssumption DEF ForgetReal, AdviceInv
<1> QED BY <1>1, <1>2, <1>3, <1>4 DEF AdviceNext

(*  A row of the sweep counts whole trades and adds up whole basis points *)
LEMMA RowKind ==
  AdviceInv =>
    /\ \A t \in Nat : /\ SweepRow(t) \in SweepRows /\ SweepRow(t).threshold = t
                      /\ SweepRow(t).trades = Samples(t)
                      /\ IsFiniteSet(RealFrom(t)) /\ IsFiniteSet(RefusedFrom(t))
    /\ PoolSize \in Nat
<1> SUFFICES ASSUME AdviceInv PROVE
      /\ \A t \in Nat : /\ SweepRow(t) \in SweepRows /\ SweepRow(t).threshold = t
                        /\ SweepRow(t).trades = Samples(t)
                        /\ IsFiniteSet(RealFrom(t)) /\ IsFiniteSet(RefusedFrom(t))
      /\ PoolSize \in Nat
  OBVIOUS
<1>1. /\ DOMAIN real = 1..Len(real) /\ Len(real) \in Nat /\ DOMAIN shadows = 1..Len(shadows) /\ Len(shadows) \in Nat
      /\ \A i \in DOMAIN real : real[i] \in RealTrades
      /\ \A i \in DOMAIN shadows : shadows[i] \in Refusals
  BY DEF AdviceInv
<1>2. IsFiniteSet(1..Len(real)) /\ IsFiniteSet(1..Len(shadows))
  BY <1>1, FS_Interval
<1>3. ByTheGate \subseteq 1..Len(shadows)
  BY <1>1 DEF ByTheGate
<1>4. IsFiniteSet(ByTheGate) /\ Cardinality(ByTheGate) \in Nat
  BY <1>2, <1>3, FS_Subset, FS_CardinalityType
<1>5. ASSUME NEW t \in Nat
      PROVE  /\ SweepRow(t) \in SweepRows /\ SweepRow(t).threshold = t
             /\ SweepRow(t).trades = Samples(t)
             /\ IsFiniteSet(RealFrom(t)) /\ IsFiniteSet(RefusedFrom(t))
  <2>1. RealFrom(t) \subseteq 1..Len(real) /\ RefusedFrom(t) \subseteq 1..Len(shadows)
    BY <1>1, <1>3 DEF RealFrom, RefusedFrom
  <2>2. IsFiniteSet(RealFrom(t)) /\ IsFiniteSet(RefusedFrom(t))
    BY <1>2, <2>1, FS_Subset
  <2>3. Cardinality(RealFrom(t)) \in Nat /\ Cardinality(RefusedFrom(t)) \in Nat
    BY <2>2, FS_CardinalityType
  <2>4. /\ [i \in RealFrom(t) |-> real[i].bps] \in [RealFrom(t) -> Int]
        /\ [i \in RefusedFrom(t) |-> shadows[i].bps] \in [RefusedFrom(t) -> Int]
    BY <1>1, <2>1, AdviceAssumption DEF RealTrades, Refusals
  <2>5. /\ SumFunction([i \in RealFrom(t) |-> real[i].bps]) \in Int
        /\ SumFunction([i \in RefusedFrom(t) |-> shadows[i].bps]) \in Int
    BY <2>2, <2>4, SumInt
  <2> QED BY <2>2, <2>3, <2>5 DEF SweepRow, SweepRows, Samples
<1> QED BY <1>1, <1>4, <1>5 DEF PoolSize

(* a is no worse than b *)
Covers(a, b) ==
    /\ Lead(a, b) >= 0
    /\ Lead(a, b) = 0 => a.trades >= b.trades
    /\ Lead(a, b) = 0 /\ a.trades = b.trades => a.threshold >= b.threshold

LEMMA LeadTurns ==
  ASSUME NEW a \in SweepRows, NEW b \in SweepRows
  PROVE  /\ Lead(a, b) \in Int /\ Lead(b, a) = -Lead(a, b)
         /\ Better(a, b) => Covers(a, b)
         /\ ~Better(a, b) => Covers(b, a)
<1>1. /\ a.sum \in Int /\ b.sum \in Int /\ a.trades \in Nat /\ b.trades \in Nat
      /\ a.threshold \in Nat /\ b.threshold \in Nat
  BY DEF SweepRows
<1>2. PICK x, y : x = a.sum * b.trades /\ y = b.sum * a.trades
  OBVIOUS
<1>3. x \in Int /\ y \in Int
  BY <1>1, <1>2
<1>4. Lead(a, b) = x - y /\ Lead(b, a) = y - x
  BY <1>2 DEF Lead
<1>5. Lead(a, b) \in Int /\ Lead(b, a) = -Lead(a, b)
  BY <1>3, <1>4
<1>6. Lead(a, b) \in Int /\ Lead(b, a) \in Int
  BY <1>3, <1>4
<1> QED BY <1>1, <1>5, <1>6 DEF Better, Covers

LEMMA CoversSelf == ASSUME NEW a \in SweepRows PROVE Covers(a, a)
<1>1. a.sum \in Int /\ a.trades \in Nat /\ a.threshold \in Nat
  BY DEF SweepRows
<1>2. a.sum * a.trades \in Int
  BY <1>1
<1>3. Lead(a, a) = 0
  BY <1>2 DEF Lead
<1> HIDE DEF Lead
<1> QED BY <1>1, <1>3 DEF Covers

(* If x is to m as at least y is to n, and y to n as at least z to k, so is x to m to z to k *)
LEMMA Crosswise ==
  ASSUME NEW x \in Int, NEW y \in Int, NEW z \in Int,
         NEW m \in Nat \ {0}, NEW n \in Nat \ {0}, NEW k \in Nat \ {0},
         x * n >= y * m, y * k >= z * n
  PROVE  /\ x * k >= z * m
         /\ x * k = z * m => x * n = y * m /\ y * k = z * n
<1>1. (x * n - y * m) * k >= 0 /\ (x * n - y * m = 0 \/ (x * n - y * m) * k > 0)
  BY Z3
<1>2. (y * k - z * n) * m >= 0 /\ (y * k - z * n = 0 \/ (y * k - z * n) * m > 0)
  BY Z3
<1>3. (x * n - y * m) * k + (y * k - z * n) * m = (x * k - z * m) * n
  BY Z3
<1>4. (x * k - z * m) * n >= 0 /\ ((x * k - z * m) * n = 0 => x * n - y * m = 0 /\ y * k - z * n = 0)
  BY <1>1, <1>2, <1>3
<1>5. x * k - z * m >= 0 /\ (x * k - z * m = 0 => (x * k - z * m) * n = 0)
  BY <1>4, Z3
<1> QED BY <1>4, <1>5

LEMMA CoversOn ==
  ASSUME NEW a \in SweepRows, NEW b \in SweepRows, NEW c \in SweepRows,
         a.trades > 0, b.trades > 0, c.trades > 0, Covers(a, b), Covers(b, c)
  PROVE  Covers(a, c)
<1>1. /\ a.sum \in Int /\ b.sum \in Int /\ c.sum \in Int
      /\ a.trades \in Nat \ {0} /\ b.trades \in Nat \ {0} /\ c.trades \in Nat \ {0}
      /\ a.threshold \in Nat /\ b.threshold \in Nat /\ c.threshold \in Nat
  BY DEF SweepRows
<1>2. Lead(a, b) >= 0 /\ Lead(b, c) >= 0 /\ Lead(a, b) \in Int /\ Lead(b, c) \in Int /\ Lead(a, c) \in Int
  BY LeadTurns DEF Covers
<1>3. a.sum * b.trades >= b.sum * a.trades /\ b.sum * c.trades >= c.sum * b.trades
  <2>1. a.sum * b.trades \in Int /\ b.sum * a.trades \in Int /\ b.sum * c.trades \in Int /\ c.sum * b.trades \in Int
    BY <1>1
  <2> QED BY <1>2, <2>1 DEF Lead
<1>4. /\ a.sum * c.trades >= c.sum * a.trades
      /\ a.sum * c.trades = c.sum * a.trades =>
            a.sum * b.trades = b.sum * a.trades /\ b.sum * c.trades = c.sum * b.trades
  <2>1. PICK x, y, z, m, n, k : /\ x = a.sum /\ y = b.sum /\ z = c.sum
                               /\ m = a.trades /\ n = b.trades /\ k = c.trades
    OBVIOUS
  <2>2. /\ x \in Int /\ y \in Int /\ z \in Int
        /\ m \in Nat \ {0} /\ n \in Nat \ {0} /\ k \in Nat \ {0}
    BY <1>1, <2>1
  <2>3. x * n >= y * m /\ y * k >= z * n
    BY <1>3, <2>1
  <2>4. x * k >= z * m /\ (x * k = z * m => x * n = y * m /\ y * k = z * n)
    BY <2>2, <2>3, Crosswise
  <2> QED BY <2>1, <2>4
<1>5. /\ a.sum * c.trades \in Int /\ c.sum * a.trades \in Int /\ a.sum * b.trades \in Int
      /\ b.sum * a.trades \in Int /\ b.sum * c.trades \in Int /\ c.sum * b.trades \in Int
  BY <1>1
<1>6. Lead(a, c) >= 0 /\ (Lead(a, c) = 0 => Lead(a, b) = 0 /\ Lead(b, c) = 0)
  BY <1>4, <1>5 DEF Lead
<1> HIDE DEF Lead
<1> QED BY <1>1, <1>6 DEF Covers

(*-------------------------------------------------------------------------*)
(* The walk up the ladder *)

ChoiceOf(n, current) ==
    LET rung == SweepRow(Ladder[n])
    IN  IF Supported(rung) /\ (current = NoAdvice \/ Better(rung, current)) THEN rung ELSE current
WalksTo(g, m) == g = [n \in 0..m |-> IF n = 0 THEN NoAdvice ELSE ChoiceOf(n, g[n - 1])]

LEMMA WalkExists == ASSUME NEW m \in Nat PROVE \E g : WalksTo(g, m)
<1> DEFINE Bad == {k \in Nat : ~\E g : WalksTo(g, k)}
<1>1. Bad = {}
  <2> SUFFICES ASSUME Bad # {} PROVE FALSE
    OBVIOUS
  <2>1. PICK k \in Bad : \A l \in Bad : k <= l
    BY LeastNatural
  <2>2. CASE k = 0
    <3>1. WalksTo([n \in 0..0 |-> NoAdvice], 0)
      BY DEF WalksTo
    <3> QED BY <2>1, <2>2, <3>1
  <2>3. CASE k # 0
    <3>1. k - 1 \in Nat /\ k - 1 \notin Bad
      BY <2>1, <2>3
    <3>2. PICK g : WalksTo(g, k - 1)
      BY <3>1
    <3> DEFINE h == [n \in 0..k |-> IF n = k THEN ChoiceOf(k, g[k - 1]) ELSE g[n]]
    <3>3. \A n \in 0..(k - 1) : g[n] = IF n = 0 THEN NoAdvice ELSE ChoiceOf(n, g[n - 1])
      BY <3>2 DEF WalksTo
    <3>4. ASSUME NEW n \in 0..k PROVE h[n] = IF n = 0 THEN NoAdvice ELSE ChoiceOf(n, h[n - 1])
      <4>1. CASE n = k
        <5>1. h[n - 1] = g[k - 1] /\ h[n] = ChoiceOf(k, g[k - 1])
          BY <2>1, <2>3, <4>1
        <5> QED BY <2>3, <4>1, <5>1
      <4>2. CASE n # k
        <5>1. n \in 0..(k - 1) /\ h[n] = g[n] /\ (n # 0 => h[n - 1] = g[n - 1])
          BY <2>1, <4>2
        <5> QED BY <3>3, <5>1
      <4> QED BY <4>1, <4>2
    <3>5. h = [n \in 0..k |-> h[n]]
      OBVIOUS
    <3> HIDE DEF h
    <3>6. WalksTo(h, k)
      BY <3>4, <3>5 DEF WalksTo
    <3> QED BY <2>1, <3>6
  <2> QED BY <2>2, <2>3
<1> QED BY <1>1

LEMMA BestOfWalks ==
  /\ BestOf[0] = NoAdvice
  /\ \A n \in 1..Len(Ladder) : BestOf[n] = ChoiceOf(n, BestOf[n - 1])
<1>1. Len(Ladder) \in Nat
  BY AdviceAssumption
<1>2. BestOf = CHOOSE g : WalksTo(g, Len(Ladder))
  BY DEF BestOf, WalksTo, ChoiceOf
<1>3. WalksTo(BestOf, Len(Ladder))
  BY <1>1, <1>2, WalkExists
<1> QED BY <1>1, <1>3 DEF WalksTo

(* Every rung with the evidence, up to n, is one that the best of them covers *)
BestUpto(n) ==
    IF BestOf[n] = NoAdvice
    THEN \A k \in 1..n : ~Supported(SweepRow(Ladder[k]))
    ELSE /\ \E j \in 1..n : BestOf[n] = SweepRow(Ladder[j]) /\ Supported(BestOf[n])
         /\ \A k \in 1..n : Supported(SweepRow(Ladder[k])) => Covers(BestOf[n], SweepRow(Ladder[k]))

LEMMA RungKind ==
  ASSUME AdviceInv, NEW k \in 1..Len(Ladder)
  PROVE  /\ SweepRow(Ladder[k]) \in SweepRows /\ SweepRow(Ladder[k]) # NoAdvice
         /\ Supported(SweepRow(Ladder[k])) => SweepRow(Ladder[k]).trades > 0
         /\ Ladder[k] \in Nat /\ SweepRow(Ladder[k]).threshold = Ladder[k]
<1>1. Ladder[k] \in Nat
  BY AdviceAssumption
<1>2. SweepRow(Ladder[k]) \in SweepRows /\ SweepRow(Ladder[k]).threshold = Ladder[k]
  BY <1>1, RowKind
<1>3. SweepRow(Ladder[k]) # NoAdvice /\ MinPerThreshold \in Nat \ {0}
  BY <1>2, AdviceAssumption DEF SweepRows
<1>4. SweepRow(Ladder[k]).trades \in Nat
  BY <1>2 DEF SweepRows
<1>5. Supported(SweepRow(Ladder[k])) => SweepRow(Ladder[k]).trades > 0
  BY <1>3, <1>4 DEF Supported
<1> QED BY <1>1, <1>2, <1>3, <1>5

LEMMA WalkStep ==
  ASSUME AdviceInv, NEW n \in 1..Len(Ladder), BestUpto(n - 1)
  PROVE  BestUpto(n)
<1> DEFINE rung == SweepRow(Ladder[n])
           soFar == BestOf[n - 1]
<1>1. /\ Len(Ladder) \in Nat /\ n - 1 \in Nat /\ 1..n = 1..(n - 1) \cup {n}
      /\ n \in 1..n /\ 1..n \subseteq 1..Len(Ladder)
  BY AdviceAssumption
<1>2. BestOf[n] = ChoiceOf(n, soFar)
  BY BestOfWalks
<1>3. rung \in SweepRows /\ rung # NoAdvice /\ (Supported(rung) => rung.trades > 0)
  BY RungKind
<1>4. \A k \in 1..(n - 1) : /\ SweepRow(Ladder[k]) \in SweepRows
                            /\ Supported(SweepRow(Ladder[k])) => SweepRow(Ladder[k]).trades > 0
  BY <1>1, RungKind
<1>5. CASE ~Supported(rung)
  <2>1. BestOf[n] = soFar
    BY <1>2, <1>5 DEF ChoiceOf
  <2> QED BY <1>1, <1>5, <2>1 DEF BestUpto
<1>6. CASE Supported(rung) /\ soFar = NoAdvice
  <2>1. BestOf[n] = rung
    BY <1>2, <1>6 DEF ChoiceOf
  <2>3. Covers(rung, rung)
    BY <1>3, CoversSelf
  <2>4. \A k \in 1..(n - 1) : ~Supported(SweepRow(Ladder[k]))
    BY <1>6 DEF BestUpto
  <2>5. \A k \in 1..n : Supported(SweepRow(Ladder[k])) => k = n
    BY <1>1, <2>4
  <2> QED BY <1>1, <1>3, <1>6, <2>1, <2>3, <2>5 DEF BestUpto
<1>7. CASE Supported(rung) /\ soFar # NoAdvice
  <2>1. PICK j \in 1..(n - 1) : soFar = SweepRow(Ladder[j]) /\ Supported(soFar)
    BY <1>7 DEF BestUpto
  <2>2. soFar \in SweepRows /\ soFar.trades > 0
    BY <1>4, <2>1
  <2>3. \A k \in 1..(n - 1) : Supported(SweepRow(Ladder[k])) => Covers(soFar, SweepRow(Ladder[k]))
    BY <1>7 DEF BestUpto
  <2>4. CASE Better(rung, soFar)
    <3>1. BestOf[n] = rung
      BY <1>2, <1>7, <2>4 DEF ChoiceOf
    <3>2. Covers(rung, soFar)
      BY <1>3, <2>2, <2>4, LeadTurns
    <3>3. ASSUME NEW k \in 1..(n - 1), Supported(SweepRow(Ladder[k])) PROVE Covers(rung, SweepRow(Ladder[k]))
      <4>1. PICK r, l, o : r = rung /\ l = soFar /\ o = SweepRow(Ladder[k])
        OBVIOUS
      <4>2. /\ r \in SweepRows /\ l \in SweepRows /\ o \in SweepRows
            /\ r.trades > 0 /\ l.trades > 0 /\ o.trades > 0
        BY <1>3, <1>4, <1>7, <2>2, <3>3, <4>1
      <4>3. Covers(r, l) /\ Covers(l, o)
        BY <2>3, <3>2, <3>3, <4>1
      <4> QED BY <4>1, <4>2, <4>3, CoversOn
    <3>5. Covers(rung, rung)
      BY <1>3, CoversSelf
    <3> QED BY <1>1, <1>3, <1>7, <3>1, <3>3, <3>5 DEF BestUpto
  <2>5. CASE ~Better(rung, soFar)
    <3>1. BestOf[n] = soFar
      BY <1>2, <1>7, <2>5 DEF ChoiceOf
    <3>2. Covers(soFar, rung)
      BY <1>3, <2>2, <2>5, LeadTurns
    <3> QED BY <1>1, <1>7, <2>1, <2>3, <3>1, <3>2 DEF BestUpto
  <2> QED BY <2>4, <2>5
<1> QED BY <1>5, <1>6, <1>7

LEMMA BestIsBest == ASSUME AdviceInv PROVE BestUpto(Len(Ladder))
<1> DEFINE Bad == {n \in Nat : n <= Len(Ladder) /\ ~BestUpto(n)}
<1>1. Len(Ladder) \in Nat
  BY AdviceAssumption
<1>2. Bad = {}
  <2> SUFFICES ASSUME Bad # {} PROVE FALSE
    OBVIOUS
  <2>1. PICK n \in Bad : \A m \in Bad : n <= m
    BY LeastNatural
  <2>2. n # 0
    <3>1. BestUpto(0)
      BY BestOfWalks DEF BestUpto
    <3> QED BY <2>1, <3>1
  <2>3. n - 1 \in Nat /\ n - 1 \notin Bad /\ n \in 1..Len(Ladder)
    BY <1>1, <2>1, <2>2
  <2>4. BestUpto(n - 1)
    BY <1>1, <2>3
  <2> QED BY <2>1, <2>3, <2>4, WalkStep
<1> QED BY <1>1, <1>2

LEMMA BestFacts ==
  AdviceInv =>
    /\ Best # NoAdvice =>
          /\ PoolSize >= MinPool
          /\ \E j \in 1..Len(Ladder) : Best = SweepRow(Ladder[j]) /\ Supported(SweepRow(Ladder[j]))
          /\ \A k \in 1..Len(Ladder) : Supported(SweepRow(Ladder[k])) => Covers(Best, SweepRow(Ladder[k]))
    /\ PoolSize >= MinPool /\ (\E k \in 1..Len(Ladder) : Supported(SweepRow(Ladder[k]))) => Best # NoAdvice
<1> SUFFICES ASSUME AdviceInv PROVE
    /\ Best # NoAdvice =>
          /\ PoolSize >= MinPool
          /\ \E j \in 1..Len(Ladder) : Best = SweepRow(Ladder[j]) /\ Supported(SweepRow(Ladder[j]))
          /\ \A k \in 1..Len(Ladder) : Supported(SweepRow(Ladder[k])) => Covers(Best, SweepRow(Ladder[k]))
    /\ PoolSize >= MinPool /\ (\E k \in 1..Len(Ladder) : Supported(SweepRow(Ladder[k]))) => Best # NoAdvice
  OBVIOUS
<1>1. BestUpto(Len(Ladder)) /\ PoolSize \in Nat /\ MinPool \in Nat
  BY BestIsBest, RowKind, AdviceAssumption
<1>2. CASE PoolSize < MinPool
  BY <1>1, <1>2 DEF Best
<1>3. CASE ~(PoolSize < MinPool)
  <2>1. PoolSize >= MinPool /\ Best = BestOf[Len(Ladder)]
    BY <1>1, <1>3 DEF Best
  <2> QED BY <1>1, <2>1 DEF BestUpto
<1> QED BY <1>2, <1>3

LEMMA AdviceClaims == AdviceInv => AdviceTypeOK /\ AdviceIsBest
<1> SUFFICES ASSUME AdviceInv PROVE AdviceTypeOK /\ AdviceIsBest
  OBVIOUS
<1>1. Len(real) <= MaxReal /\ Len(shadows) <= MaxShadows
  BY DEF AdviceInv
<1>2. DOMAIN Ladder = 1..Len(Ladder)
  BY AdviceAssumption
<1>3. ASSUME Best # NoAdvice
      PROVE  /\ recommendedThreshold \in Range(Ladder) /\ samplesToTrust = 0
             /\ Samples(recommendedThreshold) >= MinPerThreshold
  <2>1. PICK j \in 1..Len(Ladder) : Best = SweepRow(Ladder[j]) /\ Supported(SweepRow(Ladder[j]))
    BY <1>3, BestFacts
  <2>2. recommendedThreshold = Ladder[j]
    BY <1>3, <2>1, RungKind DEF recommendedThreshold
  <2>3. Ladder[j] \in Range(Ladder)
    BY <1>2 DEF Range
  <2>4. Samples(Ladder[j]) >= MinPerThreshold
    BY <2>1, RungKind, RowKind DEF Supported
  <2>5. PoolSize >= MinPool /\ PoolSize \in Nat /\ MinPool \in Nat
    BY <1>3, BestFacts, RowKind, AdviceAssumption
  <2>6. samplesToTrust = 0
    BY <2>5 DEF samplesToTrust, Max
  <2> QED BY <2>2, <2>3, <2>4, <2>6
<1>4. NoAdvice \notin Nat
  BY AdviceAssumption
<1>5. Best = NoAdvice => recommendedThreshold = NoAdvice
  BY DEF recommendedThreshold
<1>6. AdviceTypeOK
  BY <1>1, <1>3, <1>5 DEF AdviceTypeOK
<1>7. ASSUME Best # NoAdvice, NEW t \in Judged PROVE Covers(Best, SweepRow(t))
  <2>1. PICK k \in 1..Len(Ladder) : t = Ladder[k]
    BY <1>2 DEF Judged, Range
  <2>2. Supported(SweepRow(t))
    BY <2>1, RungKind, RowKind DEF Judged, Supported
  <2> QED BY <1>7, <2>1, <2>2, BestFacts
<1>8. AdviceIsBest
  <2> SUFFICES ASSUME Best # NoAdvice, NEW t \in Judged PROVE
          /\ Lead(Best, SweepRow(t)) >= 0
          /\ Lead(Best, SweepRow(t)) = 0 => Best.trades >= SweepRow(t).trades
          /\ Lead(Best, SweepRow(t)) = 0 /\ Best.trades = SweepRow(t).trades => Best.threshold >= SweepRow(t).threshold
    BY DEF AdviceIsBest
  <2> QED BY <1>7 DEF Covers
<1> QED BY <1>6, <1>8

(*-------------------------------------------------------------------------*)
(* One trade more *)

(* What a longer list does to the rows *)
LEMMA RealGrows ==
  ASSUME AdviceInv, AdviceInv', NEW s \in RealTrades, real' = Append(real, s), UNCHANGED shadows
  PROVE  /\ PoolSize' = PoolSize + 1
         /\ \A t \in Nat :
               IF s.confidence >= t
               THEN SweepRow(t)' = [threshold |-> t, trades |-> SweepRow(t).trades + 1,
                                    sum |-> SweepRow(t).sum + s.bps]
               ELSE SweepRow(t)' = SweepRow(t)
<1> DEFINE n == Len(real)
<1>1. /\ n \in Nat /\ DOMAIN real = 1..n /\ DOMAIN real' = 1..(n + 1) /\ Len(real') = n + 1
      /\ \A i \in 1..n : real'[i] = real[i] /\ real[i] \in RealTrades
      /\ real'[n + 1] = s
  BY DEF AdviceInv
<1>2. \A t : RefusedFrom(t)' = RefusedFrom(t) /\ ByTheGate' = ByTheGate
  BY DEF RefusedFrom, ByTheGate
<1>3. Cardinality(ByTheGate) \in Nat
  <2>1. Len(shadows) \in Nat /\ ByTheGate \subseteq 1..Len(shadows)
    BY DEF AdviceInv, ByTheGate
  <2>2. IsFiniteSet(1..Len(shadows))
    BY <2>1, FS_Interval
  <2>3. IsFiniteSet(ByTheGate)
    BY <2>1, <2>2, FS_Subset
  <2> QED BY <2>3, FS_CardinalityType
<1>4. PoolSize' = PoolSize + 1
  BY <1>1, <1>2, <1>3 DEF PoolSize
<1>5. ASSUME NEW t \in Nat
      PROVE  IF s.confidence >= t
             THEN SweepRow(t)' = [threshold |-> t, trades |-> SweepRow(t).trades + 1,
                                  sum |-> SweepRow(t).sum + s.bps]
             ELSE SweepRow(t)' = SweepRow(t)
  <2> DEFINE traded == RealFrom(t)
             old == [i \in RealFrom(t) |-> real[i].bps]
             new == [i \in RealFrom(t)' |-> real'[i].bps]
             part == SumFunction([i \in RefusedFrom(t) |-> shadows[i].bps])
             kept == Cardinality(RefusedFrom(t))
  <2>1. /\ IsFiniteSet(RealFrom(t)) /\ IsFiniteSet(RefusedFrom(t))
        /\ Cardinality(RealFrom(t)) \in Nat /\ kept \in Nat
    BY RowKind, FS_CardinalityType
  <2>2. RealFrom(t) \subseteq 1..n
    BY <1>1 DEF RealFrom
  <2>3. RealFrom(t)' = IF s.confidence >= t THEN RealFrom(t) \cup {n + 1} ELSE RealFrom(t)
    <3>1. \A i \in 1..(n + 1) : i \in 1..n \/ i = n + 1
      BY <1>1
    <3>2. n + 1 \notin 1..n /\ 1..n \subseteq 1..(n + 1) /\ n + 1 \in 1..(n + 1)
      BY <1>1
    <3>3. RealFrom(t)' = {i \in 1..(n + 1) : real'[i].confidence >= t}
      BY <1>1 DEF RealFrom
    <3>4. RealFrom(t) = {i \in 1..n : real[i].confidence >= t}
      BY <1>1 DEF RealFrom
    <3> QED BY <1>1, <3>1, <3>2, <3>3, <3>4
  <2>4. /\ SweepRow(t) = [threshold |-> t, trades |-> Cardinality(RealFrom(t)) + kept,
                          sum |-> SumFunction(old) + part]
        /\ SweepRow(t)' = [threshold |-> t, trades |-> Cardinality(RealFrom(t)') + kept,
                           sum |-> SumFunction(new) + part]
    BY <1>2 DEF SweepRow
  <2>5. old \in [RealFrom(t) -> Int] /\ s.bps \in Int
    BY <1>1, <2>2, AdviceAssumption DEF RealTrades
  <2>6. SumFunction(old) \in Int /\ part \in Int
    <3>1. SweepRow(t) \in SweepRows
      BY RowKind
    <3>2. [i \in RefusedFrom(t) |-> shadows[i].bps] \in [RefusedFrom(t) -> Int]
      <4>1. \A i \in DOMAIN shadows : shadows[i] \in Refusals
        BY DEF AdviceInv
      <4>2. \A i \in DOMAIN shadows : shadows[i].bps \in Int
        BY <4>1, AdviceAssumption DEF Refusals
      <4> QED BY <4>2 DEF RefusedFrom, ByTheGate
    <3> QED BY <2>1, <2>5, <3>2, SumInt
  <2>7. CASE s.confidence >= t
    <3>1. RealFrom(t)' = RealFrom(t) \cup {n + 1} /\ n + 1 \notin RealFrom(t)
      BY <1>1, <2>2, <2>3, <2>7
    <3>2. Cardinality(RealFrom(t)') = Cardinality(RealFrom(t)) + 1
      BY <2>1, <3>1, FS_AddElement
    <3>3. GrownBy(new, old, RealFrom(t), n + 1) /\ new[n + 1] = s.bps
      <4>1. new \in [RealFrom(t) \cup {n + 1} -> Int] /\ new[n + 1] = s.bps
        BY <1>1, <2>2, <2>5, <3>1, AdviceAssumption DEF RealTrades
      <4>2. \A i \in RealFrom(t) : new[i] = old[i]
        BY <1>1, <2>2, <3>1
      <4> QED BY <2>1, <2>5, <3>1, <4>1, <4>2 DEF GrownBy
    <3>4. SumFunction(new) = SumFunction(old) + s.bps
      <4>1. PICK f, e, R, x : f = old /\ e = new /\ R = RealFrom(t) /\ x = n + 1
        OBVIOUS
      <4>2. GrownBy(e, f, R, x) /\ e[x] = s.bps
        BY <3>3, <4>1
      <4>3. SumFunction(e) = SumFunction(f) + e[x]
        BY <4>2, SumMore
      <4> QED BY <4>1, <4>2, <4>3
    <3> HIDE DEF old, new, part, kept
    <3>5. SweepRow(t)'.sum = SweepRow(t).sum + s.bps /\ SweepRow(t)'.trades = SweepRow(t).trades + 1
      BY <2>1, <2>4, <2>5, <2>6, <3>2, <3>4
    <3> QED BY <2>4, <2>7, <3>5
  <2>8. CASE ~(s.confidence >= t)
    <3>1. RealFrom(t)' = RealFrom(t) /\ new = old
      BY <1>1, <2>2, <2>3, <2>8
    <3> QED BY <2>4, <2>8, <3>1
  <2> QED BY <2>7, <2>8
<1> QED BY <1>4, <1>5

LEMMA RefusedGrows ==
  ASSUME AdviceInv, AdviceInv', NEW s \in Refusals, shadows' = Append(shadows, s), UNCHANGED real
  PROVE  IF s.reason = "confidence"
         THEN /\ PoolSize' = PoolSize + 1
              /\ \A t \in Nat :
                    IF s.confidence >= t
                    THEN SweepRow(t)' = [threshold |-> t, trades |-> SweepRow(t).trades + 1,
                                         sum |-> SweepRow(t).sum + s.bps]
                    ELSE SweepRow(t)' = SweepRow(t)
         ELSE PoolSize' = PoolSize /\ \A t \in Nat : SweepRow(t)' = SweepRow(t)
<1> DEFINE n == Len(shadows)
           counted(t) == s.reason = "confidence" /\ s.confidence >= t
<1>1. /\ n \in Nat /\ DOMAIN shadows = 1..n /\ DOMAIN shadows' = 1..(n + 1)
      /\ \A i \in 1..n : shadows'[i] = shadows[i] /\ shadows[i] \in Refusals
      /\ shadows'[n + 1] = s
  BY DEF AdviceInv
<1>2. /\ \A i \in 1..(n + 1) : i \in 1..n \/ i = n + 1
      /\ n + 1 \notin 1..n /\ 1..n \subseteq 1..(n + 1) /\ n + 1 \in 1..(n + 1)
  BY <1>1
<1>3. /\ ByTheGate' = {i \in 1..(n + 1) : shadows'[i].reason = "confidence"}
      /\ ByTheGate = {i \in 1..n : shadows[i].reason = "confidence"}
  BY <1>1 DEF ByTheGate
<1>4. ByTheGate' = IF s.reason = "confidence" THEN ByTheGate \cup {n + 1} ELSE ByTheGate
  BY <1>1, <1>2, <1>3
<1>5. ByTheGate \subseteq 1..n /\ n + 1 \notin ByTheGate
  BY <1>2, <1>3
<1>6. IsFiniteSet(ByTheGate) /\ Cardinality(ByTheGate) \in Nat
  <2>1. IsFiniteSet(1..n)
    BY <1>1, FS_Interval
  <2>2. IsFiniteSet(ByTheGate)
    BY <1>5, <2>1, FS_Subset
  <2> QED BY <2>2, FS_CardinalityType
<1>7. PoolSize' = IF s.reason = "confidence" THEN PoolSize + 1 ELSE PoolSize
  <2>1. Cardinality(ByTheGate') = IF s.reason = "confidence" THEN Cardinality(ByTheGate) + 1 ELSE Cardinality(ByTheGate)
    BY <1>4, <1>5, <1>6, FS_AddElement
  <2>2. Len(real) \in Nat
    BY DEF AdviceInv
  <2> QED BY <1>6, <2>1, <2>2 DEF PoolSize
<1>8. ASSUME NEW t \in Nat
      PROVE  SweepRow(t)' = IF counted(t)
                            THEN [threshold |-> t, trades |-> SweepRow(t).trades + 1,
                                  sum |-> SweepRow(t).sum + s.bps]
                            ELSE SweepRow(t)
  <2> DEFINE old == [i \in RefusedFrom(t) |-> shadows[i].bps]
             new == [i \in RefusedFrom(t)' |-> shadows'[i].bps]
             part == SumFunction([i \in RealFrom(t) |-> real[i].bps])
             kept == Cardinality(RealFrom(t))
  <2>1. /\ IsFiniteSet(RealFrom(t)) /\ IsFiniteSet(RefusedFrom(t))
        /\ Cardinality(RefusedFrom(t)) \in Nat /\ kept \in Nat
    BY RowKind, FS_CardinalityType
  <2>2. RefusedFrom(t) \subseteq 1..n
    BY <1>5 DEF RefusedFrom
  <2>3. RefusedFrom(t)' = IF counted(t) THEN RefusedFrom(t) \cup {n + 1} ELSE RefusedFrom(t)
    <3>1. RefusedFrom(t)' = {i \in ByTheGate' : shadows'[i].confidence >= t}
      BY DEF RefusedFrom
    <3>2. RefusedFrom(t) = {i \in ByTheGate : shadows[i].confidence >= t}
      BY DEF RefusedFrom
    <3> QED BY <1>1, <1>2, <1>4, <1>5, <3>1, <3>2
  <2>4. /\ SweepRow(t) = [threshold |-> t, trades |-> kept + Cardinality(RefusedFrom(t)),
                          sum |-> part + SumFunction(old)]
        /\ SweepRow(t)' = [threshold |-> t, trades |-> kept + Cardinality(RefusedFrom(t)'),
                           sum |-> part + SumFunction(new)]
    <3>1. RealFrom(t)' = RealFrom(t)
      BY DEF RealFrom
    <3> QED BY <3>1 DEF SweepRow
  <2>5. old \in [RefusedFrom(t) -> Int] /\ s.bps \in Int
    BY <1>1, <2>2, AdviceAssumption DEF Refusals
  <2>6. SumFunction(old) \in Int /\ part \in Int
    <3>1. [i \in RealFrom(t) |-> real[i].bps] \in [RealFrom(t) -> Int]
      <4>1. \A i \in DOMAIN real : real[i] \in RealTrades
        BY DEF AdviceInv
      <4>2. \A i \in DOMAIN real : real[i].bps \in Int
        BY <4>1, AdviceAssumption DEF RealTrades
      <4> QED BY <4>2 DEF RealFrom
    <3> QED BY <2>1, <2>5, <3>1, SumInt
  <2>7. CASE counted(t)
    <3>1. RefusedFrom(t)' = RefusedFrom(t) \cup {n + 1} /\ n + 1 \notin RefusedFrom(t)
      BY <1>1, <2>2, <2>3, <2>7
    <3>2. Cardinality(RefusedFrom(t)') = Cardinality(RefusedFrom(t)) + 1
      BY <2>1, <3>1, FS_AddElement
    <3>3. GrownBy(new, old, RefusedFrom(t), n + 1) /\ new[n + 1] = s.bps
      <4>1. new \in [RefusedFrom(t) \cup {n + 1} -> Int] /\ new[n + 1] = s.bps
        BY <1>1, <2>2, <2>5, <3>1, AdviceAssumption DEF Refusals
      <4>2. \A i \in RefusedFrom(t) : new[i] = old[i]
        BY <1>1, <2>2, <3>1
      <4> QED BY <2>1, <2>5, <3>1, <4>1, <4>2 DEF GrownBy
    <3>4. SumFunction(new) = SumFunction(old) + s.bps
      <4>1. PICK f, e, R, x : f = old /\ e = new /\ R = RefusedFrom(t) /\ x = n + 1
        OBVIOUS
      <4>2. GrownBy(e, f, R, x) /\ e[x] = s.bps
        BY <3>3, <4>1
      <4>3. SumFunction(e) = SumFunction(f) + e[x]
        BY <4>2, SumMore
      <4> QED BY <4>1, <4>2, <4>3
    <3> HIDE DEF old, new, part, kept
    <3>5. SweepRow(t)'.sum = SweepRow(t).sum + s.bps /\ SweepRow(t)'.trades = SweepRow(t).trades + 1
      BY <2>1, <2>4, <2>5, <2>6, <3>2, <3>4
    <3> QED BY <2>4, <2>7, <3>5
  <2>8. CASE ~counted(t)
    <3>1. RefusedFrom(t)' = RefusedFrom(t) /\ new = old
      BY <1>1, <2>2, <2>3, <2>8
    <3> QED BY <2>4, <2>8, <3>1
  <2> QED BY <2>7, <2>8
<1> QED BY <1>7, <1>8

(* The same rows give the same advice *)
LEMMA SameRowsSameAdvice ==
  ASSUME AdviceInv, PoolSize' = PoolSize, \A t \in Nat : SweepRow(t)' = SweepRow(t),
         BestOf[0]' = NoAdvice,
         \A n \in 1..Len(Ladder) : BestOf[n]' = ChoiceOf(n, BestOf[n - 1])'
  PROVE  recommendedThreshold' = recommendedThreshold
<1> DEFINE Bad == {n \in Nat : n <= Len(Ladder) /\ BestOf[n]' # BestOf[n]}
<1>1. Len(Ladder) \in Nat /\ \A n \in 1..Len(Ladder) : Ladder[n] \in Nat
  BY AdviceAssumption
<1>2. Bad = {}
  <2> SUFFICES ASSUME Bad # {} PROVE FALSE
    OBVIOUS
  <2>1. PICK n \in Bad : \A m \in Bad : n <= m
    BY LeastNatural
  <2>2. n # 0
    BY <2>1, BestOfWalks
  <2>3. n - 1 \in Nat /\ n - 1 \notin Bad /\ n \in 1..Len(Ladder)
    BY <1>1, <2>1, <2>2
  <2>4. BestOf[n - 1]' = BestOf[n - 1]
    BY <1>1, <2>3
  <2>5. SweepRow(Ladder[n])' = SweepRow(Ladder[n])
    BY <1>1, <2>3
  <2>6. ChoiceOf(n, BestOf[n - 1])' = ChoiceOf(n, BestOf[n - 1])
    BY <2>4, <2>5 DEF ChoiceOf, Supported, Better, Lead
  <2>7. BestOf[n]' = BestOf[n]
    BY <2>3, <2>6, BestOfWalks
  <2> QED BY <2>1, <2>7
<1>3. BestOf[Len(Ladder)]' = BestOf[Len(Ladder)]
  BY <1>1, <1>2
<1>4. Best' = Best
  BY <1>3 DEF Best
<1> QED BY <1>4 DEF recommendedThreshold

LEMMA BestOfWalksOn ==
  (BestOf[0] = NoAdvice /\ \A n \in 1..Len(Ladder) : BestOf[n] = ChoiceOf(n, BestOf[n - 1]))'
  BY BestOfWalks, PTL
LEMMA BestFactsOn ==
  AdviceInv' =>
   (/\ Best # NoAdvice =>
          /\ PoolSize >= MinPool
          /\ \E j \in 1..Len(Ladder) : Best = SweepRow(Ladder[j]) /\ Supported(SweepRow(Ladder[j]))
          /\ \A k \in 1..Len(Ladder) : Supported(SweepRow(Ladder[k])) => Covers(Best, SweepRow(Ladder[k]))
    /\ PoolSize >= MinPool /\ (\E k \in 1..Len(Ladder) : Supported(SweepRow(Ladder[k]))) => Best # NoAdvice)'
  BY BestFacts, PTL
LEMMA RowKindOn ==
  AdviceInv' => \A t \in Nat : SweepRow(t)' \in SweepRows /\ SweepRow(t)'.threshold = t
<1>1. AdviceInv => \A t \in Nat : SweepRow(t) \in SweepRows /\ SweepRow(t).threshold = t
  BY RowKind
<1>2. (AdviceInv => \A t \in Nat : SweepRow(t) \in SweepRows /\ SweepRow(t).threshold = t)'
  BY <1>1, PTL
<1> QED BY <1>2

(* A step that makes a list longer, or the shadows other *)
LEMMA WhoGrows ==
  ASSUME AdviceInv, AdviceNext, Grown
  PROVE  \/ \E s \in RealTrades : real' = Append(real, s) /\ UNCHANGED shadows /\ Newest = s
         \/ \E s \in Refusals : shadows' = Append(shadows, s) /\ UNCHANGED real /\ Newest = s
<1>1. Len(real) \in Nat /\ Len(shadows) \in Nat /\ real \in Seq(RealTrades) /\ shadows \in Seq(Refusals)
      /\ Len(real) <= MaxReal /\ Len(shadows) <= MaxShadows
  BY DEF AdviceInv
<1>2. ASSUME NEW c \in Confidences, NEW b \in Earned, RealClosed(c, b)
      PROVE  \E s \in RealTrades : real' = Append(real, s) /\ UNCHANGED shadows /\ Newest = s
  <2> DEFINE s == [confidence |-> c, bps |-> b]
  <2>1. s \in RealTrades
    BY DEF RealTrades
  <2> HIDE DEF s
  <2>2. real' = Kept(real, s, MaxReal) /\ UNCHANGED shadows
    BY <1>2 DEF RealClosed, s
  <2>3. Len(real') > Len(real)
    BY <1>1, <2>2 DEF Grown
  <2>4. real' = Append(real, s)
    BY <1>1, <2>1, <2>2, <2>3, KeptFits, AdviceAssumption
  <2>5. Newest = s
    BY <1>1, <2>1, <2>2, <2>4 DEF Newest
  <2> QED BY <2>1, <2>2, <2>4, <2>5
<1>3. ASSUME NEW c \in Confidences, NEW b \in Earned, NEW r \in Reasons, ShadowClosed(r, c, b)
      PROVE  \E s \in Refusals : shadows' = Append(shadows, s) /\ UNCHANGED real /\ Newest = s
  <2> DEFINE s == [reason |-> r, confidence |-> c, bps |-> b]
  <2>1. s \in Refusals
    BY DEF Refusals
  <2> HIDE DEF s
  <2>2. shadows' = Kept(shadows, s, MaxShadows) /\ UNCHANGED real
    BY <1>3 DEF ShadowClosed, s
  <2>3. Len(shadows') > Len(shadows)
    BY <1>1, <2>2 DEF Grown
  <2>4. shadows' = Append(shadows, s)
    BY <1>1, <2>1, <2>2, <2>3, KeptFits, AdviceAssumption
  <2>5. Newest = s
    BY <1>1, <2>1, <2>2, <2>4 DEF Newest
  <2> QED BY <2>1, <2>2, <2>4, <2>5
<1>4. ~ForgetReal
  BY <1>1 DEF ForgetReal, Grown
<1> QED BY <1>2, <1>3, <1>4 DEF AdviceNext

LEMMA GateAlone ==
  ASSUME AdviceInv, AdviceNext, Len(shadows') > Len(shadows), Newest.reason # "confidence"
  PROVE  recommendedThreshold' = recommendedThreshold
<1>1. AdviceInv'
  BY AdviceStep
<1>2. Grown
  BY DEF Grown
<1>3. PICK s \in Refusals : shadows' = Append(shadows, s) /\ UNCHANGED real /\ Newest = s
  BY <1>2, WhoGrows DEF AdviceInv
<1>4. PoolSize' = PoolSize /\ \A t \in Nat : SweepRow(t)' = SweepRow(t)
  BY <1>1, <1>3, RefusedGrows
<1> QED BY <1>4, SameRowsSameAdvice, BestOfWalksOn

(* x above the mean of s1 / n1, which is no less than s2 / n2, lifts the first by more *)
LEMMA LiftsMore ==
  ASSUME NEW s1 \in Int, NEW s2 \in Int, NEW x \in Int, NEW n1 \in Nat \ {0}, NEW n2 \in Nat,
         n1 <= n2, s1 * n2 >= s2 * n1, x * n1 > s1
  PROVE  /\ (s1 + x) * (n2 + 1) >= (s2 + x) * (n1 + 1)
         /\ (s1 + x) * (n2 + 1) = (s2 + x) * (n1 + 1) => n1 = n2
<1> DEFINE gap == (s1 + x) * (n2 + 1) - (s2 + x) * (n1 + 1)
<1>1. gap * n1 = (s1 * n2 - s2 * n1) * (n1 + 1) + (x * n1 - s1) * (n2 - n1)
  BY Z3
<1>2. (s1 * n2 - s2 * n1) * (n1 + 1) >= 0
  BY Z3
<1>3. (x * n1 - s1) * (n2 - n1) >= 0 /\ (n2 # n1 => (x * n1 - s1) * (n2 - n1) > 0)
  BY Z3
<1>4. gap \in Int
  OBVIOUS
<1> HIDE DEF gap
<1>5. gap * n1 >= 0 /\ (n2 # n1 => gap * n1 > 0)
  <2>1. (s1 * n2 - s2 * n1) * (n1 + 1) \in Int /\ (x * n1 - s1) * (n2 - n1) \in Int
    OBVIOUS
  <2> QED BY <1>1, <1>2, <1>3, <2>1
<1>6. gap >= 0 /\ (gap = 0 => gap * n1 = 0)
  BY <1>4, <1>5, Z3
<1>7. (s1 + x) * (n2 + 1) \in Int /\ (s2 + x) * (n1 + 1) \in Int
  OBVIOUS
<1> QED BY <1>5, <1>6, <1>7 DEF gap

LEMMA WinsLift ==
  ASSUME AdviceInv, AdviceNext, AddsWin
  PROVE  recommendedThreshold' >= recommendedThreshold
<1>1. AdviceInv' /\ Grown /\ Best # NoAdvice
  BY AdviceStep DEF AddsWin
<1>2. PICK s : /\ Newest = s /\ s.confidence \in Nat /\ s.bps \in Int
               /\ PoolSize' = PoolSize + 1
               /\ \A t \in Nat :
                     IF s.confidence >= t
                     THEN SweepRow(t)' = [threshold |-> t, trades |-> SweepRow(t).trades + 1,
                                          sum |-> SweepRow(t).sum + s.bps]
                     ELSE SweepRow(t)' = SweepRow(t)
  <2>1. CASE \E s \in RealTrades : real' = Append(real, s) /\ UNCHANGED shadows /\ Newest = s
    <3>1. PICK s \in RealTrades : real' = Append(real, s) /\ UNCHANGED shadows /\ Newest = s
      BY <2>1
    <3>2. s.confidence \in Nat /\ s.bps \in Int
      BY TradeKinds
    <3> QED BY <1>1, <3>1, <3>2, RealGrows
  <2>2. CASE \E s \in Refusals : shadows' = Append(shadows, s) /\ UNCHANGED real /\ Newest = s
    <3>1. PICK s \in Refusals : shadows' = Append(shadows, s) /\ UNCHANGED real /\ Newest = s
      BY <2>2
    <3>2. s.confidence \in Nat /\ s.bps \in Int
      BY TradeKinds
    <3>3. s.reason = "confidence"
      BY <3>1 DEF AddsWin
    <3> QED BY <1>1, <3>1, <3>2, <3>3, RefusedGrows
  <2> QED BY <1>1, <2>1, <2>2, WhoGrows
<1>3. PICK j \in 1..Len(Ladder) : Best = SweepRow(Ladder[j]) /\ Supported(SweepRow(Ladder[j]))
  BY <1>1, BestFacts
<1>4. Ladder[j] \in Nat /\ Best.threshold = Ladder[j] /\ recommendedThreshold = Ladder[j]
  BY <1>1, <1>3, RungKind DEF recommendedThreshold
<1>5. s.confidence >= Ladder[j] /\ s.bps * Best.trades > Best.sum
  BY <1>2, <1>3, <1>4 DEF AddsWin
<1>6. /\ SweepRow(Ladder[j])' = [threshold |-> Ladder[j], trades |-> Best.trades + 1, sum |-> Best.sum + s.bps]
      /\ Best.trades \in Nat \ {0} /\ Best.sum \in Int /\ Best.trades >= MinPerThreshold
  <2>1. Best \in SweepRows /\ Best.trades > 0
    BY <1>3, RungKind
  <2> QED BY <1>2, <1>3, <1>4, <1>5, <2>1 DEF SweepRows, Supported
<1>7. Supported(SweepRow(Ladder[j])')
  BY <1>6, AdviceAssumption DEF Supported
<1>8. PoolSize' >= MinPool
  <2>1. PoolSize >= MinPool /\ PoolSize \in Nat /\ MinPool \in Nat
    BY <1>1, BestFacts, RowKind, AdviceAssumption
  <2> QED BY <1>2, <2>1
<1>9. Best' # NoAdvice
  BY <1>1, <1>7, <1>8, BestFactsOn DEF Supported
<1>10. PICK i \in 1..Len(Ladder) : Best' = SweepRow(Ladder[i])' /\ Supported(SweepRow(Ladder[i])')
  BY <1>1, <1>9, BestFactsOn DEF Supported
<1>11. Covers(Best', SweepRow(Ladder[j])')
  BY <1>1, <1>7, <1>9, BestFactsOn DEF Supported, Covers, Lead
<1>12. Ladder[i] \in Nat /\ recommendedThreshold' = Ladder[i]
  <2>1. Ladder[i] \in Nat
    BY AdviceAssumption
  <2>2. Best'.threshold = Ladder[i]
    BY <1>1, <1>10, <2>1, RowKindOn
  <2> QED BY <1>9, <2>1, <2>2 DEF recommendedThreshold
<1>13. ~(Ladder[i] < Ladder[j])
  <2> SUFFICES ASSUME Ladder[i] < Ladder[j] PROVE FALSE
    OBVIOUS
  <2>1. PICK a, b, x : a = Best /\ b = SweepRow(Ladder[i]) /\ x = s.bps
    OBVIOUS
  <2>2. /\ Best' = [threshold |-> Ladder[i], trades |-> b.trades + 1, sum |-> b.sum + x]
        /\ SweepRow(Ladder[j])' = [threshold |-> Ladder[j], trades |-> a.trades + 1, sum |-> a.sum + x]
    BY <1>2, <1>4, <1>5, <1>6, <1>10, <1>12, <2>1
  <2>3. b \in SweepRows
    BY <2>1, RungKind
  <2>4. a.trades \in Nat \ {0} /\ a.sum \in Int /\ b.trades \in Nat /\ b.sum \in Int /\ x \in Int
        /\ x * a.trades > a.sum
    BY <1>2, <1>5, <1>6, <2>1, <2>3 DEF SweepRows
  <2>5. a.trades <= b.trades
    <3>1. RealFrom(Ladder[j]) \subseteq RealFrom(Ladder[i]) /\ RefusedFrom(Ladder[j]) \subseteq RefusedFrom(Ladder[i])
      <4>1. \A k \in DOMAIN real : real[k].confidence \in Nat
        BY TradeKinds DEF AdviceInv
      <4>2. \A k \in DOMAIN shadows : shadows[k].confidence \in Nat
        BY TradeKinds DEF AdviceInv
      <4> QED BY <1>4, <1>12, <4>1, <4>2 DEF RealFrom, RefusedFrom, ByTheGate
    <3>2. /\ IsFiniteSet(RealFrom(Ladder[i])) /\ IsFiniteSet(RefusedFrom(Ladder[i]))
          /\ IsFiniteSet(RealFrom(Ladder[j])) /\ IsFiniteSet(RefusedFrom(Ladder[j]))
          /\ a.trades = Samples(Ladder[j]) /\ b.trades = Samples(Ladder[i])
      BY <1>3, <1>4, <1>12, <2>1, RowKind
    <3>3. /\ Cardinality(RealFrom(Ladder[j])) <= Cardinality(RealFrom(Ladder[i]))
          /\ Cardinality(RefusedFrom(Ladder[j])) <= Cardinality(RefusedFrom(Ladder[i]))
      BY <3>1, <3>2, FS_Subset
    <3>4. /\ Cardinality(RealFrom(Ladder[j])) \in Nat /\ Cardinality(RealFrom(Ladder[i])) \in Nat
          /\ Cardinality(RefusedFrom(Ladder[j])) \in Nat /\ Cardinality(RefusedFrom(Ladder[i])) \in Nat
      BY <3>2, FS_CardinalityType
    <3> QED BY <3>2, <3>3, <3>4 DEF Samples
  <2>6. a.sum * b.trades >= b.sum * a.trades
    <3>1. Supported(b)
      BY <1>6, <2>1, <2>4, <2>5, AdviceAssumption DEF Supported
    <3>2. Covers(a, b)
      BY <1>1, <2>1, <3>1, BestFacts
    <3>3. a.sum * b.trades \in Int /\ b.sum * a.trades \in Int
      BY <2>4
    <3> QED BY <3>2, <3>3 DEF Covers, Lead
  <2>7. /\ (a.sum + x) * (b.trades + 1) >= (b.sum + x) * (a.trades + 1)
        /\ (a.sum + x) * (b.trades + 1) = (b.sum + x) * (a.trades + 1) => a.trades = b.trades
    <3>1. PICK s1, s2, n1, n2 : s1 = a.sum /\ s2 = b.sum /\ n1 = a.trades /\ n2 = b.trades
      OBVIOUS
    <3>2. /\ s1 \in Int /\ s2 \in Int /\ x \in Int /\ n1 \in Nat \ {0} /\ n2 \in Nat
          /\ n1 <= n2 /\ s1 * n2 >= s2 * n1 /\ x * n1 > s1
      BY <2>4, <2>5, <2>6, <3>1
    <3>3. /\ (s1 + x) * (n2 + 1) >= (s2 + x) * (n1 + 1)
          /\ (s1 + x) * (n2 + 1) = (s2 + x) * (n1 + 1) => n1 = n2
      BY <3>2, LiftsMore
    <3> QED BY <3>1, <3>3
  <2>8. PICK p, q : p = (a.sum + x) * (b.trades + 1) /\ q = (b.sum + x) * (a.trades + 1)
    OBVIOUS
  <2>9. p \in Int /\ q \in Int
    BY <2>4, <2>8
  <2>10. Lead(Best', SweepRow(Ladder[j])') = q - p
    BY <2>2, <2>8 DEF Lead
  <2>11. q - p >= 0
    BY <1>11, <2>10 DEF Covers
  <2>12. p = q /\ a.trades = b.trades
    BY <2>7, <2>8, <2>9, <2>11
  <2>13. /\ Lead(Best', SweepRow(Ladder[j])') = 0 /\ Best'.trades = SweepRow(Ladder[j])'.trades
         /\ Best'.threshold = Ladder[i] /\ SweepRow(Ladder[j])'.threshold = Ladder[j]
    BY <2>2, <2>9, <2>10, <2>12
  <2>14. Ladder[i] >= Ladder[j]
    BY <1>11, <2>13 DEF Covers
  <2> QED BY <1>4, <1>12, <2>14
<1> QED BY <1>4, <1>12, <1>13

(* For any ladder, results and order of closes: the advised gate is the best of the ladder,
   only a trade that the gate alone refused, or a real one, moves it, and a result that
   speaks for it never lowers it (getStats of shadow-book.ts). *)
THEOREM AdviceHolds == AdviceSpec => AdviceIsSound
<1>1. AdviceInit => AdviceInv
  BY AdviceStarts
<1>2. AdviceInv /\ [AdviceNext]_adviceVars => AdviceInv'
  BY AdviceStep
<1>3. AdviceInv => AdviceTypeOK /\ AdviceIsBest
  BY AdviceClaims
<1>4. AdviceInv /\ [AdviceNext]_adviceVars =>
        [Len(shadows') > Len(shadows) /\ Newest.reason # "confidence"
           => recommendedThreshold' = recommendedThreshold]_adviceVars
  BY GateAlone
<1>5. AdviceInv /\ [AdviceNext]_adviceVars =>
        [AddsWin => recommendedThreshold' >= recommendedThreshold]_adviceVars
  BY WinsLift
<1>6. AdviceSpec => []AdviceInv
  BY <1>1, <1>2, PTL DEF AdviceSpec
<1>7. AdviceSpec => [](AdviceTypeOK /\ AdviceIsBest)
  BY <1>3, <1>6, PTL
<1>8. AdviceSpec => OnlyTheGateIsJudged /\ WinsNeverLoosen
  BY <1>4, <1>5, <1>6, PTL DEF AdviceSpec, OnlyTheGateIsJudged, WinsNeverLoosen
<1> QED BY <1>7, <1>8 DEF AdviceIsSound

-----------------------------------------------------------------------------
(* What an order costs: Fills.  Each walk through a book is a function that a recursion
   over its levels defines; a property of it goes up level by level (Upwards). *)

(* Induction up to N *)
LEMMA Upwards ==
  ASSUME NEW N \in Nat, NEW P, 0 \in P, \A n \in 1..N : n - 1 \in P => n \in P
  PROVE  \A n \in 0..N : n \in P
<1> DEFINE Bad == {n \in 0..N : n \notin P}
<1>1. Bad \subseteq Nat
  OBVIOUS
<1>2. ASSUME Bad # {} PROVE FALSE
  <2>1. PICK k \in Bad : \A l \in Bad : k <= l
    <3> HIDE DEF Bad
    <3> QED BY <1>1, <1>2, LeastNatural
  <2>2. k \in 1..N /\ k \notin P
    OBVIOUS
  <2>3. k - 1 \in 0..N /\ k - 1 \notin Bad
    BY <2>1, <2>2
  <2>4. k - 1 \in P
    BY <2>3
  <2> QED BY <2>2, <2>4
<1> QED BY <1>2

(* What a recursion over 1..N that keeps to a set yields: a function that obeys it *)
LEMMA ChainExists ==
  ASSUME NEW S, NEW a \in S, NEW N \in Nat, NEW F \in [1..N -> [S -> S]]
  PROVE  \E g \in [0..N -> S] : g[0] = a /\ \A n \in 1..N : g[n] = F[n][g[n - 1]]
<1> DEFINE Chain(m) == \E g \in [0..m -> S] : g[0] = a /\ \A n \in 1..m : g[n] = F[n][g[n - 1]]
           P == {m \in 0..N : Chain(m)}
<1>1. 0 \in P
  <2>1. [n \in 0..0 |-> a] \in [0..0 -> S] /\ [n \in 0..0 |-> a][0] = a /\ 1..0 = {}
    OBVIOUS
  <2>2. Chain(0)
    BY <2>1
  <2> QED BY <2>2
<1>2. ASSUME NEW k \in 1..N, k - 1 \in P PROVE k \in P
  <2>1. PICK g \in [0..(k - 1) -> S] : g[0] = a /\ \A n \in 1..(k - 1) : g[n] = F[n][g[n - 1]]
    BY <1>2
  <2> DEFINE h == [n \in 0..k |-> IF n = k THEN F[k][g[k - 1]] ELSE g[n]]
  <2>2. F[k] \in [S -> S] /\ g[k - 1] \in S
    BY <2>1
  <2>3. ASSUME NEW n \in 0..k PROVE h[n] \in S
    BY <2>1, <2>2
  <2>4. h \in [0..k -> S]
    BY <2>3
  <2>5. h[0] = a
    BY <2>1
  <2>6. ASSUME NEW n \in 1..k PROVE h[n] = F[n][h[n - 1]]
    <3>1. n - 1 \in 0..k /\ n - 1 # k /\ h[n - 1] = g[n - 1]
      OBVIOUS
    <3>2. CASE n = k
      BY <3>1, <3>2
    <3>3. CASE n # k
      <4>1. n \in 1..(k - 1) /\ h[n] = g[n]
        BY <3>3
      <4> QED BY <2>1, <3>1, <4>1
    <3> QED BY <3>2, <3>3
  <2> HIDE DEF h
  <2>7. Chain(k)
    BY <2>4, <2>5, <2>6
  <2> QED BY <2>7
<1> HIDE DEF P
<1>3. \A n \in 0..N : n \in P
  BY <1>1, <1>2, Upwards
<1>4. N \in P
  BY <1>3
<1> QED BY <1>4 DEF P

Wholes == Int
LEMMA WholesExist ==
  ASSUME NEW N \in Nat, NEW a \in Wholes, NEW F \in [1..N -> [Wholes -> Wholes]]
  PROVE  \E g \in [0..N -> Wholes] : g[0] = a /\ \A n \in 1..N : g[n] = F[n][g[n - 1]]
BY ChainExists

LEMMA TotalExists ==
  ASSUME NEW N \in Nat, NEW a \in Int, NEW F \in [1..N -> [Int -> Int]]
  PROVE  \E g \in [0..N -> Int] : g[0] = a /\ \A n \in 1..N : g[n] = F[n][g[n - 1]]
BY WholesExist DEF Wholes

(* ... and every function that obeys it keeps to the set *)
LEMMA ChainKind ==
  ASSUME NEW S, NEW N \in Nat, NEW g, g[0] \in S, DOMAIN g = 0..N, g = [n \in DOMAIN g |-> g[n]],
         \A n \in 1..N : g[n - 1] \in S => g[n] \in S
  PROVE  g \in [0..N -> S]
<1> DEFINE P == {n \in 0..N : g[n] \in S}
<1>1. 0 \in P /\ \A n \in 1..N : n - 1 \in P => n \in P
  OBVIOUS
<1> HIDE DEF P
<1>2. \A n \in 0..N : n \in P
  BY <1>1, Upwards
<1> QED BY <1>2 DEF P

(* The recursions of Visible, Walk and MaxExecutable *)
IsVisible(g, levels) ==
    g = [n \in 0..Len(levels) |-> IF n = 0 THEN 0 ELSE g[n - 1] + levels[n][2]]
VisibleTo(levels) == CHOOSE g : IsVisible(g, levels)

IsWalk(g, levels, qty) ==
    g = [n \in 0..Len(levels) |->
            IF n = 0 THEN [filled |-> 0, cost |-> 0] ELSE Take(qty, g[n - 1], levels[n])]
WalkTo(levels, qty) == CHOOSE g : IsWalk(g, levels, qty)

IsExecutable(g, levels, side, limit) ==
    g = [n \in 0..Len(levels) |->
            IF n = 0 THEN [qty |-> 0, cost |-> 0, stop |-> FALSE]
            ELSE TakeAll(side, limit, g[n - 1], levels[n])]
ExecutableTo(levels, side, limit) == CHOOSE g : IsExecutable(g, levels, side, limit)

Walked == [filled : Int, cost : Int]
Taking == [qty : Int, cost : Int, stop : BOOLEAN]

LEMMA Recursions ==
  ASSUME NEW levels, NEW qty, NEW book, NEW side
  PROVE  /\ Visible(levels) = VisibleTo(levels)[Len(levels)]
         /\ Walk(levels, qty) = WalkTo(levels, qty)[Len(levels)]
         /\ MaxExecutable(book, side) =
               LET all == Levels(book, side) IN
               Min({ExecutableTo(all, side, Limit(book, side))[Len(all)].qty, Visible(all) \div DepthPart})
<1>1. Visible(levels) = VisibleTo(levels)[Len(levels)]
  BY DEF Visible, VisibleTo, IsVisible
<1>2. Walk(levels, qty) = WalkTo(levels, qty)[Len(levels)]
  BY DEF Walk, WalkTo, IsWalk
<1>3. MaxExecutable(book, side) =
               LET all == Levels(book, side) IN
               Min({ExecutableTo(all, side, Limit(book, side))[Len(all)].qty, Visible(all) \div DepthPart})
  BY DEF MaxExecutable, ExecutableTo, IsExecutable
<1> QED BY <1>1, <1>2, <1>3

LEMMA LevelKind ==
  ASSUME NEW levels \in Depths
  PROVE  /\ Len(levels) \in Nat \ {0}
         /\ \A n \in 1..Len(levels) : /\ levels[n][1] \in Nat \ {0} /\ levels[n][2] \in Nat \ {0}
                                      /\ levels[n][1] \in PricesOf(levels)
<1>1. levels \in Seq((Nat \ {0}) \X (Nat \ {0})) /\ levels # <<>>
  BY DEF Depths
<1>2. Len(levels) \in Nat \ {0} /\ DOMAIN levels = 1..Len(levels)
  BY <1>1
<1>3. ASSUME NEW n \in 1..Len(levels) PROVE levels[n] \in (Nat \ {0}) \X (Nat \ {0})
  BY <1>1
<1>4. \A n \in 1..Len(levels) : levels[n][1] \in Nat \ {0} /\ levels[n][2] \in Nat \ {0}
  BY <1>3
<1> QED BY <1>2, <1>4 DEF PricesOf

LEMMA LeastOfTwo ==
  ASSUME NEW x \in Int, NEW y \in Int
  PROVE  /\ Min({x, y}) = IF x <= y THEN x ELSE y
         /\ Max({x, y}) = IF x >= y THEN x ELSE y
<1>1. \E z \in {x, y} : \A w \in {x, y} : z <= w
  OBVIOUS
<1>2. \E z \in {x, y} : \A w \in {x, y} : z >= w
  OBVIOUS
<1>3. Min({x, y}) \in {x, y} /\ \A w \in {x, y} : Min({x, y}) <= w
  BY <1>1 DEF Min
<1>4. Max({x, y}) \in {x, y} /\ \A w \in {x, y} : Max({x, y}) >= w
  BY <1>2 DEF Max
<1> QED BY <1>3, <1>4

LEMMA TakeFields ==
  ASSUME NEW qty \in Int, NEW w \in Walked, NEW level, level[1] \in Int, level[2] \in Int,
         NEW t \in Int, t = IF qty - w.filled <= level[2] THEN qty - w.filled ELSE level[2]
  PROVE  Take(qty, w, level).filled = w.filled + t /\ Take(qty, w, level).cost = w.cost + t * level[1]
<1>1. PICK d \in Int : d = qty - w.filled
  BY DEF Walked
<1>2. t = Min({d, level[2]})
  BY <1>1, LeastOfTwo
<1> QED BY <1>1, <1>2 DEF Take

LEMMA TakeKind ==
  ASSUME NEW qty \in Int, NEW w \in Walked, NEW level, level[1] \in Int, level[2] \in Int
  PROVE  Take(qty, w, level) \in Walked
<1>1. qty - w.filled \in Int /\ w.filled \in Int /\ w.cost \in Int
  BY DEF Walked
<1>2. PICK t : t = Min({qty - w.filled, level[2]})
  OBVIOUS
<1>3. t \in Int
  BY <1>1, <1>2, LeastOfTwo
<1>4. t * level[1] \in Int
  BY <1>3
<1>5. Take(qty, w, level) = [filled |-> w.filled + t, cost |-> w.cost + t * level[1]]
  BY <1>2 DEF Take
<1> QED BY <1>1, <1>3, <1>4, <1>5 DEF Walked

LEMMA TakeAllKind ==
  ASSUME NEW side, NEW limit \in Int, NEW w \in Taking, NEW level, level[1] \in Int, level[2] \in Int
  PROVE  TakeAll(side, limit, w, level) \in Taking
<1>1. w.qty \in Int /\ w.cost \in Int /\ level[1] * level[2] \in Int
  BY DEF Taking
<1>2. PICK room : room = Room(side, level[1], w, limit)
  OBVIOUS
<1>3. room \in Int
  <2>1. Sign(side) \in Int
    BY DEF Sign
  <2>2. PICK spare \in Int : spare = Sign(side) * (limit * w.qty - w.cost * Bps)
    <3>1. Bps \in Int
      BY FillsAssumption
    <3>2. limit * w.qty \in Int /\ w.cost * Bps \in Int
      BY <1>1, <3>1
    <3>3. limit * w.qty - w.cost * Bps \in Int
      BY <3>2
    <3> QED BY <2>1, <3>3
  <2>3. PICK excess \in Int : excess = Sign(side) * (level[1] * Bps - limit)
    <3>1. Bps \in Int
      BY FillsAssumption
    <3>2. level[1] * Bps - limit \in Int
      BY <3>1
    <3> QED BY <2>1, <3>2
  <2>4. room = IF excess > 0 THEN Max({0, spare \div excess}) ELSE 0
    BY <1>2, <2>2, <2>3 DEF Room
  <2>5. CASE excess > 0
    <3>1. PICK r \in Int : r = spare \div excess
      BY <2>5
    <3>2. Max({0, r}) = IF 0 >= r THEN 0 ELSE r
      BY LeastOfTwo
    <3> QED BY <2>4, <2>5, <3>1, <3>2
  <2>6. CASE ~(excess > 0)
    BY <2>4, <2>6
  <2> QED BY <2>5, <2>6
<1>4. Min({level[2], room}) \in Int
  BY <1>3, LeastOfTwo
<1>5. PICK m \in Int : m = Min({level[2], room})
  BY <1>4
<1>6. PICK paid \in Int : paid = level[1] * level[2]
  BY <1>1
<1>7. \/ TakeAll(side, limit, w, level) = w
      \/ TakeAll(side, limit, w, level) = [w EXCEPT !.qty = w.qty + level[2], !.cost = w.cost + paid]
      \/ TakeAll(side, limit, w, level) = [w EXCEPT !.qty = w.qty + m, !.stop = TRUE]
  BY <1>2, <1>5, <1>6 DEF TakeAll
<1>8. /\ w.qty + level[2] \in Int /\ w.cost + paid \in Int /\ w.qty + m \in Int
  BY <1>1
<1> QED BY <1>7, <1>8 DEF Taking

LEMMA VisibleSteps ==
  ASSUME NEW levels \in Depths
  PROVE  /\ VisibleTo(levels)[0] = 0 /\ VisibleTo(levels) \in [0..Len(levels) -> Int]
         /\ \A n \in 1..Len(levels) : VisibleTo(levels)[n] = VisibleTo(levels)[n - 1] + levels[n][2]
<1> DEFINE F == [n \in 1..Len(levels) |-> [v \in Int |-> v + levels[n][2]]]
<1>0. Len(levels) \in Nat /\ \A n \in 1..Len(levels) : levels[n][2] \in Int
  BY LevelKind
<1>1. F \in [1..Len(levels) -> [Int -> Int]]
  BY <1>0
<1>2. \A n \in 1..Len(levels), v \in Int : F[n][v] = v + levels[n][2]
  OBVIOUS
<1> HIDE DEF F
<1>3. \E g \in [0..Len(levels) -> Int] : g[0] = 0 /\ \A n \in 1..Len(levels) : g[n] = F[n][g[n - 1]]
  <2>1. PICK N \in Nat : N = Len(levels)
    BY <1>0
  <2>2. PICK a \in Int : a = 0
    OBVIOUS
  <2>3. F \in [1..N -> [Int -> Int]]
    BY <1>1, <2>1
  <2>4. \E g \in [0..N -> Int] : g[0] = a /\ \A n \in 1..N : g[n] = F[n][g[n - 1]]
    BY <2>3, TotalExists
  <2> QED BY <2>1, <2>2, <2>4
<1>4. PICK g \in [0..Len(levels) -> Int] : g[0] = 0 /\ \A n \in 1..Len(levels) : g[n] = F[n][g[n - 1]]
  BY <1>3
<1>5. ASSUME NEW n \in 0..Len(levels) PROVE g[n] = IF n = 0 THEN 0 ELSE g[n - 1] + levels[n][2]
  <2>1. CASE n = 0
    BY <1>4, <2>1
  <2>2. CASE n # 0
    <3>1. n \in 1..Len(levels) /\ g[n - 1] \in Int
      BY <1>0, <2>2
    <3> QED BY <1>2, <1>4, <2>2, <3>1
  <2> QED BY <2>1, <2>2
<1>6. IsVisible(g, levels)
  BY <1>5 DEF IsVisible
<1>7. PICK v : v = VisibleTo(levels) /\ IsVisible(v, levels)
  BY <1>6 DEF VisibleTo
<1>8. /\ DOMAIN v = 0..Len(levels) /\ v = [n \in DOMAIN v |-> v[n]]
      /\ \A n \in 0..Len(levels) : v[n] = IF n = 0 THEN 0 ELSE v[n - 1] + levels[n][2]
  BY <1>7 DEF IsVisible
<1>9. v[0] = 0 /\ \A n \in 1..Len(levels) : v[n] = v[n - 1] + levels[n][2]
  <2>1. 0 \in 0..Len(levels) /\ \A n \in 1..Len(levels) : n \in 0..Len(levels) /\ n # 0
    BY <1>0
  <2> QED BY <1>8, <2>1
<1>10. v[0] \in Int /\ \A n \in 1..Len(levels) : v[n - 1] \in Int => v[n] \in Int
  BY <1>0, <1>9
<1>11. v \in [0..Len(levels) -> Int]
  BY <1>0, <1>8, <1>10, ChainKind
<1> QED BY <1>7, <1>9, <1>11

LEMMA WalkSteps ==
  ASSUME NEW levels \in Depths, NEW qty \in Int
  PROVE  /\ WalkTo(levels, qty)[0] = [filled |-> 0, cost |-> 0]
         /\ WalkTo(levels, qty) \in [0..Len(levels) -> Walked]
         /\ \A n \in 1..Len(levels) :
               WalkTo(levels, qty)[n] = Take(qty, WalkTo(levels, qty)[n - 1], levels[n])
<1> DEFINE F == [n \in 1..Len(levels) |-> [w \in Walked |-> Take(qty, w, levels[n])]]
<1>0. [filled |-> 0, cost |-> 0] \in Walked
  BY DEF Walked
<1>1. PICK zero \in Walked : zero = [filled |-> 0, cost |-> 0]
  BY <1>0
<1>2. PICK N \in Nat : N = Len(levels) /\ \A n \in 1..N : levels[n][1] \in Int /\ levels[n][2] \in Int
  BY LevelKind
<1>3. \A n \in 1..N, w \in Walked : Take(qty, w, levels[n]) \in Walked
  BY <1>2, TakeKind
<1>4. F \in [1..N -> [Walked -> Walked]]
  BY <1>2, <1>3
<1>5. \A n \in 1..N, w \in Walked : F[n][w] = Take(qty, w, levels[n])
  BY <1>2
<1> HIDE DEF F
<1>6. PICK g \in [0..N -> Walked] : g[0] = zero /\ \A n \in 1..N : g[n] = F[n][g[n - 1]]
  BY <1>4, ChainExists
<1>7. ASSUME NEW n \in 0..N PROVE g[n] = IF n = 0 THEN zero ELSE Take(qty, g[n - 1], levels[n])
  <2>1. CASE n = 0
    BY <1>6, <2>1
  <2>2. CASE n # 0
    <3>1. n \in 1..N /\ g[n - 1] \in Walked
      BY <2>2
    <3> QED BY <1>5, <1>6, <2>2, <3>1
  <2> QED BY <2>1, <2>2
<1>8. IsWalk(g, levels, qty)
  BY <1>1, <1>2, <1>7 DEF IsWalk
<1>9. PICK v : v = WalkTo(levels, qty) /\ IsWalk(v, levels, qty)
  BY <1>8 DEF WalkTo
<1>10. /\ DOMAIN v = 0..N /\ v = [n \in DOMAIN v |-> v[n]]
       /\ \A n \in 0..N : v[n] = IF n = 0 THEN zero ELSE Take(qty, v[n - 1], levels[n])
  BY <1>1, <1>2, <1>9 DEF IsWalk
<1>11. v[0] = zero /\ \A n \in 1..N : v[n] = Take(qty, v[n - 1], levels[n])
  <2>1. 0 \in 0..N /\ \A n \in 1..N : n \in 0..N /\ n # 0
    OBVIOUS
  <2> QED BY <1>10, <2>1
<1>12. v[0] \in Walked /\ \A n \in 1..N : v[n - 1] \in Walked => v[n] \in Walked
  BY <1>3, <1>11
<1>13. v \in [0..N -> Walked]
  BY <1>10, <1>12, ChainKind
<1> QED BY <1>1, <1>2, <1>9, <1>11, <1>13

LEMMA ExecutableSteps ==
  ASSUME NEW levels \in Depths, NEW side, NEW limit \in Int
  PROVE  /\ ExecutableTo(levels, side, limit)[0] = [qty |-> 0, cost |-> 0, stop |-> FALSE]
         /\ ExecutableTo(levels, side, limit) \in [0..Len(levels) -> Taking]
         /\ \A n \in 1..Len(levels) :
               ExecutableTo(levels, side, limit)[n]
                  = TakeAll(side, limit, ExecutableTo(levels, side, limit)[n - 1], levels[n])
<1> DEFINE F == [n \in 1..Len(levels) |-> [w \in Taking |-> TakeAll(side, limit, w, levels[n])]]
<1>0. [qty |-> 0, cost |-> 0, stop |-> FALSE] \in Taking
  BY DEF Taking
<1>1. PICK zero \in Taking : zero = [qty |-> 0, cost |-> 0, stop |-> FALSE]
  BY <1>0
<1>2. PICK N \in Nat : N = Len(levels) /\ \A n \in 1..N : levels[n][1] \in Int /\ levels[n][2] \in Int
  BY LevelKind
<1>3. \A n \in 1..N, w \in Taking : TakeAll(side, limit, w, levels[n]) \in Taking
  BY <1>2, TakeAllKind
<1>4. F \in [1..N -> [Taking -> Taking]]
  BY <1>2, <1>3
<1>5. \A n \in 1..N, w \in Taking : F[n][w] = TakeAll(side, limit, w, levels[n])
  BY <1>2
<1> HIDE DEF F
<1>6. PICK g \in [0..N -> Taking] : g[0] = zero /\ \A n \in 1..N : g[n] = F[n][g[n - 1]]
  BY <1>4, ChainExists
<1>7. ASSUME NEW n \in 0..N PROVE g[n] = IF n = 0 THEN zero ELSE TakeAll(side, limit, g[n - 1], levels[n])
  <2>1. CASE n = 0
    BY <1>6, <2>1
  <2>2. CASE n # 0
    <3>1. n \in 1..N /\ g[n - 1] \in Taking
      BY <2>2
    <3> QED BY <1>5, <1>6, <2>2, <3>1
  <2> QED BY <2>1, <2>2
<1>8. IsExecutable(g, levels, side, limit)
  BY <1>1, <1>2, <1>7 DEF IsExecutable
<1>9. PICK v : v = ExecutableTo(levels, side, limit) /\ IsExecutable(v, levels, side, limit)
  BY <1>8 DEF ExecutableTo
<1>10. /\ DOMAIN v = 0..N /\ v = [n \in DOMAIN v |-> v[n]]
       /\ \A n \in 0..N : v[n] = IF n = 0 THEN zero ELSE TakeAll(side, limit, v[n - 1], levels[n])
  BY <1>1, <1>2, <1>9 DEF IsExecutable
<1>11. v[0] = zero /\ \A n \in 1..N : v[n] = TakeAll(side, limit, v[n - 1], levels[n])
  <2>1. 0 \in 0..N /\ \A n \in 1..N : n \in 0..N /\ n # 0
    OBVIOUS
  <2> QED BY <1>10, <2>1
<1>12. v[0] \in Taking /\ \A n \in 1..N : v[n - 1] \in Taking => v[n] \in Taking
  BY <1>3, <1>11
<1>13. v \in [0..N -> Taking]
  BY <1>10, <1>12, ChainKind
<1> QED BY <1>1, <1>2, <1>9, <1>11, <1>13

LEMMA VisibleGrows ==
  ASSUME NEW levels \in Depths
  PROVE  /\ \A n \in 0..Len(levels) : VisibleTo(levels)[n] \in Nat /\ (n > 0 => VisibleTo(levels)[n] > 0)
         /\ Visible(levels) = VisibleTo(levels)[Len(levels)] /\ Visible(levels) \in Nat \ {0}
<1>1. PICK N \in Nat \ {0} : N = Len(levels) /\ \A n \in 1..N : levels[n][2] \in Nat \ {0}
  BY LevelKind
<1>2. PICK v \in [0..N -> Int] : /\ v = VisibleTo(levels) /\ v[0] = 0
                                 /\ \A n \in 1..N : v[n] = v[n - 1] + levels[n][2]
  BY <1>1, VisibleSteps
<1> DEFINE P == {n \in 0..N : v[n] \in Nat /\ (n > 0 => v[n] > 0)}
<1>3. 0 \in P /\ \A n \in 1..N : n - 1 \in P => n \in P
  <2>1. 0 \in P
    BY <1>1, <1>2
  <2>2. ASSUME NEW n \in 1..N, n - 1 \in P PROVE n \in P
    <3>1. v[n - 1] \in Nat /\ n \in 0..N
      BY <2>2
    <3>2. levels[n][2] \in Nat \ {0} /\ v[n] = v[n - 1] + levels[n][2]
      BY <1>1, <1>2
    <3>3. v[n] \in Nat /\ v[n] > 0
      BY <3>1, <3>2
    <3> QED BY <3>1, <3>3
  <2> QED BY <2>1, <2>2
<1> HIDE DEF P
<1>4. \A n \in 0..N : n \in P
  BY <1>3, Upwards
<1>5. \A n \in 0..N : v[n] \in Nat /\ (n > 0 => v[n] > 0)
  BY <1>4 DEF P
<1>6. v[N] \in Nat \ {0}
  BY <1>5
<1>7. Visible(levels) = v[N]
  BY <1>1, <1>2, Recursions
<1> QED BY <1>1, <1>2, <1>5, <1>6, <1>7

(* A walk takes what was asked for, as far as the book goes *)
LEMMA WalkFills ==
  ASSUME NEW levels \in Depths, NEW qty \in Nat, NEW n \in 0..Len(levels)
  PROVE  WalkTo(levels, qty)[n].filled
            = IF qty <= VisibleTo(levels)[n] THEN qty ELSE VisibleTo(levels)[n]
<1>1. Len(levels) \in Nat
  BY LevelKind
<1>2. PICK v : v = VisibleTo(levels)
  OBVIOUS
<1>3. PICK w : w = WalkTo(levels, qty)
  OBVIOUS
<1>4. \A k \in 1..Len(levels) : levels[k][2] \in Nat /\ levels[k][1] \in Nat
  BY LevelKind
<1>5. v[0] = 0 /\ \A k \in 1..Len(levels) : v[k] = v[k - 1] + levels[k][2]
  BY <1>2, VisibleSteps
<1>6. \A k \in 0..Len(levels) : v[k] \in Nat
  BY <1>2, VisibleGrows
<1>7. w[0] = [filled |-> 0, cost |-> 0] /\ w \in [0..Len(levels) -> Walked]
  BY <1>3, WalkSteps
<1>8. \A k \in 1..Len(levels) : w[k] = Take(qty, w[k - 1], levels[k])
  BY <1>3, WalkSteps
<1> DEFINE P == {k \in 0..Len(levels) : w[k].filled = IF qty <= v[k] THEN qty ELSE v[k]}
<1>9. 0 \in P
  BY <1>1, <1>5, <1>7
<1>10. ASSUME NEW k \in 1..Len(levels), k - 1 \in P PROVE k \in P
  <2>1. /\ k - 1 \in 0..Len(levels) /\ k \in 0..Len(levels) /\ v[k] = v[k - 1] + levels[k][2]
        /\ levels[k][2] \in Nat /\ levels[k][1] \in Nat
    BY <1>1, <1>4, <1>5
  <2>2. PICK x \in Walked : x = w[k - 1]
    BY <1>7, <2>1
  <2>3. PICK a \in Nat : a = v[k - 1]
    BY <1>6, <2>1
  <2>4. x.filled = (IF qty <= a THEN qty ELSE a)
    BY <1>10, <2>2, <2>3
  <2>5. PICK t : t = IF qty - x.filled <= levels[k][2] THEN qty - x.filled ELSE levels[k][2]
    OBVIOUS
  <2>6. t \in Nat /\ levels[k][2] \in Nat /\ levels[k][1] \in Nat
    BY <2>1, <2>4, <2>5
  <2>7. w[k] = Take(qty, x, levels[k])
    BY <1>8, <2>2
  <2>8. Take(qty, x, levels[k]).filled = x.filled + t
    <3>1. PICK level : level = levels[k]
      OBVIOUS
    <3>2. level[1] \in Int /\ level[2] \in Int /\ t \in Int
      BY <2>6, <3>1
    <3>3. t = IF qty - x.filled <= level[2] THEN qty - x.filled ELSE level[2]
      BY <2>5, <3>1
    <3> HIDE <2>1, <2>2, <2>3, <2>4, <2>5, <2>6, <2>7
    <3>4. Take(qty, x, level).filled = x.filled + t
      BY <3>2, <3>3, TakeFields
    <3> QED BY <3>1, <3>4
  <2>9. v[k] = a + levels[k][2]
    BY <2>1, <2>3
  <2>10. x.filled + t = IF qty <= a + levels[k][2] THEN qty ELSE a + levels[k][2]
    BY <2>4, <2>5, <2>6
  <2>11. w[k].filled = IF qty <= v[k] THEN qty ELSE v[k]
    BY <2>7, <2>8, <2>9, <2>10
  <2> QED BY <2>1, <2>11
<1> HIDE DEF P
<1>11. \A k \in 0..Len(levels) : k \in P
  BY <1>1, <1>9, <1>10, Upwards
<1>12. n \in P
  BY <1>11
<1> QED BY <1>2, <1>3, <1>12 DEF P

CostTo(levels, qty, n) == WalkTo(levels, qty)[n].cost

(* What the n-th level adds to the cost *)
LEMMA CostStep ==
  ASSUME NEW levels \in Depths, NEW qty \in Nat, NEW n \in 1..Len(levels),
         NEW v \in Nat, v = VisibleTo(levels)[n - 1]
  PROVE  /\ CostTo(levels, qty, n - 1) \in Int /\ CostTo(levels, qty, n) \in Int
         /\ VisibleTo(levels)[n] = v + levels[n][2]
         /\ \E taken \in Nat :
               /\ CostTo(levels, qty, n) = CostTo(levels, qty, n - 1) + taken * levels[n][1]
               /\ WalkTo(levels, qty)[n].filled = WalkTo(levels, qty)[n - 1].filled + taken
               /\ taken = IF qty <= v THEN 0 ELSE IF qty <= v + levels[n][2] THEN qty - v ELSE levels[n][2]
<1>1. Len(levels) \in Nat /\ levels[n][2] \in Nat /\ levels[n][1] \in Nat
  BY LevelKind
<1>2. n \in 0..Len(levels) /\ n - 1 \in 0..Len(levels)
  BY <1>1
<1>3. WalkTo(levels, qty)[n - 1] \in Walked /\ WalkTo(levels, qty)[n] \in Walked
  <2>1. WalkTo(levels, qty) \in [0..Len(levels) -> Walked]
    BY WalkSteps
  <2> QED BY <1>2, <2>1
<1>4. PICK x \in Walked : x = WalkTo(levels, qty)[n - 1]
  BY <1>3
<1>5. PICK y \in Walked : y = WalkTo(levels, qty)[n]
  BY <1>3
<1>6. y = Take(qty, x, levels[n])
  BY <1>4, <1>5, WalkSteps
<1>7. x.filled = IF qty <= v THEN qty ELSE v
  BY <1>2, <1>4, WalkFills
<1>8. PICK t : t = IF qty - x.filled <= levels[n][2] THEN qty - x.filled ELSE levels[n][2]
  OBVIOUS
<1>9. t \in Nat /\ t = IF qty <= v THEN 0 ELSE IF qty <= v + levels[n][2] THEN qty - v ELSE levels[n][2]
  BY <1>1, <1>7, <1>8
<1>10. y.filled = x.filled + t /\ y.cost = x.cost + t * levels[n][1]
  BY <1>1, <1>6, <1>8, <1>9, TakeFields
<1>11. x.cost \in Int /\ y.cost \in Int
  BY DEF Walked
<1>12. VisibleTo(levels)[n] = v + levels[n][2]
  BY VisibleSteps
<1> QED BY <1>4, <1>5, <1>9, <1>10, <1>11, <1>12 DEF CostTo

LEMMA CostMore ==
  ASSUME NEW levels \in Depths, NEW qty \in Nat, NEW n \in 1..Len(levels)
  PROVE  \E v \in Nat, taken \in Nat :
            /\ v = VisibleTo(levels)[n - 1]
            /\ CostTo(levels, qty, n) = CostTo(levels, qty, n - 1) + taken * levels[n][1]
            /\ WalkTo(levels, qty)[n].filled = WalkTo(levels, qty)[n - 1].filled + taken
            /\ taken = IF qty <= v THEN 0 ELSE IF qty <= v + levels[n][2] THEN qty - v ELSE levels[n][2]
<1>1. Len(levels) \in Nat
  BY LevelKind
<1>2. n - 1 \in 0..Len(levels)
  BY <1>1
<1>3. PICK v \in Nat : v = VisibleTo(levels)[n - 1]
  BY <1>2, VisibleGrows
<1>4. PICK taken \in Nat :
            /\ CostTo(levels, qty, n) = CostTo(levels, qty, n - 1) + taken * levels[n][1]
            /\ WalkTo(levels, qty)[n].filled = WalkTo(levels, qty)[n - 1].filled + taken
            /\ taken = IF qty <= v THEN 0 ELSE IF qty <= v + levels[n][2] THEN qty - v ELSE levels[n][2]
  BY <1>3, CostStep
<1> QED BY <1>3, <1>4

LEMMA TimesNat == ASSUME NEW x \in Nat, NEW y \in Nat PROVE x * y \in Nat /\ (x > 0 /\ y > 0 => x * y > 0)
OBVIOUS

LEMMA Quotients ==
  ASSUME NEW n \in Int, NEW d \in Nat \ {0}
  PROVE  n \div d \in Int /\ d * (n \div d) <= n /\ n < d * (n \div d) + d
OBVIOUS

LEMMA TimesLess ==
  ASSUME NEW x \in Int, NEW y \in Int, NEW z \in Nat, x <= y
  PROVE  x * z <= y * z /\ (x < y /\ z > 0 => x * z < y * z)
<1>1. PICK d \in Nat : d = y - x
  OBVIOUS
<1>2. d * z \in Nat /\ (d > 0 /\ z > 0 => d * z > 0)
  BY TimesNat
<1>3. y = x + d /\ y * z = x * z + d * z
  BY <1>1
<1> QED BY <1>1, <1>2, <1>3

(* Adding what lies beyond a bound to what lies beyond it *)
LEMMA BoundMore ==
  ASSUME NEW sign \in {1, -1}, NEW bound \in Int, NEW cost \in Int, NEW filled \in Int,
         NEW more \in Nat, NEW price \in Int,
         sign * (cost - bound * filled) >= 0, sign * (price - bound) >= 0
  PROVE  sign * (cost + more * price - bound * (filled + more)) >= 0
<1>1. bound * (filled + more) = bound * filled + more * bound
  OBVIOUS
<1>2. CASE sign = 1
  <2>1. more * bound <= more * price
    BY <1>2, TimesLess
  <2> QED BY <1>1, <1>2, <2>1
<1>3. CASE sign = -1
  <2>1. price * more <= bound * more
    BY <1>3, TimesLess
  <2> QED BY <1>1, <1>3, <2>1
<1> QED BY <1>2, <1>3

LEMMA CostBound ==
  ASSUME NEW levels \in Depths, NEW qty \in Nat, NEW sign \in {1, -1}, NEW bound \in Int,
         \A k \in 1..Len(levels) : sign * (levels[k][1] - bound) >= 0, NEW n \in 0..Len(levels)
  PROVE  /\ CostTo(levels, qty, n) \in Int
         /\ sign * (CostTo(levels, qty, n) - bound * WalkTo(levels, qty)[n].filled) >= 0
<1> DEFINE Holds(k) == /\ CostTo(levels, qty, k) \in Int /\ WalkTo(levels, qty)[k].filled \in Int
                       /\ sign * (CostTo(levels, qty, k) - bound * WalkTo(levels, qty)[k].filled) >= 0
           P == {k \in 0..Len(levels) : Holds(k)}
<1>1. Len(levels) \in Nat
  BY LevelKind
<1>2. 0 \in P
  <2>1. CostTo(levels, qty, 0) = 0 /\ WalkTo(levels, qty)[0].filled = 0
    BY WalkSteps DEF CostTo
  <2>2. sign * (0 - bound * 0) = 0
    OBVIOUS
  <2> QED BY <1>1, <2>1, <2>2
<1>3. ASSUME NEW k \in 1..Len(levels), k - 1 \in P PROVE k \in P
  <2>1. k - 1 \in 0..Len(levels) /\ k \in 0..Len(levels) /\ levels[k][1] \in Int
    BY <1>1, LevelKind
  <2>2. \E v \in Nat, taken \in Nat :
            /\ v = VisibleTo(levels)[k - 1]
            /\ CostTo(levels, qty, k) = CostTo(levels, qty, k - 1) + taken * levels[k][1]
            /\ WalkTo(levels, qty)[k].filled = WalkTo(levels, qty)[k - 1].filled + taken
            /\ taken = IF qty <= v THEN 0 ELSE IF qty <= v + levels[k][2] THEN qty - v ELSE levels[k][2]
    BY CostMore
  <2>3. PICK taken \in Nat :
            /\ CostTo(levels, qty, k) = CostTo(levels, qty, k - 1) + taken * levels[k][1]
            /\ WalkTo(levels, qty)[k].filled = WalkTo(levels, qty)[k - 1].filled + taken
    BY <2>2
  <2>4. Holds(k - 1)
    BY <1>3
  <2>5. PICK c \in Int : c = CostTo(levels, qty, k - 1)
    BY <2>4
  <2>6. PICK f \in Int : f = WalkTo(levels, qty)[k - 1].filled
    BY <2>4
  <2>7. PICK p \in Int : p = levels[k][1]
    BY <2>1
  <2>8. sign * (c - bound * f) >= 0 /\ sign * (p - bound) >= 0
    BY <2>4, <2>5, <2>6, <2>7
  <2>9. sign * (c + taken * p - bound * (f + taken)) >= 0
    BY <2>8, BoundMore
  <2>b. PICK c2 \in Int : c2 = c + taken * p
    OBVIOUS
  <2>c. CostTo(levels, qty, k) = c2 /\ WalkTo(levels, qty)[k].filled = f + taken
    BY <2>3, <2>5, <2>6, <2>7, <2>b
  <2>d. sign * (c2 - bound * (f + taken)) >= 0
    BY <2>9, <2>b
  <2>10. Holds(k)
    BY <2>c, <2>d
  <2> QED BY <2>1, <2>10
<1> HIDE DEF P
<1>4. \A k \in 0..Len(levels) : k \in P
  BY <1>1, <1>2, <1>3, Upwards
<1>5. n \in P
  BY <1>4
<1> QED BY <1>5 DEF P

(* Of the level that would be one too many, what is taken keeps the cost within the limit *)
LEMMA RoomFits ==
  ASSUME NEW spare \in Nat, NEW excess \in Int, NEW more \in Nat, NEW size \in Nat,
         \/ more <= size /\ size * excess <= spare
         \/ excess > 0 /\ more <= spare \div excess
         \/ more = 0
  PROVE  more * excess <= spare
<1>1. CASE more = 0
  BY <1>1
<1>2. CASE excess <= 0
  <2>1. excess * more <= 0 * more
    BY <1>2, TimesLess
  <2> QED BY <2>1
<1>3. CASE excess > 0 /\ more <= size /\ size * excess <= spare
  <2>1. more * excess <= size * excess
    BY <1>3, TimesLess
  <2>2. more * excess \in Int /\ size * excess \in Int
    BY <1>3
  <2> QED BY <1>3, <2>1, <2>2
<1>4. CASE excess > 0 /\ more <= spare \div excess
  <2>1. PICK r \in Int : r = spare \div excess /\ r * excess <= spare
    <3>1. PICK e \in Nat \ {0} : e = excess
      BY <1>4
    <3>2. spare \div e \in Int /\ e * (spare \div e) <= spare
      BY Quotients
    <3>3. PICK r \in Int : r = spare \div e
      BY <3>2
    <3>4. e * r = r * e
      OBVIOUS
    <3> QED BY <3>1, <3>2, <3>3, <3>4
  <2>2. more * excess <= r * excess
    BY <1>4, <2>1, TimesLess
  <2>3. more * excess \in Int /\ r * excess \in Int
    BY <1>4
  <2> QED BY <2>1, <2>2, <2>3
<1> QED BY <1>1, <1>2, <1>3, <1>4

LEMMA CostParts ==
  ASSUME NEW levels \in Depths, NEW n \in 1..Len(levels)
  PROVE  \E v \in Nat, p \in Nat, s \in Nat \ {0} :
            /\ v = VisibleTo(levels)[n - 1] /\ p = levels[n][1] /\ s = levels[n][2]
            /\ \A q \in Nat :
                  /\ CostTo(levels, q, n - 1) \in Int
                  /\ q <= v => CostTo(levels, q, n) = CostTo(levels, q, n - 1)
                  /\ v <= q /\ q <= v + s => CostTo(levels, q, n) = CostTo(levels, q, n - 1) + (q - v) * p
                  /\ q >= v + s => CostTo(levels, q, n) = CostTo(levels, q, n - 1) + s * p
<1>a. Len(levels) \in Nat
  BY LevelKind
<1>b. n - 1 \in 0..Len(levels)
  BY <1>a
<1>c. PICK v \in Nat : v = VisibleTo(levels)[n - 1]
  BY <1>b, VisibleGrows
<1>3. PICK p \in Nat, s \in Nat \ {0} : p = levels[n][1] /\ s = levels[n][2]
  BY LevelKind
<1> SUFFICES ASSUME NEW q \in Nat
             PROVE  /\ CostTo(levels, q, n - 1) \in Int
                    /\ q <= v => CostTo(levels, q, n) = CostTo(levels, q, n - 1)
                    /\ v <= q /\ q <= v + s
                          => CostTo(levels, q, n) = CostTo(levels, q, n - 1) + (q - v) * p
                    /\ q >= v + s => CostTo(levels, q, n) = CostTo(levels, q, n - 1) + s * p
  BY <1>c, <1>3
<1>1. CostTo(levels, q, n - 1) \in Int
  BY <1>c, CostStep
<1>2. \E taken \in Nat :
         /\ CostTo(levels, q, n) = CostTo(levels, q, n - 1) + taken * levels[n][1]
         /\ taken = IF q <= v THEN 0 ELSE IF q <= v + levels[n][2] THEN q - v ELSE levels[n][2]
  <2>1. \E u \in Nat, taken \in Nat :
         /\ u = VisibleTo(levels)[n - 1]
         /\ CostTo(levels, q, n) = CostTo(levels, q, n - 1) + taken * levels[n][1]
         /\ WalkTo(levels, q)[n].filled = WalkTo(levels, q)[n - 1].filled + taken
         /\ taken = IF q <= u THEN 0 ELSE IF q <= u + levels[n][2] THEN q - u ELSE levels[n][2]
    BY CostMore
  <2> QED BY <1>c, <2>1
<1>4. PICK c \in Int : c = CostTo(levels, q, n - 1)
  BY <1>1
<1>5. PICK t \in Nat : /\ CostTo(levels, q, n) = c + t * p
                       /\ t = IF q <= v THEN 0 ELSE IF q <= v + s THEN q - v ELSE s
  BY <1>2, <1>3, <1>4
<1>6. CASE q <= v
  <2>1. t = 0 /\ t * p = 0
    BY <1>5, <1>6
  <2>2. q = v => (q - v) * p = 0
    OBVIOUS
  <2>3. q >= v + s => s = 0 /\ s * p = 0
    BY <1>6
  <2> QED BY <1>3, <1>4, <1>5, <1>6, <2>1, <2>2, <2>3
<1>7. CASE q > v /\ q <= v + s
  <2>1. t = q - v
    BY <1>5, <1>7
  <2>2. q >= v + s => t = s
    BY <1>7, <2>1
  <2> QED BY <1>3, <1>4, <1>5, <1>7, <2>1, <2>2
<1>8. CASE q > v + s
  <2>1. t = s
    BY <1>5, <1>8
  <2> QED BY <1>3, <1>4, <1>5, <1>8, <2>1
<1> QED BY <1>6, <1>7, <1>8

Within(levels, sign, limit, q, n) == sign * (CostTo(levels, q, n) * Bps - limit * q) <= 0

(* What may be executed is there, and any part of it costs no more than the limit allows *)
ExecutableOK(levels, side, limit, n) ==
    LET w == ExecutableTo(levels, side, limit)[n]  v == VisibleTo(levels)[n] IN
    /\ w.qty \in 0..v
    /\ \A q \in 0..w.qty : Within(levels, Sign(side), limit, q, n)
    /\ ~w.stop => w.qty = v /\ \A q \in Nat : q >= v => CostTo(levels, q, n) = w.cost

(* t more of a level at p, after v for c *)
LEMMA InsideIff ==
  ASSUME NEW sign \in {1, -1}, NEW b \in Int, NEW limit \in Int, NEW c \in Int, NEW v \in Int,
         NEW p \in Int, NEW t \in Int,
         NEW excess \in Int, excess = sign * (p * b - limit), NEW spare \in Int, spare = sign * (limit * v - c * b)
  PROVE  sign * ((c + t * p) * b - limit * (v + t)) <= 0 <=> t * excess <= spare
<1>2. PICK pb \in Int : pb = p * b
  OBVIOUS
<1>3. PICK cb \in Int : cb = c * b
  OBVIOUS
<1>4. (c + t * p) * b = cb + t * pb
  BY <1>2, <1>3
<1>5. limit * (v + t) = limit * v + t * limit
  OBVIOUS
<1>6. t * (pb - limit) = t * pb - t * limit /\ t * (-1 * (pb - limit)) = t * limit - t * pb
  OBVIOUS
<1>7. PICK tp \in Int, tl \in Int, lv \in Int : tp = t * pb /\ tl = t * limit /\ lv = limit * v
  OBVIOUS
<1>8. CASE sign = 1
  <2>1. sign * (pb - limit) = pb - limit
    BY <1>8
  <2> QED BY <1>2, <1>3, <1>4, <1>5, <1>6, <1>7, <1>8, <2>1
<1>9. CASE sign = -1
  <2>1. sign * (pb - limit) = -1 * (pb - limit)
    BY <1>9
  <2> QED BY <1>2, <1>3, <1>4, <1>5, <1>6, <1>7, <1>9, <2>1
<1> QED BY <1>8, <1>9

LEMMA NotBelowZero ==
  ASSUME NEW r \in Int PROVE Max({0, r}) \in Nat /\ (Max({0, r}) = 0 \/ Max({0, r}) = r)
<1>1. Max({0, r}) = IF 0 >= r THEN 0 ELSE r
  BY LeastOfTwo
<1> QED BY <1>1

LEMMA ExecutableStep ==
  ASSUME NEW levels \in Depths, NEW side \in Sides, NEW limit \in Int, NEW n \in 1..Len(levels),
         ExecutableOK(levels, side, limit, n - 1)
  PROVE  ExecutableOK(levels, side, limit, n)
<1>1. Len(levels) \in Nat /\ n - 1 \in 0..Len(levels) /\ n \in 0..Len(levels)
  BY LevelKind
<1>a. PICK v \in Nat, p \in Nat, s \in Nat \ {0} :
         /\ v = VisibleTo(levels)[n - 1] /\ p = levels[n][1] /\ s = levels[n][2]
         /\ \A q \in Nat :
               /\ CostTo(levels, q, n - 1) \in Int
               /\ q <= v => CostTo(levels, q, n) = CostTo(levels, q, n - 1)
               /\ v <= q /\ q <= v + s => CostTo(levels, q, n) = CostTo(levels, q, n - 1) + (q - v) * p
               /\ q >= v + s => CostTo(levels, q, n) = CostTo(levels, q, n - 1) + s * p
  BY CostParts
<1>2. p = levels[n][1] /\ s = levels[n][2]
  BY <1>a
<1>3. PICK sign \in {1, -1} : sign = Sign(side)
  BY DEF Sign
<1>4. v = VisibleTo(levels)[n - 1]
  BY <1>a
<1>5. VisibleTo(levels)[n] = v + s
  BY <1>2, <1>4, VisibleSteps
<1>6. ExecutableTo(levels, side, limit) \in [0..Len(levels) -> Taking]
  BY ExecutableSteps
<1>7. PICK w \in Taking : w = ExecutableTo(levels, side, limit)[n - 1]
  BY <1>1, <1>6
<1>8. PICK y : y = ExecutableTo(levels, side, limit)[n]
  OBVIOUS
<1>9. y = TakeAll(side, limit, w, levels[n])
  BY <1>7, <1>8, ExecutableSteps
<1>10. \A q \in Nat :
          /\ CostTo(levels, q, n - 1) \in Int
          /\ q <= v => CostTo(levels, q, n) = CostTo(levels, q, n - 1)
          /\ v <= q /\ q <= v + s => CostTo(levels, q, n) = CostTo(levels, q, n - 1) + (q - v) * p
          /\ q >= v + s => CostTo(levels, q, n) = CostTo(levels, q, n - 1) + s * p
  BY <1>a
<1>11. /\ w.qty \in 0..v
       /\ \A q \in 0..w.qty : Within(levels, sign, limit, q, n - 1)
       /\ ~w.stop => w.qty = v /\ \A q \in Nat : q >= v => CostTo(levels, q, n - 1) = w.cost
  BY <1>3, <1>4, <1>7 DEF ExecutableOK
<1>12. SUFFICES /\ y.qty \in 0..(v + s)
                /\ \A q \in 0..y.qty : Within(levels, sign, limit, q, n)
                /\ ~y.stop => y.qty = v + s /\ \A q \in Nat : q >= v + s => CostTo(levels, q, n) = y.cost
  BY <1>3, <1>5, <1>8 DEF ExecutableOK
<1>13. ASSUME NEW q \in 0..w.qty PROVE Within(levels, sign, limit, q, n)
  <2>1. q \in Nat /\ q <= v
    BY <1>11
  <2> QED BY <1>10, <1>11, <2>1 DEF Within
<1>14. CASE w.stop
  <2>1. y = w
    BY <1>9, <1>14 DEF TakeAll
  <2> QED BY <1>11, <1>13, <1>14, <2>1
<1>15. CASE ~w.stop
  <2>1. w.qty = v /\ \A q \in Nat : q >= v => CostTo(levels, q, n - 1) = w.cost
    BY <1>11, <1>15
  <2>2. PICK c \in Int : c = w.cost
    BY DEF Taking
  <2>3. PICK b \in Int : b = Bps
    BY FillsAssumption
  <2>4. PICK spare \in Int : spare = sign * (limit * v - c * b)
    <3>1. limit * v \in Int /\ c * b \in Int
      OBVIOUS
    <3> QED BY <3>1
  <2>5. PICK excess \in Int : excess = sign * (p * b - limit)
    <3>1. p * b \in Int
      OBVIOUS
    <3> QED BY <3>1
  <2>6. ASSUME NEW t \in Nat, t <= s, t * excess <= spare
        PROVE  Within(levels, sign, limit, v + t, n)
    <3>1. CostTo(levels, v + t, n) = c + t * p
      <4>1. v + t \in Nat /\ v <= v + t /\ v + t <= v + s /\ (v + t) - v = t
        BY <2>6
      <4>2. CostTo(levels, v + t, n - 1) = c
        BY <2>1, <2>2, <4>1
      <4> QED BY <1>10, <4>1, <4>2
    <3>2. sign * ((c + t * p) * b - limit * (v + t)) <= 0
      <4>1. sign * ((c + t * p) * b - limit * (v + t)) <= 0 <=> t * excess <= spare
        BY <2>4, <2>5, InsideIff
      <4> QED BY <2>6, <4>1
    <3> QED BY <2>3, <3>1, <3>2 DEF Within
  <2>7. spare \in Nat
    <3>1. Within(levels, sign, limit, v, n - 1) /\ CostTo(levels, v, n - 1) = c
      BY <1>11, <2>1, <2>2
    <3>2. sign * (c * b - limit * v) <= 0
      BY <2>3, <3>1 DEF Within
    <3>3. PICK cb \in Int, lv \in Int : cb = c * b /\ lv = limit * v
      OBVIOUS
    <3> QED BY <2>4, <3>2, <3>3
  <2>8. CASE Inside(side, c + p * s, v + s, limit)
    <3>1. s * excess <= spare
      <4>1. p * s = s * p
        OBVIOUS
      <4>2. sign * ((c + s * p) * b - limit * (v + s)) <= 0
        BY <1>3, <2>3, <2>8, <4>1 DEF Inside
      <4>3. sign * ((c + s * p) * b - limit * (v + s)) <= 0 <=> s * excess <= spare
        BY <2>4, <2>5, InsideIff
      <4> QED BY <4>2, <4>3
    <3>2. y = [w EXCEPT !.qty = v + s, !.cost = c + p * s]
      BY <1>2, <1>9, <1>15, <2>1, <2>2, <2>8 DEF TakeAll
    <3>3. y.qty = v + s /\ y.cost = c + p * s
      BY <3>2 DEF Taking
    <3>4. ASSUME NEW q \in 0..y.qty PROVE Within(levels, sign, limit, q, n)
      <4>1. CASE q <= v
        BY <1>13, <2>1, <4>1
      <4>2. CASE q > v
        <5>1. PICK t \in Nat : q = v + t /\ t <= s
          BY <3>3, <4>2
        <5>2. t * excess <= spare
          BY <2>7, <3>1, <5>1, RoomFits
        <5> QED BY <2>6, <5>1, <5>2
      <4> QED BY <4>1, <4>2
    <3>5. ASSUME NEW q \in Nat, q >= v + s PROVE CostTo(levels, q, n) = y.cost
      <4>1. CostTo(levels, q, n - 1) = c /\ CostTo(levels, q, n) = CostTo(levels, q, n - 1) + s * p
        BY <1>10, <2>1, <2>2, <3>5
      <4>2. p * s = s * p
        OBVIOUS
      <4> QED BY <3>3, <4>1, <4>2
    <3> QED BY <3>3, <3>4, <3>5
  <2>9. CASE ~Inside(side, c + p * s, v + s, limit)
    <3>1. PICK room : room = Room(side, p, w, limit)
      OBVIOUS
    <3>2. room = IF excess > 0 THEN Max({0, spare \div excess}) ELSE 0
      BY <1>3, <2>1, <2>2, <2>3, <2>4, <2>5, <3>1 DEF Room
    <3>3. room \in Nat /\ (room = 0 \/ (excess > 0 /\ room <= spare \div excess))
      <4>1. CASE excess > 0
        <5>1. PICK e \in Nat \ {0} : e = excess
          BY <4>1
        <5>2. PICK r \in Int : r = spare \div e
          BY Quotients
        <5>3. Max({0, r}) \in Nat /\ (Max({0, r}) = 0 \/ Max({0, r}) = r)
          BY NotBelowZero
        <5>4. room = Max({0, r})
          BY <3>2, <4>1, <5>1, <5>2
        <5>5. room \in Nat /\ (room = 0 \/ room = r)
          BY <5>3, <5>4
        <5> QED BY <4>1, <5>1, <5>2, <5>5
      <4>2. CASE ~(excess > 0)
        BY <3>2, <4>2
      <4> QED BY <4>1, <4>2
    <3>4. PICK m \in Nat : m = Min({s, room}) /\ m <= s /\ m <= room
      <4>1. Min({s, room}) = IF s <= room THEN s ELSE room
        BY <3>3, LeastOfTwo
      <4> QED BY <3>3, <4>1
    <3>5. y = [w EXCEPT !.qty = v + m, !.stop = TRUE]
      BY <1>2, <1>9, <1>15, <2>1, <2>2, <2>9, <3>1, <3>4 DEF TakeAll
    <3>6. y.qty = v + m /\ y.stop
      BY <3>5 DEF Taking
    <3>7. ASSUME NEW q \in 0..y.qty PROVE Within(levels, sign, limit, q, n)
      <4>1. CASE q <= v
        BY <1>13, <2>1, <4>1
      <4>2. CASE q > v
        <5>1. PICK t \in Nat : q = v + t /\ t <= m
          BY <3>6, <4>2
        <5>2. t = 0 \/ (excess > 0 /\ t <= spare \div excess)
          <6>1. CASE room = 0
            BY <3>4, <5>1, <6>1
          <6>2. CASE excess > 0 /\ room <= spare \div excess
            <7>1. PICK e \in Nat \ {0} : e = excess
              BY <6>2
            <7>2. PICK r \in Int : r = spare \div e
              BY Quotients
            <7> QED BY <3>3, <3>4, <5>1, <6>2, <7>1, <7>2
          <6> QED BY <3>3, <6>1, <6>2
        <5>3. t * excess <= spare
          BY <2>7, <5>2, RoomFits
        <5>4. t <= s
          BY <3>4, <5>1
        <5> QED BY <2>6, <5>1, <5>3, <5>4
      <4> QED BY <4>1, <4>2
    <3>8. y.qty \in 0..(v + s)
      BY <3>4, <3>6
    <3> QED BY <3>6, <3>7, <3>8
  <2> QED BY <2>8, <2>9
<1> QED BY <1>14, <1>15

LEMMA ExecutableFits ==
  ASSUME NEW levels \in Depths, NEW side \in Sides, NEW limit \in Int
  PROVE  ExecutableOK(levels, side, limit, Len(levels))
<1> DEFINE P == {n \in 0..Len(levels) : ExecutableOK(levels, side, limit, n)}
<1>1. Len(levels) \in Nat
  BY LevelKind
<1>2. ExecutableOK(levels, side, limit, 0)
  <2>1. PICK w : w = ExecutableTo(levels, side, limit)[0]
    OBVIOUS
  <2>2. w.qty = 0 /\ w.cost = 0 /\ VisibleTo(levels)[0] = 0
    BY <2>1, ExecutableSteps, VisibleSteps
  <2>3. \A q \in Nat : CostTo(levels, q, 0) = 0
    BY WalkSteps DEF CostTo
  <2>4. Bps \in Int /\ Sign(side) \in Int
    BY FillsAssumption DEF Sign
  <2>5. Within(levels, Sign(side), limit, 0, 0)
    <3>1. 0 * Bps - limit * 0 = 0
      BY <2>4
    <3> QED BY <2>3, <2>4, <3>1 DEF Within
  <2> QED BY <2>1, <2>2, <2>3, <2>5 DEF ExecutableOK
<1>3. ASSUME NEW n \in 1..Len(levels), n - 1 \in P PROVE n \in P
  BY <1>1, <1>3, ExecutableStep
<1>4. 0 \in P
  BY <1>1, <1>2
<1> HIDE DEF P
<1>5. \A n \in 0..Len(levels) : n \in P
  BY <1>1, <1>3, <1>4, Upwards
<1>6. Len(levels) \in P
  BY <1>1, <1>5
<1> QED BY <1>6 DEF P

(* Rounding to a tick is off by at most half of one *)
LEMMA NearestOff ==
  ASSUME NEW num \in Int, NEW den \in Nat \ {0}
  PROVE  /\ Nearest(num, den) \in Int
         /\ 2 * (den * Nearest(num, den)) <= 2 * num + den
         /\ 2 * num < 2 * (den * Nearest(num, den)) + den
<1>1. PICK n \in Int : n = 2 * num + den
  OBVIOUS
<1>2. PICK d \in Nat \ {0} : d = 2 * den
  OBVIOUS
<1>3. n \div d \in Int /\ d * (n \div d) <= n /\ n < d * (n \div d) + d
  BY Quotients
<1>4. PICK r \in Int : r = n \div d
  BY <1>3
<1>5. Nearest(num, den) = r
  BY <1>1, <1>2, <1>4 DEF Nearest
<1>6. d * r = 2 * (den * r)
  BY <1>2
<1>7. PICK m \in Int : m = den * r
  OBVIOUS
<1> QED BY <1>1, <1>2, <1>3, <1>4, <1>5, <1>6, <1>7

LEMMA AverageBeyond ==
  ASSUME NEW sign \in {1, -1}, NEW bound \in Int, NEW cost \in Int, NEW size \in Nat \ {0},
         sign * (cost - bound * size) >= 0
  PROVE  Nearest(cost, size) \in Int /\ sign * (Nearest(cost, size) - bound) >= 0
<1>1. PICK r \in Int : /\ r = Nearest(cost, size)
                       /\ 2 * (size * r) <= 2 * cost + size /\ 2 * cost < 2 * (size * r) + size
  BY NearestOff
<1>2. PICK m \in Int : m = size * r
  OBVIOUS
<1>3. PICK t \in Int : t = bound * size
  OBVIOUS
<1>4. ASSUME r < bound, sign = 1 PROVE FALSE
  <2>1. r * size <= (bound - 1) * size
    BY <1>4, TimesLess
  <2>2. r * size = m /\ (bound - 1) * size = t - size
    BY <1>2, <1>3
  <2> QED BY <1>1, <1>2, <1>3, <1>4, <2>1, <2>2
<1>5. ASSUME r > bound, sign = -1 PROVE FALSE
  <2>1. (bound + 1) * size <= r * size
    BY <1>5, TimesLess
  <2>2. r * size = m /\ (bound + 1) * size = t + size
    BY <1>2, <1>3
  <2> QED BY <1>1, <1>2, <1>3, <1>5, <2>1, <2>2
<1> QED BY <1>1, <1>4, <1>5

LEMMA AverageAtLeast ==
  ASSUME NEW bound \in Int, NEW cost \in Int, NEW size \in Nat \ {0}, cost >= bound * size
  PROVE  Nearest(cost, size) >= bound
<1>1. PICK r \in Int : r = Nearest(cost, size) /\ 2 * cost < 2 * (size * r) + size
  BY NearestOff
<1>2. ASSUME r < bound PROVE FALSE
  <2>1. r * size <= (bound - 1) * size
    BY <1>2, TimesLess
  <2>2. PICK m \in Int, t \in Int : m = size * r /\ t = bound * size
    OBVIOUS
  <2>3. r * size = m /\ (bound - 1) * size = t - size
    BY <2>2
  <2> QED BY <1>1, <2>1, <2>2, <2>3
<1> QED BY <1>1, <1>2

LEMMA AverageWithin ==
  ASSUME NEW sign \in {1, -1}, NEW b \in Nat \ {0}, NEW limit \in Int, NEW cost \in Int,
         NEW size \in Nat \ {0}, sign * (cost * b - limit * size) <= 0
  PROVE  2 * sign * (Nearest(cost, size) * b - limit) <= b
<1>1. PICK r \in Int : /\ r = Nearest(cost, size)
                       /\ 2 * (size * r) <= 2 * cost + size /\ 2 * cost < 2 * (size * r) + size
  BY NearestOff
<1>2. PICK m \in Int : m = size * r
  OBVIOUS
<1>3. PICK mb \in Int, cb \in Int, sb \in Int, rb \in Int, ls \in Int :
         mb = m * b /\ cb = cost * b /\ sb = size * b /\ rb = r * b /\ ls = limit * size
  OBVIOUS
<1>4. 2 * mb <= 2 * cb + sb /\ 2 * cb <= 2 * mb + sb
  <2>1. (2 * m) * b <= (2 * cost + size) * b /\ (2 * cost) * b <= (2 * m + size) * b
    BY <1>1, <1>2, TimesLess
  <2>2. /\ (2 * m) * b = 2 * mb /\ (2 * cost + size) * b = 2 * cb + sb
        /\ (2 * cost) * b = 2 * cb /\ (2 * m + size) * b = 2 * mb + sb
    BY <1>3
  <2> QED BY <2>1, <2>2
<1>5. rb * size = mb
  BY <1>2, <1>3
<1>6. ASSUME sign = 1, 2 * (rb - limit) > b PROVE FALSE
  <2>1. b * size < (2 * (rb - limit)) * size
    BY <1>6, TimesLess
  <2>2. b * size = sb /\ (2 * (rb - limit)) * size = 2 * mb - 2 * ls
    BY <1>3, <1>5
  <2> QED BY <1>3, <1>4, <1>6, <2>1, <2>2
<1>7. ASSUME sign = -1, 2 * (limit - rb) > b PROVE FALSE
  <2>1. b * size < (2 * (limit - rb)) * size
    BY <1>7, TimesLess
  <2>2. b * size = sb /\ (2 * (limit - rb)) * size = 2 * ls - 2 * mb
    BY <1>3, <1>5
  <2> QED BY <1>3, <1>4, <1>7, <2>1, <2>2
<1> QED BY <1>1, <1>3, <1>6, <1>7

(* A bracket that half a tick is less than lies on its side, and on that of the liquidation *)
LEMMA BracketBeyond ==
  ASSUME NEW sign \in {1, -1}, NEW b \in Nat \ {0}, NEW entry \in Nat \ {0}, NEW move \in Nat,
         2 * entry * move > b
  PROVE  sign * (Nearest(entry * (b + sign * move), b) - entry) > 0
<1>1. PICK num \in Int : num = entry * (b + sign * move)
  OBVIOUS
<1>2. PICK r \in Int : r = Nearest(num, b) /\ 2 * (b * r) <= 2 * num + b /\ 2 * num < 2 * (b * r) + b
  BY NearestOff
<1>3. PICK br \in Int, eb \in Int, em \in Int : br = b * r /\ eb = entry * b /\ em = entry * move
  OBVIOUS
<1>4. 2 * em > b
  BY <1>3
<1>5. ASSUME sign = 1, r <= entry PROVE FALSE
  <2>1. r * b <= entry * b
    BY <1>5, TimesLess
  <2>2. num = eb + em /\ r * b = br
    BY <1>1, <1>3, <1>5
  <2> QED BY <1>2, <1>3, <1>4, <2>1, <2>2
<1>6. ASSUME sign = -1, r >= entry PROVE FALSE
  <2>1. entry * b <= r * b
    BY <1>6, TimesLess
  <2>2. num = eb - em /\ r * b = br
    BY <1>1, <1>3, <1>6
  <2> QED BY <1>2, <1>3, <1>4, <2>1, <2>2
<1> QED BY <1>1, <1>2, <1>5, <1>6

LEMMA FillsKinds ==
  /\ {Balance, Slots, Bps, StopBps, TargetBps, BaseLeverage, FeeBps, DepthPart} \subseteq Nat \ {0}
  /\ {MaxImpact, MaxAdverse, MaxSlip, MaxSpread, HalfSpread, MinLots, MaxFills} \subseteq Nat
  /\ Lasts \subseteq Nat \ {0} /\ MarkPrices \subseteq Nat \ {0} /\ Risks \subseteq Nat \ {0}
  /\ Impacts \subseteq Nat /\ BaseLeverage <= Bps /\ Blank \notin Books /\ Blank \notin Holdings
BY FillsAssumption

LEMMA TierKind ==
  /\ Tiers \in Seq([upTo : Nat, mmr : Nat, leverage : Nat \ {0}]) /\ Tiers # <<>>
  /\ \A i \in DOMAIN Tiers : Tiers[i].mmr \in Nat /\ Tiers[i].leverage \in Nat \ {0} /\ Tiers[i].upTo \in Nat
<1>1. Tiers \in Seq([upTo : Nat, mmr : Nat, leverage : Nat \ {0}]) /\ Tiers # <<>>
  BY FillsAssumption
<1>2. PICK Kinds : Kinds = [upTo : Nat, mmr : Nat, leverage : Nat \ {0}]
  OBVIOUS
<1>3. Tiers \in Seq(Kinds)
  BY <1>1, <1>2
<1>4. DOMAIN Tiers = 1..Len(Tiers)
  BY <1>3
<1>5. ASSUME NEW i \in 1..Len(Tiers) PROVE Tiers[i] \in Kinds
  BY <1>3
<1>6. ASSUME NEW i \in DOMAIN Tiers
      PROVE  Tiers[i].mmr \in Nat /\ Tiers[i].leverage \in Nat \ {0} /\ Tiers[i].upTo \in Nat
  BY <1>2, <1>4, <1>5
<1> QED BY <1>1, <1>6

LEMMA SignKind == ASSUME NEW side \in Sides
  PROVE  /\ Sign(side) \in {1, -1} /\ Opposite(side) \in Sides /\ Sign(Opposite(side)) = -Sign(side)
         /\ side = "BUY" => Sign(side) = 1
         /\ side = "SELL" => Sign(side) = -1
BY DEF Sides, Sign, Opposite

LEMMA LaterPriceResolved ==
  ASSUME NEW x \in Nat, NEW y \in Nat, x <= y, Resolved(x)
  PROVE  Resolved(y)
<1>1. ASSUME NEW rate \in Int, NEW b \in Nat \ {0}, 2 * x * rate > b PROVE 2 * y * rate > b
  <2>1. PICK d \in Nat : y = x + d
    OBVIOUS
  <2>2. rate > 0
    <3>1. ASSUME rate <= 0 PROVE FALSE
      <4>1. rate * x <= 0 * x
        BY <3>1, TimesLess
      <4>2. 2 * x * rate = 2 * (rate * x) /\ rate * x \in Int
        OBVIOUS
      <4> QED BY <1>1, <4>1, <4>2
    <3> QED BY <3>1
  <2>3. x * rate <= y * rate
    BY <2>2, TimesLess
  <2>4. 2 * x * rate = 2 * (x * rate) /\ 2 * y * rate = 2 * (y * rate) /\ x * rate \in Int /\ y * rate \in Int
    OBVIOUS
  <2> QED BY <1>1, <2>3, <2>4
<1>2. Bps \in Nat \ {0} /\ StopBps \in Int /\ TargetBps \in Int
  BY FillsKinds
<1> QED BY <1>1, <1>2 DEF Resolved

LEMMA BookFacts ==
  ASSUME NEW book \in Books, NEW side \in Sides
  PROVE  /\ Levels(book, side) \in Depths /\ Touch(book, side) \in Nat \ {0}
         /\ Touch(book, "SELL") <= Touch(book, "BUY")
         /\ \A k \in 1..Len(Levels(book, side)) : Sign(side) * (Levels(book, side)[k][1] - Touch(book, side)) >= 0
         /\ \E least \in Nat \ {0} : /\ Resolved(least)
                                     /\ \A k \in 1..Len(Levels(book, side)) : Levels(book, side)[k][1] >= least
<1>1. /\ book \in [bids : Depths, asks : Depths] /\ Touch(book, "SELL") <= Touch(book, "BUY")
      /\ \A price \in PricesOf(Levels(book, side)) : Sign(side) * (price - Touch(book, side)) >= 0
      /\ \A price \in PricesOf(Levels(book, side)) : Resolved(price)
  BY FillsAssumption DEF IsBook
<1>2. Levels(book, side) \in Depths
  BY <1>1 DEF Levels
<1>3. PICK levels \in Depths : levels = Levels(book, side)
  BY <1>2
<1>4. /\ Len(levels) \in Nat \ {0}
      /\ \A n \in 1..Len(levels) : levels[n][1] \in Nat \ {0} /\ levels[n][1] \in PricesOf(levels)
  BY LevelKind
<1>5. 1 \in 1..Len(levels)
  BY <1>4
<1>6. Touch(book, side) \in Nat \ {0}
  BY <1>3, <1>4, <1>5 DEF Touch
<1>7. PricesOf(levels) \subseteq Nat \ {0} /\ PricesOf(levels) # {}
  <2>1. DOMAIN levels = 1..Len(levels)
    BY DEF Depths
  <2> QED BY <1>4, <1>5, <2>1 DEF PricesOf
<1>8. PICK least \in PricesOf(levels) : \A price \in PricesOf(levels) : least <= price
  <2>1. PricesOf(levels) \subseteq Nat
    BY <1>7
  <2> QED BY <1>7, <2>1, LeastNatural
<1>9. least \in Nat \ {0} /\ Resolved(least)
  BY <1>1, <1>3, <1>7
<1>10. \A k \in 1..Len(levels) : levels[k][1] >= least
  BY <1>4, <1>7, <1>8
<1> QED BY <1>1, <1>3, <1>4, <1>6, <1>9, <1>10

(* The price at which a book fills *)
LEMMA BookPrice ==
  ASSUME NEW book \in Books, NEW side \in Sides, NEW size \in Nat \ {0}
  PROVE  LET levels == Levels(book, side)  w == Walk(levels, size) IN
         /\ w.filled \in Nat \ {0} /\ w.cost \in Int /\ w.cost = CostTo(levels, size, Len(levels))
         /\ Visible(levels) \in Nat /\ (size <= Visible(levels) => w.filled = size)
         /\ Average(w) \in Nat \ {0} /\ Resolved(Average(w))
         /\ Sign(side) * (Average(w) - Touch(book, side)) >= 0
<1>1. PICK levels \in Depths : levels = Levels(book, side)
  BY BookFacts
<1>2. Len(levels) \in Nat /\ Len(levels) \in 0..Len(levels)
  BY LevelKind
<1>3. PICK w : w = Walk(levels, size)
  OBVIOUS
<1>4. w = WalkTo(levels, size)[Len(levels)]
  BY <1>3, Recursions
<1>5. PICK v \in Nat \ {0} : v = Visible(levels) /\ v = VisibleTo(levels)[Len(levels)]
  BY VisibleGrows
<1>6. w.filled = IF size <= v THEN size ELSE v
  <2>1. size \in Nat
    OBVIOUS
  <2>2. w.filled = IF size <= VisibleTo(levels)[Len(levels)] THEN size ELSE VisibleTo(levels)[Len(levels)]
    BY <1>2, <1>4, <2>1, WalkFills
  <2> QED BY <1>5, <2>2
<1>7. PICK f \in Nat \ {0} : f = w.filled
  BY <1>6
<1>8. w.cost = CostTo(levels, size, Len(levels))
  BY <1>4 DEF CostTo
<1>9. PICK touch \in Nat \ {0} : touch = Touch(book, side)
  BY BookFacts
<1>10. PICK sign \in {1, -1} : sign = Sign(side)
  BY SignKind
<1>11. \A k \in 1..Len(levels) : sign * (levels[k][1] - touch) >= 0
  BY <1>1, <1>9, <1>10, BookFacts
<1>12. size \in Nat /\ touch \in Int
  OBVIOUS
<1>13. /\ CostTo(levels, size, Len(levels)) \in Int
       /\ sign * (CostTo(levels, size, Len(levels)) - touch * WalkTo(levels, size)[Len(levels)].filled) >= 0
  BY <1>2, <1>11, <1>12, CostBound
<1>14. PICK c \in Int : c = w.cost
  BY <1>8, <1>13
<1>15. sign * (c - touch * f) >= 0
  BY <1>4, <1>7, <1>8, <1>13, <1>14
<1>16. PICK least \in Nat \ {0} : Resolved(least) /\ \A k \in 1..Len(levels) : levels[k][1] >= least
  BY <1>1, BookFacts
<1>17. 1 * (c - least * f) >= 0
  <2>1. \A k \in 1..Len(levels) : levels[k][1] \in Int
    BY LevelKind
  <2>2. \A k \in 1..Len(levels) : 1 * (levels[k][1] - least) >= 0
    BY <1>16, <2>1
  <2>3. PICK one \in {1, -1} : one = 1
    OBVIOUS
  <2>4. \A k \in 1..Len(levels) : one * (levels[k][1] - least) >= 0
    BY <2>2, <2>3
  <2>5. least \in Int
    OBVIOUS
  <2>6. one * (CostTo(levels, size, Len(levels)) - least * WalkTo(levels, size)[Len(levels)].filled) >= 0
    BY <1>2, <1>12, <2>4, <2>5, CostBound
  <2> QED BY <1>4, <1>7, <1>8, <1>14, <2>3, <2>6
<1>18. PICK x : x = Nearest(c, f)
  OBVIOUS
<1>19. x \in Int /\ sign * (x - touch) >= 0
  BY <1>15, <1>18, AverageBeyond
<1>20. x >= least
  <2>1. PICK m \in Int : m = least * f
    OBVIOUS
  <2>2. c >= least * f
    BY <1>17, <2>1
  <2> QED BY <1>18, <2>2, AverageAtLeast
<1>21. x \in Nat \ {0} /\ Resolved(x)
  <2>1. x \in Nat
    BY <1>19, <1>20
  <2> QED BY <1>16, <1>20, <2>1, LaterPriceResolved
<1>22. Average(w) = x
  BY <1>7, <1>14, <1>18 DEF Average
<1> QED BY <1>1, <1>3, <1>5, <1>6, <1>7, <1>8, <1>9, <1>10, <1>14, <1>19, <1>21, <1>22

(* An order as the gates of tryFill let it through *)
Tickets == [side : Sides, signal : Lasts, risk : Risks]

LEMMA SizedFits ==
  ASSUME NEW o \in Tickets, depth \in Books \cup {Blank}, earned \in Int, Sized(o) # 0
  PROVE  /\ depth \in Books /\ Sized(o) \in Nat \ {0}
         /\ Sized(o) <= MaxExecutable(depth, o.side)
<1>1. depth \in Books
  BY DEF Sized
<1>2. o.side \in Sides /\ o.risk \in Nat
  BY FillsKinds DEF Tickets
<1>3. PICK touch \in Nat \ {0} : touch = Touch(depth, o.side)
  BY <1>1, <1>2, BookFacts
<1>4. Requested(o, touch) \in Int
  <2>1. earned \div Bps \in Int
    BY FillsKinds, Quotients
  <2>2. PICK equity \in Int : equity = EquityNow
    BY <2>1, FillsKinds DEF EquityNow
  <2>3. PICK d \in Nat \ {0} : d = touch * StopBps
    BY FillsKinds, TimesNat
  <2>4. PICK n \in Int : n = equity * o.risk
    BY <1>2
  <2>5. n \div d \in Int
    BY Quotients
  <2>6. PICK a \in Int : a = (EquityNow * o.risk) \div (touch * StopBps)
    BY <2>2, <2>3, <2>4, <2>5
  <2>7. equity \div Slots \in Int
    BY FillsKinds, Quotients
  <2>8. PICK m \in Int : m = (equity \div Slots) * BaseLeverage
    BY <2>7, FillsKinds
  <2>9. m \div touch \in Int
    BY Quotients
  <2>10. PICK b \in Int : b = ((EquityNow \div Slots) * BaseLeverage) \div touch
    BY <2>2, <2>8, <2>9
  <2>11. Requested(o, touch) = Min({a, b})
    BY <2>6, <2>10 DEF Requested
  <2> QED BY <2>11, LeastOfTwo
<1>5. MaxExecutable(depth, o.side) \in Int
  <2>1. PICK levels \in Depths : levels = Levels(depth, o.side)
    BY <1>1, <1>2, BookFacts
  <2>2. PICK limit \in Int : limit = Limit(depth, o.side)
    <3>1. Sign(o.side) \in Int /\ Bps \in Int /\ MaxImpact \in Int
      BY <1>2, SignKind, FillsKinds
    <3>2. Sign(o.side) * MaxImpact \in Int
      BY <3>1
    <3> QED BY <1>3, <3>1, <3>2 DEF Limit
  <2>3. ExecutableTo(levels, o.side, limit)[Len(levels)].qty \in Int
    <3>1. ExecutableOK(levels, o.side, limit, Len(levels))
      BY <1>2, ExecutableFits
    <3>2. VisibleTo(levels)[Len(levels)] \in Nat
      BY VisibleGrows
    <3> QED BY <3>1, <3>2 DEF ExecutableOK
  <2>4. Visible(levels) \div DepthPart \in Int
    BY VisibleGrows, FillsKinds, Quotients
  <2>5. MaxExecutable(depth, o.side)
           = Min({ExecutableTo(levels, o.side, limit)[Len(levels)].qty, Visible(levels) \div DepthPart})
    BY <2>1, <2>2, Recursions
  <2> QED BY <2>3, <2>4, <2>5, LeastOfTwo
<1>6. PICK lots \in Int : /\ lots = Min({Requested(o, touch), MaxExecutable(depth, o.side)})
                          /\ lots <= MaxExecutable(depth, o.side)
  BY <1>4, <1>5, LeastOfTwo
<1>7. ~(depth = Blank) /\ ~(WideBook(depth) \/ Stale(depth, o)) /\ ~(lots <= 0 \/ lots < MinLots)
  BY <1>3, <1>6 DEF Sized
<1>8. Sized(o) = lots
  BY <1>3, <1>6, <1>7 DEF Sized
<1> QED BY <1>1, <1>6, <1>7, <1>8

(* ... what the book it is filled from makes of it *)
LEMMA ExecutableEnds ==
  ASSUME NEW book \in Books, NEW side \in Sides, NEW size \in Nat \ {0}, size <= MaxExecutable(book, side)
  PROVE  LET levels == Levels(book, side)  w == Walk(levels, size) IN
         /\ w.filled = size /\ size * DepthPart <= Visible(levels)
         /\ 2 * Sign(side) * (Average(w) * Bps - Limit(book, side)) <= Bps
<1>1. PICK levels \in Depths : levels = Levels(book, side)
  BY BookFacts
<1>2. PICK sign \in {1, -1} : sign = Sign(side)
  BY SignKind
<1>3. PICK b \in Nat \ {0} : b = Bps
  BY FillsKinds
<1>4. PICK limit \in Int : limit = Limit(book, side)
  <2>1. sign * MaxImpact \in Int /\ Touch(book, side) \in Int
    BY FillsKinds, BookFacts
  <2> QED BY <1>2, <1>3, <2>1 DEF Limit
<1>5. PICK v \in Nat \ {0} : v = Visible(levels) /\ v = VisibleTo(levels)[Len(levels)]
  BY VisibleGrows
<1>6. PICK e : e = ExecutableTo(levels, side, limit)[Len(levels)].qty
  OBVIOUS
<1>7. e \in 0..v /\ \A q \in 0..e : Within(levels, sign, limit, q, Len(levels))
  <2>1. ExecutableOK(levels, side, limit, Len(levels))
    BY ExecutableFits
  <2> QED BY <1>2, <1>5, <1>6, <2>1 DEF ExecutableOK
<1>8. PICK part \in Nat \ {0} : part = DepthPart
  BY FillsKinds
<1>9. PICK r \in Int : r = v \div part /\ part * r <= v
  BY Quotients
<1>10. MaxExecutable(book, side) = Min({e, r})
  BY <1>1, <1>4, <1>5, <1>6, <1>8, <1>9, Recursions
<1>11. size <= e /\ size <= r
  <2>1. Min({e, r}) = IF e <= r THEN e ELSE r
    BY <1>7, LeastOfTwo
  <2> QED BY <1>7, <1>10, <2>1
<1>12. size * part <= v
  <2>1. size * part <= r * part
    BY <1>11, TimesLess
  <2>2. r * part = part * r
    OBVIOUS
  <2>3. size * part \in Int /\ part * r \in Int
    OBVIOUS
  <2> QED BY <1>9, <2>1, <2>2, <2>3
<1>13. PICK w : w = Walk(levels, size)
  OBVIOUS
<1>14. w.filled = size /\ w.cost \in Int /\ w.cost = CostTo(levels, size, Len(levels))
  <2>1. LET all == Levels(book, side)  x == Walk(all, size) IN
        /\ x.cost \in Int /\ x.cost = CostTo(all, size, Len(all))
        /\ size <= Visible(all) => x.filled = size
    BY BookPrice
  <2>2. size <= v
    BY <1>7, <1>11
  <2> QED BY <1>1, <1>5, <1>13, <2>1, <2>2
<1>15. Within(levels, sign, limit, size, Len(levels))
  BY <1>7, <1>11
<1>16. PICK c \in Int : c = w.cost
  BY <1>14
<1>17. sign * (c * b - limit * size) <= 0
  BY <1>3, <1>14, <1>15, <1>16 DEF Within
<1>18. 2 * sign * (Nearest(c, size) * b - limit) <= b
  BY <1>17, AverageWithin
<1> QED BY <1>1, <1>2, <1>3, <1>4, <1>5, <1>8, <1>12, <1>13, <1>14, <1>16, <1>18 DEF Average

(* What a position is once it is filled, or hydrated *)
Risked(p) ==
    /\ p.risk \in [leverage : Nat, margin : Int, liquidation : Int]
    /\ p.risk.margin > 0 /\ p.risk.margin <= p.entry * p.size * Bps
Filled(p) ==
    /\ p.side \in Sides /\ p.entry \in Nat \ {0} /\ p.size \in Nat \ {0} /\ p.from \in Books
    /\ Resolved(p.entry) /\ Sign(p.side) * (p.entry - Touch(p.from, p.side)) >= 0
    /\ p.stop = Bracket(p.entry, p.side, -StopBps) /\ p.stop \in Int /\ p.target \in Int
    /\ Sign(p.side) * (p.entry - p.stop) > 0 /\ Sign(p.side) * (p.target - p.entry) > 0
FillsInv ==
    /\ depth \in Books \cup {Blank} /\ last \in Lasts /\ markNow \in MarkPrices \cup {Blank}
    /\ ordered = Blank \/ (ordered \in Tickets /\ fills < MaxFills)
    /\ held # Blank => ordered = Blank /\ held \in Holdings /\ Filled(held) /\ Risked(held)
    /\ dealt # Blank => dealt.reason \in {"LIQ", "SL", "TP", "TIME"} /\ dealt.pnl \in Int
    /\ earned \in Int /\ fills \in 0..MaxFills

LEMMA FillsInvMeans == FillsInv => FillsTypeOK
BY DEF FillsInv, FillsTypeOK, Filled, Risked, Tickets

LEMMA TierOfKind ==
  ASSUME NEW notional \in Int
  PROVE  \E i \in DOMAIN Tiers : TierOf(notional) = Tiers[i]
<1> DEFINE T == {j \in DOMAIN Tiers : j = Len(Tiers) \/ notional <= Tiers[j].upTo}
<1>1. Len(Tiers) \in Nat \ {0} /\ DOMAIN Tiers = 1..Len(Tiers)
  <2>1. PICK Kinds : Tiers \in Seq(Kinds) /\ Tiers # <<>>
    BY TierKind
  <2> QED BY <2>1
<1>2. T \subseteq Nat /\ Len(Tiers) \in T
  BY <1>1
<1>3. TierOf(notional) = Tiers[Min(T)]
  BY DEF TierOf
<1>4. T \subseteq DOMAIN Tiers
  OBVIOUS
<1> HIDE DEF T
<1>5. \E i \in T : \A j \in T : i <= j
  BY <1>2, LeastNatural
<1>6. Min(T) \in T
  BY <1>5 DEF Min
<1> QED BY <1>3, <1>4, <1>6

LEMMA LeveredFits ==
  ASSUME NEW side \in Sides, NEW entry \in Nat \ {0}, NEW size \in Nat \ {0},
         NEW leverage \in Nat \ {0}, leverage <= BaseLeverage
  PROVE  LET risk == Levered(side, entry, size, leverage) IN
         /\ risk \in [leverage : Nat, margin : Int, liquidation : Int]
         /\ risk.margin > 0 /\ risk.margin <= entry * size * Bps
<1>1. PICK sign \in {1, -1} : sign = Sign(side)
  BY SignKind
<1>2. PICK b \in Nat \ {0} : b = Bps
  BY FillsKinds
<1>3. PICK n \in Nat \ {0} : n = entry * size
  BY TimesNat
<1>4. PICK i \in DOMAIN Tiers : TierOf(n) = Tiers[i]
  BY TierOfKind
<1>5. PICK mmr \in Nat : mmr = Tiers[i].mmr
  BY TierKind
<1>6. PICK nb \in Nat \ {0} : nb = n * b
  BY TimesNat
<1>7. PICK margin \in Int : margin = nb \div leverage /\ leverage * margin <= nb /\ nb < leverage * margin + leverage
  BY Quotients
<1>8. margin > 0
  <2>1. ASSUME margin <= 0 PROVE FALSE
    <3>1. margin * leverage <= 0 * leverage
      BY <2>1, TimesLess
    <3>2. margin * leverage = leverage * margin /\ leverage * margin \in Int
      OBVIOUS
    <3>3. 1 * b <= n * b
      BY TimesLess
    <3>4. leverage <= b
      BY <1>2, FillsKinds
    <3> QED BY <1>6, <1>7, <3>1, <3>2, <3>3, <3>4
  <2> QED BY <2>1
<1>9. margin <= nb
  <2>1. 1 * margin <= leverage * margin
    BY <1>8, TimesLess
  <2>2. leverage * margin \in Int
    OBVIOUS
  <2> QED BY <1>7, <2>1, <2>2
<1>10. PICK far \in Int : far = Bps \div leverage - mmr - FeeBps
  <2>1. Bps \div leverage \in Int
    BY <1>2, Quotients
  <2> QED BY <2>1, FillsKinds
<1>11. PICK liq \in Int : liq = entry * (b - sign * far)
  OBVIOUS
<1>12. Levered(side, entry, size, leverage) = [leverage |-> leverage, margin |-> margin, liquidation |-> liq]
  BY <1>1, <1>2, <1>3, <1>4, <1>5, <1>6, <1>7, <1>10, <1>11 DEF Levered, Liquidation
<1> QED BY <1>2, <1>3, <1>6, <1>8, <1>9, <1>12

LEMMA FillsStarts == FillsInit => FillsInv
BY FillsKinds DEF FillsInit, FillsInv

LEMMA ProposeKeeps ==
  ASSUME FillsInv, NEW side \in Sides, NEW risk \in Risks, Propose(side, risk)
  PROVE  FillsInv'
<1>1. [side |-> side, signal |-> last, risk |-> risk] \in Tickets
  BY DEF FillsInv, Tickets
<1>2. fills < MaxFills
  BY DEF Propose
<1> QED BY <1>1, <1>2 DEF FillsInv, Propose

LEMMA BracketsFit ==
  ASSUME NEW side \in Sides, NEW entry \in Nat \ {0}, Resolved(entry)
  PROVE  /\ Bracket(entry, side, -StopBps) \in Int /\ Bracket(entry, side, TargetBps) \in Int
         /\ Sign(side) * (entry - Bracket(entry, side, -StopBps)) > 0
         /\ Sign(side) * (Bracket(entry, side, TargetBps) - entry) > 0
<1>1. PICK sign \in {1, -1} : sign = Sign(side)
  BY SignKind
<1>2. PICK b \in Nat \ {0} : b = Bps
  BY FillsKinds
<1>3. PICK s \in Nat : s = StopBps
  BY FillsKinds
<1>4. PICK t \in Nat : t = TargetBps
  BY FillsKinds
<1>5. 2 * entry * s > b /\ 2 * entry * t > b
  BY <1>2, <1>3, <1>4 DEF Resolved
<1>6. PICK other \in {1, -1} : other = -sign
  OBVIOUS
<1>7. sign * (Nearest(entry * (b + sign * t), b) - entry) > 0
  BY <1>5, BracketBeyond
<1>8. other * (Nearest(entry * (b + other * s), b) - entry) > 0
  BY <1>5, BracketBeyond
<1>9. sign * (-s) = other * s
  BY <1>6
<1>10. PICK x \in Int : x = Nearest(entry * (b + sign * t), b)
  <2>1. entry * (b + sign * t) \in Int
    OBVIOUS
  <2> QED BY <2>1, NearestOff
<1>11. PICK y \in Int : y = Nearest(entry * (b + other * s), b)
  <2>1. entry * (b + other * s) \in Int
    OBVIOUS
  <2> QED BY <2>1, NearestOff
<1>12. Bracket(entry, side, TargetBps) = x
  BY <1>1, <1>2, <1>4, <1>10 DEF Bracket
<1>13. Bracket(entry, side, -StopBps) = y
  BY <1>1, <1>2, <1>3, <1>9, <1>11 DEF Bracket
<1>14. sign * (x - entry) > 0
  BY <1>7, <1>10
<1>15. other * (y - entry) > 0
  BY <1>8, <1>11
<1>16. sign * (entry - y) > 0
  BY <1>6, <1>15
<1> QED BY <1>1, <1>12, <1>13, <1>14, <1>16

(* What tryFill opens *)
LEMMA OpensFit ==
  ASSUME NEW o \in Tickets, depth \in Books, NEW size \in Nat \ {0},
         NEW entry, entry = Average(Walk(Levels(depth, o.side), size))
  PROVE  /\ entry \in Nat \ {0}
         /\ NewHolding(o, entry, size) \in Holdings /\ Filled(NewHolding(o, entry, size))
         /\ Risked(NewHolding(o, entry, size))
<1>1. o.side \in Sides /\ o.signal \in Lasts
  BY DEF Tickets
<1>2. /\ entry \in Nat \ {0} /\ Resolved(entry)
      /\ Sign(o.side) * (entry - Touch(depth, o.side)) >= 0
  BY <1>1, BookPrice
<1>3. PICK leverage \in Nat \ {0} : /\ leverage = Min({BaseLeverage, TierOf(entry * size).leverage})
                                    /\ leverage <= BaseLeverage
  <2>1. entry * size \in Int
    BY <1>2
  <2>2. PICK i \in DOMAIN Tiers : TierOf(entry * size) = Tiers[i]
    BY <2>1, TierOfKind
  <2>3. PICK l \in Nat \ {0} : l = TierOf(entry * size).leverage
    BY <2>2, TierKind
  <2>4. PICK base \in Nat \ {0} : base = BaseLeverage
    BY FillsKinds
  <2>5. Min({base, l}) = IF base <= l THEN base ELSE l
    BY LeastOfTwo
  <2> QED BY <2>3, <2>4, <2>5
<1>4. PICK risk : risk = Levered(o.side, entry, size, leverage)
  OBVIOUS
<1>5. PICK stop : stop = Bracket(entry, o.side, -StopBps)
  OBVIOUS
<1>6. PICK target : target = Bracket(entry, o.side, TargetBps)
  OBVIOUS
<1>7. /\ risk \in [leverage : Nat, margin : Int, liquidation : Int]
      /\ risk.margin > 0 /\ risk.margin <= entry * size * Bps
  BY <1>1, <1>2, <1>3, <1>4, LeveredFits
<1>8. /\ stop \in Int /\ target \in Int /\ Sign(o.side) * (entry - stop) > 0
      /\ Sign(o.side) * (target - entry) > 0
  BY <1>1, <1>2, <1>5, <1>6, BracketsFit
<1>9. NewHolding(o, entry, size) =
         [side |-> o.side, entry |-> entry, size |-> size, signal |-> o.signal, stop |-> stop,
          target |-> target, risk |-> risk, from |-> depth]
  BY <1>3, <1>4, <1>5, <1>6 DEF NewHolding
<1>10. NewHolding(o, entry, size) \in Holdings
  BY <1>1, <1>2, <1>7, <1>8, <1>9 DEF Holdings
<1>11. Filled(NewHolding(o, entry, size))
  BY <1>1, <1>2, <1>5, <1>8, <1>9 DEF Filled
<1>12. Risked(NewHolding(o, entry, size))
  BY <1>7, <1>9 DEF Risked
<1> QED BY <1>2, <1>10, <1>11, <1>12

LEMMA FillNowKeeps == ASSUME FillsInv, FillNow PROVE FillsInv'
<1>1. ordered \in Tickets /\ ordered # Blank /\ held = Blank /\ fills < MaxFills
  BY DEF FillsInv, FillNow
<1>2. PICK size : size = Sized(ordered)
  OBVIOUS
<1>3. PICK entry : entry = Average(Walk(Levels(depth, ordered.side), size))
  OBVIOUS
<1>4. CASE size = 0 \/ Exceeds(ordered.signal, entry, ordered.side, MaxSlip)
  <2>1. /\ UNCHANGED <<held, earned, fills>> /\ ordered' = Blank
        /\ UNCHANGED <<depth, last, markNow, dealt>>
    BY <1>2, <1>3, <1>4 DEF FillNow
  <2> QED BY <1>1, <2>1 DEF FillsInv
<1>5. CASE ~(size = 0 \/ Exceeds(ordered.signal, entry, ordered.side, MaxSlip))
  <2>1. /\ held' = NewHolding(ordered, entry, size) /\ earned' = earned - entry * size * FeeBps
        /\ fills' = fills + 1 /\ ordered' = Blank
        /\ UNCHANGED <<depth, last, markNow, dealt>>
    BY <1>2, <1>3, <1>5 DEF FillNow
  <2>2. depth \in Books /\ size \in Nat \ {0}
    BY <1>1, <1>2, <1>5, SizedFits DEF FillsInv
  <2>3. /\ entry \in Nat \ {0} /\ held' \in Holdings /\ Filled(held') /\ Risked(held')
    BY <1>1, <1>3, <2>1, <2>2, OpensFit
  <2>4. earned' \in Int
    <3>1. entry * size \in Int /\ FeeBps \in Int
      BY <2>2, <2>3, FillsKinds
    <3>2. entry * size * FeeBps \in Int
      BY <3>1
    <3> QED BY <2>1, <3>2 DEF FillsInv
  <2>5. fills' \in 0..MaxFills
    BY <1>1, <2>1, FillsKinds DEF FillsInv
  <2> QED BY <2>1, <2>2, <2>3, <2>4, <2>5 DEF FillsInv
<1> QED BY <1>4, <1>5

(* What a close pays *)
LEMMA ExitsFit ==
  ASSUME FillsInv, held # Blank, NEW trigger \in Int, NEW exit \in ExitPrices(held, trigger)
  PROVE  /\ exit \in Int
         /\ depth # Blank => exit \in Nat \ {0}
                             /\ Sign(held.side) * (Touch(depth, Opposite(held.side)) - exit) >= 0
<1>1. held.side \in Sides /\ held.size \in Nat \ {0} /\ depth \in Books \cup {Blank}
  BY DEF FillsInv, Filled
<1>2. PICK side \in Sides : side = Opposite(held.side)
  BY <1>1, SignKind
<1>3. CASE depth = Blank
  <2>1. \E impact \in Impacts : exit = Bracket(trigger, side, HalfSpread + impact)
    BY <1>2, <1>3 DEF ExitPrices
  <2>2. PICK impact \in Nat : exit = Bracket(trigger, side, HalfSpread + impact)
    BY <2>1, FillsKinds
  <2>3. PICK move \in Int : move = HalfSpread + impact
    BY FillsKinds
  <2>4. PICK sign \in Int : sign = Sign(side)
    BY DEF Sign
  <2>5. PICK b \in Nat \ {0} : b = Bps
    BY FillsKinds
  <2>6. PICK num \in Int : num = trigger * (b + sign * move)
    OBVIOUS
  <2>7. Nearest(num, b) \in Int
    BY NearestOff
  <2>8. exit = Nearest(num, b)
    BY <2>2, <2>3, <2>4, <2>5, <2>6 DEF Bracket
  <2> QED BY <1>3, <2>7, <2>8
<1>4. CASE depth # Blank
  <2>1. PICK w : w = Walk(Levels(depth, side), held.size)
    OBVIOUS
  <2>2. /\ w.filled \in Nat \ {0} /\ Average(w) \in Nat \ {0}
        /\ Sign(side) * (Average(w) - Touch(depth, side)) >= 0
    BY <1>1, <1>4, <2>1, BookPrice
  <2>3. exit = Average(w)
    BY <1>2, <1>4, <2>1, <2>2 DEF ExitPrices
  <2>4. PICK touch \in Int : touch = Touch(depth, side)
    BY <1>1, <1>4, BookFacts
  <2>5. PICK sign \in {1, -1} : sign = Sign(held.side) /\ Sign(side) = -sign
    BY <1>1, <1>2, SignKind
  <2>6. (-sign) * (exit - touch) >= 0 /\ exit \in Nat \ {0}
    BY <2>2, <2>3, <2>4, <2>5
  <2>7. sign * (touch - exit) >= 0
    BY <2>6
  <2> QED BY <1>2, <2>4, <2>5, <2>6, <2>7
<1> QED BY <1>3, <1>4

LEMMA NetKind == ASSUME FillsInv, held # Blank, NEW exit \in Int PROVE NetOf(held, exit) \in Int
<1>1. PICK sign \in Int : sign = Sign(held.side)
  BY DEF Sign
<1>2. PICK entry \in Int : entry = held.entry
  BY DEF FillsInv, Filled
<1>3. PICK size \in Int : size = held.size
  BY DEF FillsInv, Filled
<1>4. PICK b \in Int : b = Bps
  BY FillsKinds
<1>5. PICK fee \in Int : fee = FeeBps
  BY FillsKinds
<1>6. sign * (exit - entry) * size * b - (entry + exit) * size * fee \in Int
  OBVIOUS
<1> QED BY <1>1, <1>2, <1>3, <1>4, <1>5, <1>6 DEF NetOf

LEMMA SettleKinds ==
  ASSUME FillsInv, held # Blank, NEW exit \in Int, NEW reason \in {"LIQ", "SL", "TP", "TIME"}, Settle(reason, exit)
  PROVE  /\ held' = Blank /\ earned' \in Int /\ dealt'.reason = reason /\ dealt'.pnl \in Int
         /\ reason # "LIQ" => dealt'.pnl = NetOf(held, exit)
<1>1. PICK net \in Int : net = NetOf(held, exit)
  BY NetKind
<1>2. PICK opened \in Int : opened = held.entry * held.size * FeeBps
  <2>1. held.entry \in Int /\ held.size \in Int /\ FeeBps \in Int
    BY FillsKinds DEF FillsInv, Filled
  <2>2. held.entry * held.size * FeeBps \in Int
    BY <2>1
  <2> QED BY <2>2
<1>3. PICK margin \in Int : margin = held.risk.margin
  BY DEF FillsInv, Risked
<1>4. earned \in Int
  BY DEF FillsInv
<1>5. CASE reason = "LIQ"
  <2>1. /\ held' = Blank /\ dealt' = [reason |-> reason, pnl |-> -margin, from |-> held.from]
        /\ earned' = earned - margin + opened
    BY <1>2, <1>3, <1>5 DEF Settle
  <2> QED BY <1>4, <1>5, <2>1
<1>6. CASE reason # "LIQ"
  <2>1. /\ held' = Blank /\ dealt' = [reason |-> reason, pnl |-> net, from |-> held.from]
        /\ earned' = earned + net + opened
    BY <1>1, <1>2, <1>6 DEF Settle
  <2> QED BY <1>1, <1>4, <1>6, <2>1
<1> QED BY <1>5, <1>6

(* In and out of one book *)
LEMMA RoundTripPays ==
  ASSUME FillsInv, held # Blank, depth = held.from, NEW exit \in Nat \ {0},
         Sign(held.side) * (Touch(depth, Opposite(held.side)) - exit) >= 0
  PROVE  NetOf(held, exit) < 0
<1>1. PICK side \in Sides : side = held.side
  BY DEF FillsInv, Filled
<1>2. PICK entry \in Nat \ {0} : entry = held.entry
  BY DEF FillsInv, Filled
<1>3. PICK size \in Nat \ {0} : size = held.size
  BY DEF FillsInv, Filled
<1>4. PICK b \in Nat : b = Bps
  BY FillsKinds
<1>5. PICK fee \in Nat \ {0} : fee = FeeBps
  BY FillsKinds
<1>6. depth \in Books /\ Sign(side) * (entry - Touch(depth, side)) >= 0
  BY <1>1, <1>2 DEF FillsInv, Filled
<1>7. PICK ask \in Nat, bid \in Nat : ask = Touch(depth, "BUY") /\ bid = Touch(depth, "SELL") /\ bid <= ask
  BY <1>6, BookFacts DEF Sides
<1>8. PICK sign \in {1, -1} : sign = Sign(side)
  BY SignKind
<1>9. sign * (exit - entry) <= 0
  <2>1. CASE side = "BUY"
    <3>1. sign = 1 /\ Opposite(side) = "SELL"
      BY <1>8, <2>1 DEF Sign, Opposite
    <3>2. 1 * (bid - exit) >= 0 /\ 1 * (entry - ask) >= 0
      BY <1>1, <1>6, <1>7, <1>8, <2>1, <3>1
    <3> QED BY <1>7, <3>1, <3>2
  <2>2. CASE side = "SELL"
    <3>1. sign = -1 /\ Opposite(side) = "BUY"
      BY <1>8, <2>2 DEF Sign, Opposite
    <3>2. (-1) * (ask - exit) >= 0 /\ (-1) * (entry - bid) >= 0
      BY <1>1, <1>6, <1>7, <1>8, <2>2, <3>1
    <3> QED BY <1>7, <3>1, <3>2
  <2> QED BY <2>1, <2>2 DEF Sides
<1>10. PICK gain \in Int : gain = sign * (exit - entry)
  OBVIOUS
<1>11. gain * size * b <= 0
  <2>1. size * b \in Nat
    BY TimesNat
  <2>2. PICK sb \in Nat : sb = size * b
    BY <2>1
  <2>3. gain * sb <= 0 * sb
    BY <1>9, <1>10, TimesLess
  <2>4. gain * size * b = gain * sb
    BY <2>2
  <2> QED BY <2>3, <2>4
<1>12. (entry + exit) * size * fee > 0
  <2>1. PICK e \in Nat \ {0} : e = entry + exit
    OBVIOUS
  <2>2. PICK es \in Nat \ {0} : es = e * size
    BY TimesNat
  <2>3. es * fee > 0
    BY TimesNat
  <2> QED BY <2>1, <2>2, <2>3
<1>13. PICK x \in Int, y \in Int : x = gain * size * b /\ y = (entry + exit) * size * fee
  OBVIOUS
<1>14. NetOf(held, exit) = x - y
  BY <1>1, <1>2, <1>3, <1>4, <1>5, <1>8, <1>10, <1>13 DEF NetOf
<1> QED BY <1>11, <1>12, <1>13, <1>14

RoundTripStep == held # Blank /\ held' = Blank /\ dealt'.reason # "LIQ" /\ depth = held.from => dealt'.pnl < 0

LEMMA CloseFits ==
  ASSUME FillsInv, held # Blank, NEW trigger \in Int, NEW exit \in ExitPrices(held, trigger),
         NEW reason \in {"SL", "TP", "TIME"}, Settle(reason, exit)
  PROVE  /\ held' = Blank /\ earned' \in Int /\ dealt'.reason = reason /\ dealt'.pnl \in Int
         /\ RoundTripStep
<1>1. /\ exit \in Int
      /\ depth # Blank => exit \in Nat \ {0}
                          /\ Sign(held.side) * (Touch(depth, Opposite(held.side)) - exit) >= 0
  BY ExitsFit
<1>2. /\ held' = Blank /\ earned' \in Int /\ dealt'.reason = reason /\ dealt'.pnl \in Int
      /\ dealt'.pnl = NetOf(held, exit)
  <2>1. reason \in {"LIQ", "SL", "TP", "TIME"} /\ reason # "LIQ"
    OBVIOUS
  <2> QED BY <1>1, <2>1, SettleKinds
<1>3. ASSUME depth = held.from PROVE dealt'.pnl < 0
  <2>1. depth # Blank
    BY <1>3, FillsKinds DEF FillsInv, Filled
  <2>2. NetOf(held, exit) < 0
    BY <1>1, <1>3, <2>1, RoundTripPays
  <2> QED BY <1>2, <2>2
<1> QED BY <1>2, <1>3 DEF RoundTripStep

LEMMA PricePrintsKeeps ==
  ASSUME FillsInv, NEW price \in Lasts, PricePrints(price)
  PROVE  FillsInv' /\ RoundTripStep
<1>1. last' = price /\ UNCHANGED <<depth, markNow, ordered, fills>>
  BY DEF PricePrints
<1>2. CASE UNCHANGED <<held, dealt, earned>>
  BY <1>1, <1>2 DEF FillsInv, RoundTripStep
<1>3. ASSUME held # Blank, held' = Blank, earned' \in Int, dealt'.reason \in {"LIQ", "SL", "TP", "TIME"},
             dealt'.pnl \in Int
      PROVE  FillsInv'
  BY <1>1, <1>3 DEF FillsInv
<1>4. CASE held # Blank /\ Settle("LIQ", price)
  <2>1. /\ held' = Blank /\ earned' \in Int /\ dealt'.reason = "LIQ" /\ dealt'.pnl \in Int
    BY <1>4, FillsKinds, SettleKinds
  <2> QED BY <1>3, <1>4, <2>1 DEF RoundTripStep
<1>5. CASE held # Blank /\ \E exit \in ExitPrices(held, held.stop) : Settle("SL", exit)
  <2>1. held.stop \in Int
    BY <1>5 DEF FillsInv, Filled
  <2>2. PICK exit \in ExitPrices(held, held.stop) : Settle("SL", exit)
    BY <1>5
  <2>3. held' = Blank /\ earned' \in Int /\ dealt'.reason = "SL" /\ dealt'.pnl \in Int /\ RoundTripStep
    BY <1>5, <2>1, <2>2, CloseFits
  <2> QED BY <1>3, <1>5, <2>3
<1>6. CASE held # Blank /\ \E exit \in ExitPrices(held, held.target) : Settle("TP", exit)
  <2>1. held.target \in Int
    BY <1>6 DEF FillsInv, Filled
  <2>2. PICK exit \in ExitPrices(held, held.target) : Settle("TP", exit)
    BY <1>6
  <2>3. held' = Blank /\ earned' \in Int /\ dealt'.reason = "TP" /\ dealt'.pnl \in Int /\ RoundTripStep
    BY <1>6, <2>1, <2>2, CloseFits
  <2> QED BY <1>3, <1>6, <2>3
<1> QED BY <1>2, <1>4, <1>5, <1>6 DEF PricePrints

LEMMA CloseNowKeeps == ASSUME FillsInv, CloseNow PROVE FillsInv' /\ RoundTripStep
<1>1. held # Blank /\ UNCHANGED <<depth, last, markNow, ordered, fills>>
  BY DEF CloseNow
<1>2. PICK trigger : trigger = IF markNow = Blank THEN last ELSE markNow
  OBVIOUS
<1>3. trigger \in Int
  <2>1. last \in Lasts /\ markNow \in MarkPrices \cup {Blank}
    BY DEF FillsInv
  <2>2. Lasts \subseteq Int /\ MarkPrices \subseteq Int
    BY FillsKinds
  <2> QED BY <1>2, <2>1, <2>2
<1>4. PICK exit \in ExitPrices(held, trigger) : Settle("TIME", exit)
  BY <1>2 DEF CloseNow
<1>5. held' = Blank /\ earned' \in Int /\ dealt'.reason = "TIME" /\ dealt'.pnl \in Int /\ RoundTripStep
  BY <1>1, <1>3, <1>4, CloseFits
<1> QED BY <1>1, <1>5 DEF FillsInv

LEMMA FeedKeeps ==
  ASSUME FillsInv, \/ \E book \in Books \cup {Blank} : Quote(book)
                   \/ \E price \in MarkPrices : MarkPrints(price)
  PROVE  FillsInv'
<1>1. CASE \E book \in Books \cup {Blank} : Quote(book)
  BY <1>1 DEF FillsInv, Quote
<1>2. CASE \E price \in MarkPrices : MarkPrints(price)
  BY <1>2 DEF FillsInv, MarkPrints
<1> QED BY <1>1, <1>2

LEMMA RehydrateKeeps == ASSUME FillsInv, Rehydrate PROVE FillsInv' /\ held' # Blank
<1>1. PICK risk : risk = Levered(held.side, held.entry, held.size, BaseLeverage)
  OBVIOUS
<1>2. /\ held # Blank /\ held' = [held EXCEPT !.risk = risk] /\ ordered' = Blank
      /\ UNCHANGED <<depth, last, markNow, dealt, earned, fills>>
  BY <1>1 DEF Rehydrate
<1>3. held \in Holdings /\ Filled(held)
  BY <1>2 DEF FillsInv
<1>4. held.side \in Sides /\ held.entry \in Nat \ {0} /\ held.size \in Nat \ {0}
  BY <1>3 DEF Filled
<1>5. /\ risk \in [leverage : Nat, margin : Int, liquidation : Int]
      /\ risk.margin > 0 /\ risk.margin <= held.entry * held.size * Bps
  <2>1. BaseLeverage \in Nat \ {0} /\ BaseLeverage <= BaseLeverage
    BY FillsKinds
  <2> QED BY <1>1, <1>4, <2>1, LeveredFits
<1>6. /\ held' \in Holdings /\ held'.risk = risk /\ held'.side = held.side /\ held'.entry = held.entry
      /\ held'.size = held.size /\ held'.from = held.from /\ held'.stop = held.stop /\ held'.target = held.target
  BY <1>2, <1>3, <1>5 DEF Holdings
<1>7. Filled(held')
  BY <1>3, <1>6 DEF Filled
<1>8. Risked(held')
  BY <1>5, <1>6 DEF Risked
<1>9. held' # Blank
  BY <1>6, FillsKinds
<1> QED BY <1>2, <1>6, <1>7, <1>8, <1>9 DEF FillsInv

EntryStep ==
    held = Blank /\ held' # Blank =>
          LET levels == Levels(depth, held'.side) IN
          /\ Walk(levels, held'.size).filled = held'.size
          /\ held'.size * DepthPart <= Visible(levels)
          /\ 2 * Sign(held'.side) * (held'.entry * Bps - Limit(depth, held'.side)) <= Bps

LEMMA FillNowFits == ASSUME FillsInv, FillNow PROVE EntryStep /\ RoundTripStep
<1>1. ordered \in Tickets /\ ordered # Blank /\ held = Blank /\ ordered.side \in Sides
  BY DEF FillsInv, FillNow, Tickets
<1>2. PICK size : size = Sized(ordered)
  OBVIOUS
<1>3. PICK entry : entry = Average(Walk(Levels(depth, ordered.side), size))
  OBVIOUS
<1>4. CASE size = 0 \/ Exceeds(ordered.signal, entry, ordered.side, MaxSlip)
  <2>1. held' = held
    BY <1>2, <1>3, <1>4 DEF FillNow
  <2> QED BY <1>1, <2>1 DEF EntryStep, RoundTripStep
<1>5. CASE ~(size = 0 \/ Exceeds(ordered.signal, entry, ordered.side, MaxSlip))
  <2>1. held' = NewHolding(ordered, entry, size)
    BY <1>2, <1>3, <1>5 DEF FillNow
  <2>2. depth \in Books /\ size \in Nat \ {0} /\ size <= MaxExecutable(depth, ordered.side)
    BY <1>1, <1>2, <1>5, SizedFits DEF FillsInv
  <2>3. held'.side = ordered.side /\ held'.entry = entry /\ held'.size = size
    BY <2>1 DEF NewHolding
  <2>4. LET levels == Levels(depth, ordered.side)  w == Walk(levels, size) IN
        /\ w.filled = size /\ size * DepthPart <= Visible(levels)
        /\ 2 * Sign(ordered.side) * (Average(w) * Bps - Limit(depth, ordered.side)) <= Bps
    BY <1>1, <2>2, ExecutableEnds
  <2> QED BY <1>1, <1>3, <2>3, <2>4 DEF EntryStep, RoundTripStep
<1> QED BY <1>4, <1>5

LEMMA FillsStep ==
  ASSUME FillsInv, [FillsNext]_fillVars PROVE FillsInv' /\ EntryStep /\ RoundTripStep
<1>1. CASE \E side \in Sides, risk \in Risks : Propose(side, risk)
  <2>1. FillsInv' /\ held = Blank /\ held' = Blank
    BY <1>1, ProposeKeeps DEF Propose
  <2> QED BY <2>1 DEF EntryStep, RoundTripStep
<1>2. CASE FillNow
  BY <1>2, FillNowKeeps, FillNowFits
<1>3. CASE \E price \in Lasts : PricePrints(price)
  <2>1. FillsInv' /\ RoundTripStep
    BY <1>3, PricePrintsKeeps
  <2>2. held = Blank => held' = Blank
    BY <1>3 DEF PricePrints
  <2> QED BY <2>1, <2>2 DEF EntryStep
<1>4. CASE CloseNow
  <2>1. FillsInv' /\ RoundTripStep /\ held # Blank
    BY <1>4, CloseNowKeeps DEF CloseNow
  <2> QED BY <2>1 DEF EntryStep
<1>5. CASE \/ \E book \in Books \cup {Blank} : Quote(book)
           \/ \E price \in MarkPrices : MarkPrints(price)
  <2>1. FillsInv' /\ held' = held
    BY <1>5, FeedKeeps DEF Quote, MarkPrints
  <2> QED BY <2>1 DEF EntryStep, RoundTripStep
<1>6. CASE Rehydrate
  <2>1. FillsInv' /\ held # Blank /\ held' # Blank
    BY <1>6, RehydrateKeeps DEF Rehydrate
  <2> QED BY <2>1 DEF EntryStep, RoundTripStep
<1>7. CASE UNCHANGED fillVars
  BY <1>7 DEF fillVars, FillsInv, EntryStep, RoundTripStep
<1> QED BY <1>1, <1>2, <1>3, <1>4, <1>5, <1>6, <1>7 DEF FillsNext

(* A fill fits the book it is taken from, its brackets lie on their sides of it, and going in
   and out of one book never pays, for every set of books, prices, fees and tiers
   (maxExecutableQty, walkBook, tryFill, resolveExitPrice, hydrate). *)
THEOREM FillsStand == FillsSpec => FillsHold
<1>1. FillsInit => FillsInv
  BY FillsStarts
<1>2. FillsInv /\ [FillsNext]_fillVars => FillsInv' /\ EntryStep /\ RoundTripStep
  BY FillsStep
<1>3. FillsInv => FillsTypeOK
  BY FillsInvMeans
<1>4. FillsSpec => []FillsInv
  BY <1>1, <1>2, PTL DEF FillsSpec
<1>5. FillsSpec => []FillsTypeOK
  BY <1>3, <1>4, PTL
<1>6. FillsSpec => [][EntryStep /\ RoundTripStep]_fillVars
  BY <1>1, <1>2, PTL DEF FillsSpec
<1>7. FillsSpec => EntriesFitTheBook
  BY <1>6, PTL DEF EntriesFitTheBook, EntryStep
<1>8. FillsSpec => RoundTripCosts
  BY <1>6, PTL DEF RoundTripCosts, RoundTripStep
<1> QED BY <1>5, <1>7, <1>8 DEF FillsHold

=============================================================================
