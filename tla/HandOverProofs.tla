----------------------------- MODULE HandOverProofs -----------------------------
(***************************************************************************)
(* A trade's result reaches its total once, whoever works on the account   *)
(* (HandOver): HandOverOK from the inductive invariant below.  The health  *)
(* report (HealthReport) is true of the deployment: ReportsAreTrue, from   *)
(* HealthInv.  What a driver learns from the rows (EdgeLoop) is earned and *)
(* current: LearningHolds, from EdgeInv.                                   *)
(***************************************************************************)
EXTENDS HandOver, HealthReport, EdgeLoop, SumTheorems, FiniteSetTheorems, TLAPS

Stages == {"idle", "claim", "scan", "check", "marks", "settle", "account", "release"}
Active(w) == run[w].at \notin {"idle", "claim", "release"}
Sums == [Trades -> Nat]
EngineRecs == [phase : {"off", "load", "on"}, held : SUBSET Mine, total : Sums, readOnly : BOOLEAN]
RunRecs == [at : Stages, todo : SUBSET Trades, orphaned : SUBSET Users, delta : Sums, read : Sums]

HandTypes ==
    /\ TypeOK
    /\ boot \in [held : SUBSET Mine, total : Sums]
    /\ reload \in Sums \cup {None}
    /\ run \in [Runs -> RunRecs]
    /\ \A m \in wire : m.trade \in Mine
    /\ opened \subseteq Trades /\ carried \subseteq Mine

Unopened ==
    \A t \in Trades \ opened :
       /\ rows[t] = "none" /\ total[t] = 0
       /\ \A e \in Engines : t \notin engine[e].held /\ engine[e].total[t] = 0
       /\ t \notin boot.held /\ boot.total[t] = 0
       /\ reload # None => reload[t] = 0
       /\ \A m \in wire : m.trade # t /\ m.total[t] = 0
       /\ \A w \in Runs : t \notin run[w].todo /\ run[w].delta[t] = 0 /\ run[w].read[t] = 0

Idle == \A w \in Runs : run[w].at \in {"idle", "claim", "scan"} => run[w].delta = NoResults

Alone == contended \in BOOLEAN /\ (~contended => Parties <= 1)

Once == \A t \in Trades \ carried : total[t] <= 1 /\ (total[t] = 1 => rows[t] # "open")

Counted == \A t \in Mine \ carried :
    /\ \A e \in Engines : /\ engine[e].total[t] <= 1
                          /\ t \in engine[e].held => engine[e].total[t] = 0
    /\ boot.total[t] <= 1 /\ (t \in boot.held => boot.total[t] = 0)
    /\ reload # None => reload[t] <= 1
    /\ \A m \in wire : m.total[t] <= 1

Backed == \A t \in Mine \ carried :
    Unclosed(t) =>
       /\ total[t] = 0
       /\ reload # None => reload[t] = 0
       /\ \A e \in Engines : engine[e].phase = "load" => engine[e].total[t] = 0
       /\ \A m \in wire : m.kind = "account" => m.trade # t

Works(r) ==
    /\ r.at \in {"check", "marks", "settle"} => \A t \in r.todo : rows[t] = "open"
    /\ r.at \in {"scan", "check", "marks"} => r.delta = NoResults
    /\ r.at \in {"settle", "account"} =>
         \A t \in Trades : r.delta[t] > 0 =>
            r.delta[t] = 1 /\ rows[t] = "watchdog" /\ (t \notin carried => total[t] = 0)
    /\ r.at = "account" => r.todo = {} /\ \A t \in Trades : r.read[t] <= total[t]

Watched == \A w \in Runs : Works(run[w])

Sound == Once /\ Counted /\ Backed /\ Watched

HandInv == HandTypes /\ Unopened /\ Idle /\ Alone /\ (~contended => Sound)

-----------------------------------------------------------------------------

LEMMA Engines2 == \A e \in Engines : e = "runner" \/ e = "tab"
  BY DEF Engines

LEMMA Typical ==
  /\ NoResults \in Sums /\ (\A t \in Trades : NoResults[t] = 0)
  /\ EmptyBook \in [held : SUBSET Mine, total : Sums] /\ EmptyBook.held = {} /\ EmptyBook.total = NoResults
  /\ Off \in EngineRecs /\ Off.phase = "off" /\ Off.held = {} /\ Off.total = NoResults
  /\ IdleRun \in RunRecs /\ IdleRun.at = "idle" /\ IdleRun.delta = NoResults /\ IdleRun.todo = {}
  /\ IdleRun.read = NoResults
<1>1. NoResults \in Sums /\ \A t \in Trades : NoResults[t] = 0
  BY DEF NoResults, Sums
<1> HIDE DEF NoResults, Sums
<1> QED
  BY <1>1 DEF EmptyBook, Off, IdleRun, EngineRecs, RunRecs, Stages

LEMMA RuntimeType ==
  ASSUME NEW book \in [held : SUBSET Mine, total : Sums], NEW s
  PROVE  /\ Runtime(book, s) \in EngineRecs /\ Runtime(book, s).phase = "on"
         /\ Runtime(book, s).held = book.held /\ Runtime(book, s).total = book.total
<1>1. RunnerActive(s) \in BOOLEAN
  BY DEF RunnerActive
<1>2. book.held \subseteq Mine /\ book.total \in Sums
  OBVIOUS
<1> QED
  BY <1>1, <1>2 DEF Runtime, EngineRecs

(* While one party works and it is an invocation of the watchdog, there is no
   engine and no write of one. *)
LEMMA LoneRun ==
  ASSUME HandInv, ~contended, NEW w \in Runs, Active(w)
  PROVE  /\ wire = {} /\ \A e \in Engines : engine[e].phase = "off"
         /\ \A v \in Runs : Active(v) => v = w
<1> DEFINE E == {e \in Engines : engine[e].phase # "off"}
           A == {v \in Runs : run[v].at \notin {"idle", "claim", "release"}}
           W == IF wire # {} /\ \A e \in Engines : ~Live(e) THEN 1 ELSE 0
<1>1. IsFiniteSet(E) /\ IsFiniteSet(A)
  <2>1. IsFiniteSet(Engines)
    <3>1. Engines = ({} \cup {"runner"}) \cup {"tab"}
      BY DEF Engines
    <3> QED
      BY <3>1, FS_EmptySet, FS_AddElement
  <2>2. IsFiniteSet(Runs)
    BY HandOverAssumption
  <2> QED
    BY <2>1, <2>2, FS_Subset
<1>2. Cardinality(E) \in Nat /\ Cardinality(A) \in Nat /\ W \in {0, 1}
  BY <1>1, FS_CardinalityType
<1>3. Cardinality(E) + W + Cardinality(A) <= 1
  BY DEF HandInv, Alone, Parties
<1>4. w \in A
  BY DEF Active
<1>5. A \ {w} \subseteq A /\ Cardinality(A \ {w}) = Cardinality(A) - 1 /\ IsFiniteSet(A \ {w})
  BY <1>1, <1>4, FS_RemoveElement
<1>6. Cardinality(A \ {w}) \in Nat
  BY <1>5, FS_CardinalityType
<1>7. Cardinality(E) = 0 /\ W = 0 /\ Cardinality(A \ {w}) = 0
  BY <1>2, <1>3, <1>5, <1>6
<1>8. E = {} /\ A \ {w} = {}
  BY <1>1, <1>5, <1>7, FS_EmptySet
<1>9. \A e \in Engines : engine[e].phase = "off"
  BY <1>8
<1>10. wire = {}
  BY <1>7, <1>9 DEF Live
<1> QED
  BY <1>8, <1>9, <1>10 DEF Active

(* Whatever a step does, contention is noted. *)
LEMMA Noting ==
  ASSUME Alone, contended' = (contended \/ Parties' > 1)
  PROVE  Alone' /\ (~contended' => ~contended)
<1> DEFINE E == {e \in Engines : engine'[e].phase # "off"}
           A == {v \in Runs : run'[v].at \notin {"idle", "claim", "release"}}
           W == IF wire' # {} /\ \A e \in Engines : ~Live(e)' THEN 1 ELSE 0
<1>1. IsFiniteSet(E) /\ IsFiniteSet(A)
  <2>1. IsFiniteSet(Engines)
    <3>1. Engines = ({} \cup {"runner"}) \cup {"tab"}
      BY DEF Engines
    <3> QED
      BY <3>1, FS_EmptySet, FS_AddElement
  <2>2. IsFiniteSet(Runs)
    BY HandOverAssumption
  <2> QED
    BY <2>1, <2>2, FS_Subset
<1>2. Cardinality(E) \in Nat /\ Cardinality(A) \in Nat /\ W \in {0, 1}
  BY <1>1, FS_CardinalityType
<1>3. Parties' = Cardinality(E) + W + Cardinality(A)
  BY DEF Parties
<1>4. Parties' \in Nat
  BY <1>2, <1>3
<1> DEFINE several == Parties' > 1
<1>5. CASE several
  BY <1>5, contended' = TRUE DEF Alone
<1>6. CASE ~several
  <2>1. Parties' <= 1
    BY <1>4, <1>6
  <2>2. contended' = contended
    BY <1>6 DEF Alone
  <2> HIDE DEF several
  <2> QED
    BY <2>1, <2>2 DEF Alone
<1> QED
  BY <1>5, <1>6

-----------------------------------------------------------------------------
(* Engines that stop, or start anew from the book loaded last *)

LEMMA EnginesMove ==
  ASSUME HandInv, UNCHANGED <<rows, total, wire, run, opened, carried>>,
         \A e \in Engines : \/ engine'[e] = engine[e] \/ engine'[e] = Off
                            \/ \E s : engine'[e] \in {Runtime(boot, s), Runtime(EmptyBook, s)},
         boot' = boot \/ boot' = EmptyBook,
         reload' = reload \/ reload' = None
  PROVE  Unopened' /\ Idle' /\ (~contended => Sound')
<1>1. \A e \in Engines :
        /\ \/ engine'[e].held = engine[e].held /\ engine'[e].total = engine[e].total
           \/ engine'[e].held = {} /\ engine'[e].total = NoResults
           \/ engine'[e].held = boot.held /\ engine'[e].total = boot.total
        /\ engine'[e].phase = "load" => engine'[e] = engine[e]
  BY Typical, RuntimeType DEF HandInv, HandTypes
<1>2. \/ boot'.held = boot.held /\ boot'.total = boot.total
      \/ boot'.held = {} /\ boot'.total = NoResults
  BY Typical
<1>3. \A t : Unclosed(t)' <=> Unclosed(t)
  BY DEF Unclosed
<1>4. Unopened'
  BY <1>1, <1>2, Typical DEF HandInv, Unopened
<1>5. Idle'
  BY DEF HandInv, Idle
<1>6. ASSUME ~contended PROVE Sound'
  <2>1. Once' /\ Watched'
    BY <1>6 DEF HandInv, Sound, Once, Watched, Works
  <2>2. Counted'
    <3>1. \A t \in Mine : NoResults[t] = 0
      BY Typical DEF Mine
    <3> QED
      BY <1>1, <1>2, <1>6, <3>1 DEF HandInv, Sound, Counted
  <2>3. Backed'
    BY <1>1, <1>3, <1>6 DEF HandInv, Sound, Backed
  <2> QED
    BY <2>1, <2>2, <2>3 DEF Sound
<1> QED
  BY <1>4, <1>5, <1>6

(* The type of what such steps touch *)
LEMMA EnginesMoveTypes ==
  ASSUME HandInv, UNCHANGED <<rows, total, wire, run, opened, carried>>,
         engine' \in [Engines -> EngineRecs], crossed' \subseteq Trades,
         beat' \in [Users -> [status : {"none", "running", "stopped"}, age : 0..TakeoverAfter]],
         lease' \in 0..LeaseFor, faults' \in 0..MaxFaults, starts' \in 0..MaxStarts,
         boot' \in [held : SUBSET Mine, total : Sums], reload' \in Sums \cup {None}
  PROVE  HandTypes'
  BY DEF HandInv, HandTypes, TypeOK, EngineRecs, Sums, Writes, Mine

-----------------------------------------------------------------------------
(* The steps of that kind *)

LEMMA TypesOpened ==
  ASSUME HandInv
  PROVE  /\ engine \in [Engines -> EngineRecs]
         /\ beat \in [Users -> [status : {"none", "running", "stopped"}, age : 0..TakeoverAfter]]
         /\ boot \in [held : SUBSET Mine, total : Sums] /\ reload \in Sums \cup {None}
         /\ crossed \subseteq Trades /\ lease \in 0..LeaseFor
         /\ faults \in 0..MaxFaults /\ starts \in 0..MaxStarts /\ LeaseFor \in Nat /\ LeaseFor > 0
         /\ TakeoverAfter \in Nat /\ TakeoverAfter > 0 /\ MaxFaults \in Nat /\ MaxStarts \in Nat
  BY HandOverAssumption DEF HandInv, HandTypes, TypeOK, EngineRecs, Sums

LEMMA FailsType ==
  ASSUME HandInv, Fails \/ UNCHANGED faults
  PROVE  faults' \in 0..MaxFaults
  BY TypesOpened DEF Fails

LEMMA PolledMoves ==
  ASSUME HandInv, NEW row, Polled(row)
  PROVE  /\ engine' \in [Engines -> EngineRecs]
         /\ \A e \in Engines : engine'[e] = engine[e] \/ \E s : engine'[e] = Runtime(boot, s)
         /\ faults' \in 0..MaxFaults
<1>1. engine' = [engine EXCEPT !["tab"] = Effect(@, seen')]
  BY DEF Polled
<1>2. \/ Effect(engine["tab"], seen') = engine["tab"]
      \/ Effect(engine["tab"], seen') = Runtime(boot, seen')
  BY DEF Effect
<1>3. Runtime(boot, seen') \in EngineRecs
  BY RuntimeType, TypesOpened
<1>4. faults' \in 0..MaxFaults
  BY FailsType DEF Polled
<1>5. "tab" \in Engines
  BY DEF Engines
<1> QED
  BY <1>1, <1>2, <1>3, <1>4, <1>5, TypesOpened

LEMMA TickKeeps ==
  ASSUME HandInv, Tick
  PROVE  HandTypes' /\ Unopened' /\ Idle' /\ (~contended => Sound')
<1>1. UNCHANGED <<rows, total, wire, run, opened, carried, crossed, boot, reload, starts>>
  BY DEF Tick, history
<1>2. /\ engine' \in [Engines -> EngineRecs] /\ faults' \in 0..MaxFaults
      /\ \A e \in Engines : engine'[e] = engine[e] \/ \E s : engine'[e] = Runtime(boot, s)
  <2>1. CASE Polled(beat'[Me])
    BY <2>1, PolledMoves
  <2>2. CASE UNCHANGED <<engine, faults>>
    BY <2>2, TypesOpened
  <2> QED
    BY <2>1, <2>2 DEF Tick
<1>3. beat' \in [Users -> [status : {"none", "running", "stopped"}, age : 0..TakeoverAfter]]
  <2>1. beat' = [u \in Users |-> IF beat[u].status = "running"
                                 THEN [beat[u] EXCEPT !.age = Older(@)] ELSE beat[u]]
    BY DEF Tick
  <2>2. \A age \in 0..TakeoverAfter : Older(age) \in 0..TakeoverAfter
    BY TypesOpened DEF Older
  <2>3. ASSUME NEW u \in Users
        PROVE  [beat[u] EXCEPT !.age = Older(@)] \in [status : {"none", "running", "stopped"}, age : 0..TakeoverAfter]
    BY <2>2, TypesOpened
  <2> QED
    BY <2>1, <2>3, TypesOpened
<1>4. lease' \in 0..LeaseFor
  BY TypesOpened DEF Tick
<1>5. HandTypes'
  BY <1>1, <1>2, <1>3, <1>4, TypesOpened, EnginesMoveTypes
<1> QED
  BY <1>1, <1>2, <1>5, EnginesMove

LEMMA PollKeeps ==
  ASSUME HandInv, Poll
  PROVE  HandTypes' /\ Unopened' /\ Idle' /\ (~contended => Sound')
<1>1. UNCHANGED <<rows, total, wire, run, opened, carried, crossed, boot, reload, starts, beat, lease>>
  BY DEF Poll, history
<1>2. /\ engine' \in [Engines -> EngineRecs] /\ faults' \in 0..MaxFaults
      /\ \A e \in Engines : engine'[e] = engine[e] \/ \E s : engine'[e] = Runtime(boot, s)
  BY PolledMoves DEF Poll
<1>3. HandTypes'
  BY <1>1, <1>2, TypesOpened, EnginesMoveTypes
<1> QED
  BY <1>1, <1>2, <1>3, EnginesMove

LEMMA CrossKeeps ==
  ASSUME HandInv, NEW t \in Trades, Cross(t)
  PROVE  HandTypes' /\ Unopened' /\ Idle' /\ (~contended => Sound')
<1>1. UNCHANGED <<rows, total, wire, run, opened, carried, boot, reload, starts, faults, beat, lease, engine>>
  BY DEF Cross, history, view, counters
<1>2. crossed' \subseteq Trades
  BY TypesOpened DEF Cross
<1>3. HandTypes'
  BY <1>1, <1>2, TypesOpened, EnginesMoveTypes
<1> QED
  BY <1>1, <1>3, EnginesMove

LEMMA LeaveKeeps ==
  ASSUME HandInv, NEW e \in Engines, Leave(e)
  PROVE  HandTypes' /\ Unopened' /\ Idle' /\ (~contended => Sound')
<1>1. UNCHANGED <<rows, total, wire, run, opened, carried, starts, beat, lease, crossed>>
  BY DEF Leave, history
<1>2. /\ boot' = boot \/ boot' = EmptyBook
      /\ reload' = reload \/ reload' = None
  BY DEF Leave, view
<1>3. engine' = [engine EXCEPT ![e] = Off]
  BY DEF Leave
<1>4. faults' \in 0..MaxFaults
  BY FailsType DEF Leave
<1>5. engine' \in [Engines -> EngineRecs] /\ \A d \in Engines : engine'[d] = engine[d] \/ engine'[d] = Off
  BY <1>3, Typical, TypesOpened
<1>6. HandTypes'
  BY <1>1, <1>2, <1>4, <1>5, Typical, TypesOpened, EnginesMoveTypes
<1> QED
  BY <1>1, <1>2, <1>5, <1>6, EnginesMove

LEMMA ShutDownKeeps ==
  ASSUME HandInv, ShutDown
  PROVE  HandTypes' /\ Unopened' /\ Idle' /\ (~contended => Sound')
<1>1. UNCHANGED <<rows, total, wire, run, opened, carried, starts, lease, crossed, boot, reload>>
  BY DEF ShutDown, history, view
<1>2. engine' = [engine EXCEPT !["runner"] = Off]
  BY DEF ShutDown
<1>3. faults' \in 0..MaxFaults
  BY FailsType DEF ShutDown
<1>4. engine' \in [Engines -> EngineRecs] /\ \A d \in Engines : engine'[d] = engine[d] \/ engine'[d] = Off
  BY <1>2, Typical, TypesOpened
<1>5. beat' \in [Users -> [status : {"none", "running", "stopped"}, age : 0..TakeoverAfter]]
  BY TypesOpened DEF ShutDown
<1>6. HandTypes'
  BY <1>1, <1>3, <1>4, <1>5, TypesOpened, EnginesMoveTypes
<1> QED
  BY <1>1, <1>4, <1>6, EnginesMove

LEMMA BeatKeeps ==
  ASSUME HandInv, Beat
  PROVE  HandTypes' /\ Unopened' /\ Idle' /\ (~contended => Sound')
<1>1. UNCHANGED <<rows, total, wire, run, opened, carried, starts, lease, crossed, boot, reload, engine>>
  BY DEF Beat, history, view
<1>2. faults' \in 0..MaxFaults
  BY FailsType DEF Beat
<1>3. beat' \in [Users -> [status : {"none", "running", "stopped"}, age : 0..TakeoverAfter]]
  BY TypesOpened DEF Beat
<1>4. HandTypes'
  BY <1>1, <1>2, <1>3, TypesOpened, EnginesMoveTypes
<1> QED
  BY <1>1, <1>4, EnginesMove

-----------------------------------------------------------------------------
(* Engines that read the account and the rows *)

(* What is not written keeps its type. *)
LEMMA ReadsTypes ==
  ASSUME HandInv, UNCHANGED <<rows, total, wire, run, opened, carried, crossed, beat, lease>>,
         engine' \in [Engines -> EngineRecs], starts' \in 0..MaxStarts, faults' \in 0..MaxFaults,
         boot' \in [held : SUBSET Mine, total : Sums], reload' \in Sums \cup {None}
  PROVE  HandTypes'
  BY EnginesMoveTypes, TypesOpened

LEMMA TotalsFit ==
  ASSUME HandInv
  PROVE  /\ total \in Sums /\ \A t \in Trades \ opened : total[t] = 0
         /\ OpenRows \subseteq Mine /\ OpenRows \subseteq opened /\ Mine \subseteq Trades
  BY DEF HandInv, HandTypes, TypeOK, Sums, Unopened, OpenRows, Mine

(* A total that was read, or could not be *)
LEMMA AccountReads ==
  ASSUME HandInv, NEW sum \in {total, NoResults}, AccountRead(sum)
  PROVE  /\ sum \in Sums /\ faults' \in 0..MaxFaults
         /\ \A t \in Trades \ opened : sum[t] = 0
         /\ \A t \in Trades : sum[t] <= total[t]
         /\ \A t \in Trades : total[t] \in Nat /\ sum[t] \in Nat
<1>1. faults' \in 0..MaxFaults
  BY FailsType DEF AccountRead
<1>2. \A t \in Trades : total[t] \in Nat /\ NoResults[t] = 0 /\ NoResults[t] <= total[t]
  BY TotalsFit, Typical DEF Sums
<1>3. CASE sum = total
  BY <1>1, <1>2, <1>3, TotalsFit
<1>4. CASE sum = NoResults
  BY <1>1, <1>2, <1>4, Typical
<1> QED
  BY <1>3, <1>4

(* Trades that were read, or could not be *)
LEMMA RowsReads ==
  ASSUME HandInv, NEW held \in {OpenRows, {}}, RowsRead(held)
  PROVE  held \subseteq OpenRows /\ faults' \in 0..MaxFaults
  BY FailsType DEF RowsRead

LEMMA LoadAccountKeeps ==
  ASSUME HandInv, NEW e \in Engines, LoadAccount(e)
  PROVE  HandTypes' /\ Unopened' /\ Idle' /\ (~contended => Sound')
<1>1. UNCHANGED <<rows, total, wire, run, opened, carried, crossed, beat, lease, boot, reload>>
  BY DEF LoadAccount, history, view
<1>open. PICK sum \in {total, NoResults} :
         AccountRead(sum) /\ engine' = [engine EXCEPT ![e] = [Off EXCEPT !.phase = "load", !.total = sum]]
  BY DEF LoadAccount
<1>read. /\ sum \in Sums /\ faults' \in 0..MaxFaults
         /\ \A t \in Trades \ opened : sum[t] = 0
         /\ \A t \in Trades : sum[t] <= total[t] /\ total[t] \in Nat /\ sum[t] \in Nat
  BY <1>open, AccountReads
<1> DEFINE fresh == [Off EXCEPT !.phase = "load", !.total = sum]
<1>2. engine' = [engine EXCEPT ![e] = fresh]
  BY <1>open
<1>3. fresh \in EngineRecs /\ fresh.phase = "load" /\ fresh.held = {} /\ fresh.total = sum
  BY <1>read, TotalsFit DEF Off, EngineRecs
<1> HIDE DEF fresh
<1>4. \A d \in Engines : \/ engine'[d] = engine[d]
                         \/ engine'[d].phase = "load" /\ engine'[d].held = {} /\ engine'[d].total = sum
  BY <1>2, <1>3, TypesOpened
<1>5. HandTypes'
  <2>1. starts' \in 0..MaxStarts
    BY TypesOpened DEF LoadAccount
  <2>2. engine' \in [Engines -> EngineRecs]
    BY <1>2, <1>3, TypesOpened
  <2> QED
    BY <1>1, <1>read, <2>1, <2>2, TypesOpened, ReadsTypes
<1>6. Unopened'
  BY <1>1, <1>read, <1>4, TotalsFit DEF HandInv, Unopened
<1>7. Idle'
  BY <1>1 DEF HandInv, Idle
<1>8. ASSUME ~contended PROVE Sound'
  <2>0. \A t \in Mine \ carried : /\ t \in Trades /\ sum[t] <= 1
                                  /\ total[t] = 0 => sum[t] = 0
    <3> SUFFICES ASSUME NEW t \in Mine \ carried
                 PROVE  t \in Trades /\ sum[t] <= 1 /\ (total[t] = 0 => sum[t] = 0)
      OBVIOUS
    <3>1. t \in Trades \ carried
      BY TotalsFit
    <3>2. total[t] <= 1
      BY <1>8, <3>1 DEF HandInv, Sound, Once
    <3>3. sum[t] <= total[t] /\ total[t] \in Nat /\ sum[t] \in Nat
      BY <1>read, <3>1
    <3> QED
      BY <3>1, <3>2, <3>3
  <2>1. \A t : Unclosed(t)' <=> Unclosed(t)
    BY <1>1 DEF Unclosed
  <2>2. Once' /\ Watched'
    BY <1>1, <1>8 DEF HandInv, Sound, Once, Watched, Works
  <2>3. Counted'
    BY <1>1, <1>read, <1>4, <1>8, <2>0 DEF HandInv, Sound, Counted, Once
  <2>4. Backed'
    BY <1>1, <1>read, <1>4, <1>8, <2>0, <2>1 DEF HandInv, Sound, Backed
  <2> QED
    BY <2>2, <2>3, <2>4 DEF Sound
<1> QED
  BY <1>5, <1>6, <1>7, <1>8

LEMMA ReloadAccountKeeps ==
  ASSUME HandInv, ReloadAccount
  PROVE  HandTypes' /\ Unopened' /\ Idle' /\ (~contended => Sound')
<1>1. UNCHANGED <<rows, total, wire, run, opened, carried, crossed, beat, lease, starts, boot, engine>>
  BY DEF ReloadAccount, history
<1>open. PICK sum \in {total, NoResults} : AccountRead(sum) /\ reload' = sum
  BY DEF ReloadAccount
<1>2. /\ reload' = sum /\ sum \in Sums /\ faults' \in 0..MaxFaults
      /\ \A t \in Trades \ opened : sum[t] = 0
      /\ \A t \in Trades : sum[t] <= total[t] /\ total[t] \in Nat /\ sum[t] \in Nat
  BY <1>open, AccountReads
<1>3. HandTypes'
  BY <1>1, <1>2, TypesOpened, TotalsFit, ReadsTypes
<1>4. Unopened'
  BY <1>1, <1>2, TotalsFit DEF HandInv, Unopened
<1>5. Idle'
  BY <1>1 DEF HandInv, Idle
<1>6. ASSUME ~contended PROVE Sound'
  <2>0. \A t \in Mine \ carried : /\ t \in Trades /\ sum[t] <= 1
                                  /\ total[t] = 0 => sum[t] = 0
    <3> SUFFICES ASSUME NEW t \in Mine \ carried
                 PROVE  t \in Trades /\ sum[t] <= 1 /\ (total[t] = 0 => sum[t] = 0)
      OBVIOUS
    <3>1. t \in Trades \ carried
      BY TotalsFit
    <3>2. total[t] <= 1
      BY <1>6, <3>1 DEF HandInv, Sound, Once
    <3>3. sum[t] <= total[t] /\ total[t] \in Nat /\ sum[t] \in Nat
      BY <1>2, <3>1
    <3> QED
      BY <3>1, <3>2, <3>3
  <2>1. \A t : Unclosed(t)' <=> Unclosed(t)
    BY <1>1 DEF Unclosed
  <2>2. Once' /\ Watched'
    BY <1>1, <1>6 DEF HandInv, Sound, Once, Watched, Works
  <2>3. Counted'
    BY <1>1, <1>2, <1>6, <2>0 DEF HandInv, Sound, Counted, Once
  <2>4. Backed'
    BY <1>1, <1>2, <1>6, <2>0, <2>1 DEF HandInv, Sound, Backed
  <2> QED
    BY <2>2, <2>3, <2>4 DEF Sound
<1> QED
  BY <1>3, <1>4, <1>5, <1>6

(* The book an engine is built from: the total read first, the rows second.  A
   row that is open now was open when the total was read, and not in it. *)
LEMMA BookIsGood ==
  ASSUME HandInv, NEW held \in SUBSET OpenRows, NEW sum \in Sums, \A t \in Trades \ opened : sum[t] = 0,
         ~contended => \A t \in Mine \ carried : sum[t] <= 1 /\ (Unclosed(t) => sum[t] = 0)
  PROVE  LET book == [held |-> held, total |-> sum] IN
         /\ book \in [held : SUBSET Mine, total : Sums]
         /\ \A t \in Trades \ opened : t \notin book.held /\ book.total[t] = 0
         /\ ~contended => \A t \in Mine \ carried : book.total[t] <= 1 /\ (t \in book.held => book.total[t] = 0)
<1>1. \A t \in OpenRows : Unclosed(t)
  BY DEF OpenRows, Unclosed
<1> QED
  BY <1>1, TotalsFit

LEMMA LoadRowsKeeps ==
  ASSUME HandInv, NEW e \in Engines, LoadRows(e)
  PROVE  HandTypes' /\ Unopened' /\ Idle' /\ (~contended => Sound')
<1>1. UNCHANGED <<rows, total, wire, run, opened, carried, crossed, beat, lease, starts, reload>>
  BY DEF LoadRows, history
<1>open. PICK held \in {OpenRows, {}} :
         LET book == [held |-> held, total |-> engine[e].total] IN
         /\ RowsRead(held)
         /\ \/ engine' = [engine EXCEPT ![e] = [Runtime(book, NoBeat) EXCEPT !.readOnly = FALSE]] /\ boot' = boot
            \/ engine' = [engine EXCEPT ![e] = Runtime(book, seen)] /\ boot' = book
  BY DEF LoadRows
<1>read. held \subseteq OpenRows /\ faults' \in 0..MaxFaults
  BY <1>open, RowsReads
<1> DEFINE book == [held |-> held, total |-> engine[e].total]
<1>2. engine[e].phase = "load" /\ engine[e].total \in Sums
  BY TypesOpened DEF LoadRows, EngineRecs
<1>3. /\ book \in [held : SUBSET Mine, total : Sums]
      /\ \A t \in Trades \ opened : t \notin book.held /\ book.total[t] = 0
      /\ ~contended => \A t \in Mine \ carried : book.total[t] <= 1 /\ (t \in book.held => book.total[t] = 0)
  <2>1. \A t \in Trades \ opened : engine[e].total[t] = 0
    BY DEF HandInv, Unopened
  <2>2. ~contended => \A t \in Mine \ carried : engine[e].total[t] <= 1 /\ (Unclosed(t) => engine[e].total[t] = 0)
    BY <1>2 DEF HandInv, Sound, Counted, Backed
  <2> DEFINE sum == engine[e].total
  <2>3. sum \in Sums /\ held \in SUBSET OpenRows /\ book = [held |-> held, total |-> sum]
    BY <1>read, <1>2
  <2>4. \A t \in Trades \ opened : sum[t] = 0
    BY <2>1
  <2>5. ~contended => \A t \in Mine \ carried : sum[t] <= 1 /\ (Unclosed(t) => sum[t] = 0)
    BY <2>2
  <2> HIDE DEF sum, book
  <2>6. LET b == [held |-> held, total |-> sum] IN
        /\ b \in [held : SUBSET Mine, total : Sums]
        /\ \A t \in Trades \ opened : t \notin b.held /\ b.total[t] = 0
        /\ ~contended => \A t \in Mine \ carried : b.total[t] <= 1 /\ (t \in b.held => b.total[t] = 0)
    <3>1. CASE contended
      BY <2>3, <2>4, <3>1, BookIsGood
    <3>2. CASE ~contended
      BY <2>3, <2>4, <2>5, <3>2, BookIsGood
    <3> QED
      BY <3>1, <3>2
  <2> QED
    BY <2>3, <2>6
<1>4. boot' = boot \/ boot' = book
  BY <1>open
<1>5. \E rec \in EngineRecs : /\ engine' = [engine EXCEPT ![e] = rec]
                              /\ rec.phase = "on" /\ rec.held = book.held /\ rec.total = book.total
  <2> HIDE DEF book
  <2>1. CASE engine' = [engine EXCEPT ![e] = [Runtime(book, NoBeat) EXCEPT !.readOnly = FALSE]]
    <3>1. /\ Runtime(book, NoBeat) \in EngineRecs /\ Runtime(book, NoBeat).phase = "on"
          /\ Runtime(book, NoBeat).held = book.held /\ Runtime(book, NoBeat).total = book.total
      BY <1>3, RuntimeType
    <3>2. PICK rec : rec = [Runtime(book, NoBeat) EXCEPT !.readOnly = FALSE]
      OBVIOUS
    <3>3. rec \in EngineRecs /\ rec.phase = "on" /\ rec.held = book.held /\ rec.total = book.total
      BY <3>1, <3>2 DEF EngineRecs
    <3> QED
      BY <2>1, <3>2, <3>3
  <2>2. CASE engine' = [engine EXCEPT ![e] = Runtime(book, seen)]
    BY <1>3, <2>2, RuntimeType
  <2> QED
    BY <1>open, <2>1, <2>2 DEF book
<1> HIDE DEF book
<1>6. PICK rec \in EngineRecs : /\ engine' = [engine EXCEPT ![e] = rec]
                                /\ rec.phase = "on" /\ rec.held = book.held /\ rec.total = book.total
  BY <1>5
<1>7. \A d \in Engines : \/ engine'[d] = engine[d]
                         \/ engine'[d].phase = "on" /\ engine'[d].held = book.held /\ engine'[d].total = book.total
  BY <1>6, TypesOpened
<1>8. HandTypes'
  BY <1>1, <1>read, <1>3, <1>4, <1>6, TypesOpened, ReadsTypes
<1>9. Unopened'
  BY <1>1, <1>3, <1>4, <1>7 DEF HandInv, Unopened
<1>10. Idle'
  BY <1>1 DEF HandInv, Idle
<1>11. ASSUME ~contended PROVE Sound'
  <2>1. \A t : Unclosed(t)' <=> Unclosed(t)
    BY <1>1 DEF Unclosed
  <2>2. Once' /\ Watched'
    BY <1>1, <1>11 DEF HandInv, Sound, Once, Watched, Works
  <2>3. Counted'
    BY <1>1, <1>3, <1>4, <1>7, <1>11 DEF HandInv, Sound, Counted
  <2>4. Backed'
    BY <1>1, <1>7, <1>11, <2>1 DEF HandInv, Sound, Backed
  <2> QED
    BY <2>2, <2>3, <2>4 DEF Sound
<1> QED
  BY <1>8, <1>9, <1>10, <1>11

LEMMA ReloadRowsKeeps ==
  ASSUME HandInv, ReloadRows
  PROVE  HandTypes' /\ Unopened' /\ Idle' /\ (~contended => Sound')
<1>1. UNCHANGED <<rows, total, wire, run, opened, carried, crossed, beat, lease, starts>>
  BY DEF ReloadRows, history
<1>open. PICK held \in {OpenRows, {}} :
         LET book == [held |-> held, total |-> reload] IN
         RowsRead(held) /\ boot' = book /\ engine' = [engine EXCEPT !["tab"] = Runtime(book, seen)]
  BY DEF ReloadRows
<1>read. held \subseteq OpenRows /\ faults' \in 0..MaxFaults
  BY <1>open, RowsReads
<1> DEFINE book == [held |-> held, total |-> reload]
<1>2. reload # None /\ reload \in Sums
  BY TypesOpened DEF ReloadRows
<1>3. /\ book \in [held : SUBSET Mine, total : Sums]
      /\ \A t \in Trades \ opened : t \notin book.held /\ book.total[t] = 0
      /\ ~contended => \A t \in Mine \ carried : book.total[t] <= 1 /\ (t \in book.held => book.total[t] = 0)
  <2>1. \A t \in Trades \ opened : reload[t] = 0
    BY <1>2 DEF HandInv, Unopened
  <2>2. ~contended => \A t \in Mine \ carried : reload[t] <= 1 /\ (Unclosed(t) => reload[t] = 0)
    BY <1>2 DEF HandInv, Sound, Counted, Backed
  <2> QED
    BY <1>read, <1>2, <2>1, <2>2, BookIsGood
<1>4. boot' = book /\ reload' = None /\ engine' = [engine EXCEPT !["tab"] = Runtime(book, seen)]
  BY <1>open DEF ReloadRows
<1> HIDE DEF book
<1>5. /\ Runtime(book, seen) \in EngineRecs /\ Runtime(book, seen).phase = "on"
      /\ Runtime(book, seen).held = book.held /\ Runtime(book, seen).total = book.total
  BY <1>3, RuntimeType
<1>6. \A d \in Engines : \/ engine'[d] = engine[d]
                         \/ engine'[d].phase = "on" /\ engine'[d].held = book.held /\ engine'[d].total = book.total
  BY <1>4, <1>5, TypesOpened
<1>7. HandTypes'
  <2>1. engine' \in [Engines -> EngineRecs]
    BY <1>4, <1>5, TypesOpened
  <2> QED
    BY <1>1, <1>read, <1>3, <1>4, <2>1, TypesOpened, ReadsTypes
<1>8. Unopened'
  BY <1>1, <1>3, <1>4, <1>6 DEF HandInv, Unopened
<1>9. Idle'
  BY <1>1 DEF HandInv, Idle
<1>10. ASSUME ~contended PROVE Sound'
  <2>1. \A t : Unclosed(t)' <=> Unclosed(t)
    BY <1>1 DEF Unclosed
  <2>2. Once' /\ Watched'
    BY <1>1, <1>10 DEF HandInv, Sound, Once, Watched, Works
  <2>3. Counted'
    BY <1>1, <1>3, <1>4, <1>6, <1>10 DEF HandInv, Sound, Counted
  <2>4. Backed'
    BY <1>1, <1>4, <1>6, <1>10, <2>1 DEF HandInv, Sound, Backed
  <2> QED
    BY <2>2, <2>3, <2>4 DEF Sound
<1> QED
  BY <1>7, <1>8, <1>9, <1>10

(* A boot without an answer, and a refresh without one *)
LEMMA FallbackKeeps ==
  ASSUME HandInv, FallbackBoot \/ ReloadFails
  PROVE  HandTypes' /\ Unopened' /\ Idle' /\ (~contended => Sound')
<1>1. UNCHANGED <<rows, total, wire, run, opened, carried, starts, beat, lease, crossed>>
  BY DEF FallbackBoot, ReloadFails, history
<1>2. faults' \in 0..MaxFaults
  BY FailsType DEF FallbackBoot, ReloadFails
<1>3. /\ boot' = boot \/ boot' = EmptyBook
      /\ reload' = reload \/ reload' = None
  BY DEF FallbackBoot, ReloadFails
<1>4. /\ engine' \in [Engines -> EngineRecs]
      /\ \A e \in Engines : engine'[e] = engine[e] \/ engine'[e] = Runtime(EmptyBook, seen)
  <2>1. Runtime(EmptyBook, seen) \in EngineRecs
    BY Typical, RuntimeType
  <2>2. engine' = engine \/ engine' = [engine EXCEPT !["tab"] = Runtime(EmptyBook, seen)]
    BY DEF FallbackBoot, ReloadFails
  <2> QED
    BY <2>1, <2>2, TypesOpened
<1>5. HandTypes'
  BY <1>1, <1>2, <1>3, <1>4, Typical, TypesOpened, EnginesMoveTypes
<1> QED
  BY <1>1, <1>3, <1>4, <1>5, EnginesMove

-----------------------------------------------------------------------------
(* The engines' writes *)

LEMMA RowTypes ==
  ASSUME HandInv
  PROVE  /\ rows \in [Trades -> {"none", "open", "engine", "watchdog"}] /\ total \in Sums
         /\ wire \subseteq Writes /\ run \in [Runs -> RunRecs] /\ (\A m \in wire : m.trade \in Mine)
         /\ opened \subseteq Trades /\ carried \subseteq Mine /\ Mine \subseteq Trades
  BY DEF HandInv, HandTypes, TypeOK, Sums, Mine

LEMMA WriteTypes ==
  ASSUME HandInv,
         UNCHANGED <<crossed, beat, lease, starts, run, boot, reload>>,
         rows' \in [Trades -> {"none", "open", "engine", "watchdog"}], total' \in Sums,
         engine' \in [Engines -> EngineRecs], wire' \subseteq Writes, \A m \in wire' : m.trade \in Mine,
         opened' \subseteq Trades, carried' \subseteq Mine, faults' \in 0..MaxFaults
  PROVE  HandTypes'
  BY DEF HandInv, HandTypes, TypeOK, EngineRecs, Sums, Mine

(* Nobody else is at work while an engine lives or a write is in flight. *)
LEMMA NoRun ==
  ASSUME HandInv, ~contended, wire # {} \/ \E e \in Engines : engine[e].phase # "off", NEW w \in Runs
  PROVE  ~Active(w)
  BY LoneRun

LEMMA AtRest ==
  ASSUME NEW w \in Runs, ~Active(w), Idle
  PROVE  Works(run[w])
  BY DEF Active, Works

LEMMA RestStays ==
  ASSUME Idle, run' = run, \A w \in Runs : ~Active(w)
  PROVE  Idle' /\ Watched'
  BY DEF Active, Works, Watched, Idle

LEMMA EngineOpenKeeps ==
  ASSUME HandInv, NEW e \in Engines, NEW t \in Trades, EngineOpen(e, t)
  PROVE  HandTypes' /\ Unopened' /\ Idle' /\ (~contended => Sound')
<1> DEFINE m == Write("open", t, e, NoResults)
<1>1. UNCHANGED <<rows, total, run, carried, crossed, beat, lease, starts, faults, boot, reload>>
  BY DEF EngineOpen, view, counters
<1>2. t \in Mine /\ t \notin opened /\ opened' = opened \cup {t} /\ engine[e].phase = "on"
  BY DEF EngineOpen, Live
<1>3. wire' = wire \cup {m} /\ engine' = [engine EXCEPT ![e].held = @ \cup {t}]
  BY DEF EngineOpen
<1>4. m \in Writes /\ m.kind = "open" /\ m.trade = t /\ m.total = NoResults
  <2>1. engine[e].readOnly \in BOOLEAN
    BY TypesOpened DEF EngineRecs
  <2> QED
    BY <2>1, Typical DEF Write, Writes, Sums
<1> HIDE DEF m
<1>5. /\ engine' \in [Engines -> EngineRecs]
      /\ \A d \in Engines : /\ engine'[d].total = engine[d].total /\ engine'[d].phase = engine[d].phase
                            /\ engine'[d].held = IF d = e THEN engine[e].held \cup {t} ELSE engine[d].held
  <2>1. engine[e].held \cup {t} \in SUBSET Mine
    BY <1>2, TypesOpened DEF EngineRecs
  <2> QED
    BY <1>3, <2>1, TypesOpened DEF EngineRecs
<1>6. HandTypes'
  BY <1>1, <1>2, <1>3, <1>4, <1>5, RowTypes, TypesOpened, WriteTypes
<1>7. Unopened'
  BY <1>1, <1>2, <1>3, <1>4, <1>5, Typical DEF HandInv, Unopened
<1>8. Idle'
  BY <1>1 DEF HandInv, Idle
<1>9. ASSUME ~contended PROVE Sound'
  <2>1. \A s \in Trades : s # t => (Unclosed(s)' <=> Unclosed(s))
    BY <1>1, <1>3, <1>4 DEF Unclosed
  <2>2. /\ total[t] = 0 /\ (reload # None => reload[t] = 0)
        /\ \A d \in Engines : engine[d].total[t] = 0
        /\ \A o \in wire : o.trade # t
    BY <1>2 DEF HandInv, Unopened
  <2>3. Once' /\ Watched'
    BY <1>1, <1>9 DEF HandInv, Sound, Once, Watched, Works
  <2>4. Counted'
    <3>1. \A s \in Mine : NoResults[s] = 0
      BY Typical DEF Mine
    <3>2. ASSUME NEW s \in Mine \ carried, NEW d \in Engines
          PROVE  /\ engine'[d].total[s] <= 1 /\ (s \in engine'[d].held => engine'[d].total[s] = 0)
      BY <1>5, <1>9, <2>2 DEF HandInv, Sound, Counted
    <3>3. \A s \in Mine \ carried : \A o \in wire' : o.total[s] <= 1
      BY <1>3, <1>4, <1>9, <3>1 DEF HandInv, Sound, Counted
    <3> QED
      BY <1>1, <1>9, <3>2, <3>3 DEF HandInv, Sound, Counted
  <2>5. Backed'
    <3>1. ASSUME NEW s \in Mine \ carried, Unclosed(s)'
          PROVE  /\ total[s] = 0 /\ (reload # None => reload[s] = 0)
                 /\ \A d \in Engines : engine[d].phase = "load" => engine[d].total[s] = 0
                 /\ \A o \in wire : o.kind = "account" => o.trade # s
      BY <1>9, <2>1, <2>2, <3>1, RowTypes DEF HandInv, Sound, Backed
    <3> QED
      BY <1>1, <1>3, <1>4, <1>5, <3>1 DEF Backed
  <2> QED
    BY <2>3, <2>4, <2>5 DEF Sound
<1> QED
  BY <1>6, <1>7, <1>8, <1>9

LEMMA EngineCloseKeeps ==
  ASSUME HandInv, NEW e \in Engines, NEW t \in Trades, EngineClose(e, t)
  PROVE  HandTypes' /\ Unopened' /\ Idle' /\ (~contended => Sound')
<1> DEFINE sum == [engine[e].total EXCEPT ![t] = @ + 1]
           m == Write("row", t, e, sum)
<1>1. UNCHANGED <<rows, total, run, opened, carried, crossed, beat, lease, starts, faults, boot, reload>>
  BY DEF EngineClose, view, counters, history
<1>2. t \in engine[e].held /\ t \in Mine /\ engine[e].phase = "on"
  BY TypesOpened DEF EngineClose, Live, EngineRecs
<1>3. wire' = wire \cup {m} /\ engine' = [engine EXCEPT ![e].held = @ \ {t}, ![e].total = sum]
  BY DEF EngineClose
<1>4. /\ sum \in Sums /\ sum[t] = engine[e].total[t] + 1
      /\ \A s \in Trades : s # t => sum[s] = engine[e].total[s]
  BY TypesOpened DEF EngineRecs, Sums
<1>5. m \in Writes /\ m.kind = "row" /\ m.trade = t /\ m.total = sum
  <2>1. engine[e].readOnly \in BOOLEAN
    BY TypesOpened DEF EngineRecs
  <2> HIDE DEF sum
  <2> QED
    BY <1>4, <2>1 DEF Write, Writes, Sums
<1> HIDE DEF m, sum
<1>6. /\ engine' \in [Engines -> EngineRecs]
      /\ \A d \in Engines : d # e => engine'[d] = engine[d]
      /\ engine'[e].total = sum /\ engine'[e].phase = "on" /\ engine'[e].held = engine[e].held \ {t}
  <2>1. engine[e].held \ {t} \in SUBSET Mine
    BY TypesOpened DEF EngineRecs
  <2> QED
    BY <1>2, <1>3, <1>4, <2>1, TypesOpened DEF EngineRecs
<1>7. HandTypes'
  BY <1>1, <1>2, <1>3, <1>5, <1>6, RowTypes, TypesOpened, WriteTypes
<1>8. Unopened'
  <2>1. t \in opened
    BY <1>2 DEF HandInv, Unopened
  <2>2. \A s \in Trades \ opened : sum[s] = 0
    BY <1>4, <2>1 DEF HandInv, Unopened
  <2> QED
    BY <1>1, <1>3, <1>5, <1>6, <2>1, <2>2 DEF HandInv, Unopened
<1>9. Idle'
  BY <1>1 DEF HandInv, Idle
<1>10. ASSUME ~contended PROVE Sound'
  <2>1. \A s : Unclosed(s)' <=> Unclosed(s)
    BY <1>1, <1>3, <1>5 DEF Unclosed
  <2>2. Once' /\ Watched'
    BY <1>1, <1>10 DEF HandInv, Sound, Once, Watched, Works
  <2>3. ASSUME NEW s \in Mine \ carried
        PROVE  sum[s] <= 1 /\ (s \in engine[e].held \ {t} => sum[s] = 0)
    <3>1. CASE s = t
      BY <1>2, <1>4, <1>10, <3>1 DEF HandInv, Sound, Counted
    <3>2. CASE s # t
      BY <1>4, <1>10, <3>2, RowTypes DEF HandInv, Sound, Counted
    <3> QED
      BY <3>1, <3>2
  <2>4. Counted'
    BY <1>1, <1>3, <1>5, <1>6, <1>10, <2>3 DEF HandInv, Sound, Counted
  <2>5. Backed'
    BY <1>1, <1>3, <1>5, <1>6, <1>10, <2>1 DEF HandInv, Sound, Backed
  <2> QED
    BY <2>2, <2>4, <2>5 DEF Sound
<1> QED
  BY <1>7, <1>8, <1>9, <1>10

LEMMA LoseKeeps ==
  ASSUME HandInv, NEW m \in wire, Lose(m)
  PROVE  HandTypes' /\ Unopened' /\ Idle' /\ (~contended => Sound')
<1>1. UNCHANGED <<rows, total, run, opened, carried, crossed, beat, lease, starts, boot, reload, engine>>
  BY DEF Lose, view, history
<1>2. wire' \subseteq wire /\ faults' \in 0..MaxFaults
  BY FailsType DEF Lose
<1>3. HandTypes'
  BY <1>1, <1>2, RowTypes, TypesOpened, WriteTypes
<1>4. Unopened' /\ Idle'
  BY <1>1, <1>2 DEF HandInv, Unopened, Idle
<1>5. ASSUME ~contended PROVE Sound'
  <2>1. \A s : Unclosed(s)' => Unclosed(s)
    BY <1>1, <1>2 DEF Unclosed
  <2>2. Once' /\ Watched'
    BY <1>1, <1>5 DEF HandInv, Sound, Once, Watched, Works
  <2>3. Counted'
    BY <1>1, <1>2, <1>5 DEF HandInv, Sound, Counted
  <2>4. Backed'
    BY <1>1, <1>2, <1>5, <2>1 DEF HandInv, Sound, Backed
  <2> QED
    BY <2>2, <2>3, <2>4 DEF Sound
<1> QED
  BY <1>3, <1>4, <1>5

LEMMA LandOpenKeeps ==
  ASSUME HandInv, NEW m \in wire, Land(m), m.kind = "open"
  PROVE  HandTypes' /\ Unopened' /\ Idle' /\ (~contended => Sound')
<1>1. UNCHANGED <<total, run, opened, carried, crossed, beat, lease, starts, faults, boot, reload, engine>>
  BY DEF Land, view, counters
<1>2. wire' = wire \ {m} /\ rows' = [rows EXCEPT ![m.trade] = "open"] /\ m.trade \in Mine /\ m.trade \in Trades
  BY RowTypes DEF Land
<1>3. HandTypes'
  <2>1. rows' \in [Trades -> {"none", "open", "engine", "watchdog"}]
    BY <1>2, RowTypes
  <2> QED
    BY <1>1, <1>2, <2>1, RowTypes, TypesOpened, WriteTypes
<1>4. Unopened' /\ Idle'
  <2>1. m.trade \in opened
    BY <1>2 DEF HandInv, Unopened
  <2> QED
    BY <1>1, <1>2, <2>1, RowTypes DEF HandInv, Unopened, Idle
<1>5. ASSUME ~contended PROVE Sound'
  <2>1. \A s \in Trades : Unclosed(s)' => Unclosed(s)
    BY <1>1, <1>2, RowTypes DEF Unclosed
  <2>2. Unclosed(m.trade)
    BY DEF Unclosed
  <2>3. Once'
    <3>1. m.trade \notin carried => total[m.trade] = 0
      BY <1>2, <1>5, <2>2 DEF HandInv, Sound, Backed
    <3> QED
      BY <1>1, <1>2, <1>5, <3>1, RowTypes DEF HandInv, Sound, Once
  <2>4. Watched'
    BY <1>1, <1>5, NoRun, RestStays DEF HandInv
  <2>5. Counted'
    BY <1>1, <1>2, <1>5 DEF HandInv, Sound, Counted
  <2>6. Backed'
    BY <1>1, <1>2, <1>5, <2>1, RowTypes DEF HandInv, Sound, Backed
  <2> QED
    BY <2>3, <2>4, <2>5, <2>6 DEF Sound
<1> QED
  BY <1>3, <1>4, <1>5

LEMMA LandRowKeeps ==
  ASSUME HandInv, NEW m \in wire, Land(m), m.kind = "row"
  PROVE  HandTypes' /\ Unopened' /\ Idle' /\ (~contended => Sound')
<1> DEFINE n == [m EXCEPT !.kind = "account"]
<1>1. UNCHANGED <<total, run, opened, carried, crossed, beat, lease, starts, faults, boot, reload, engine>>
  BY DEF Land, view, counters
<1>2. /\ wire' = (wire \ {m}) \cup {n} /\ m.trade \in Mine /\ m.trade \in Trades
      /\ rows' = [rows EXCEPT ![m.trade] = IF @ = "none" THEN @ ELSE "engine"]
  BY RowTypes DEF Land
<1>3. n \in Writes /\ n.kind = "account" /\ n.trade = m.trade /\ n.total = m.total
  BY RowTypes DEF Writes
<1> HIDE DEF n
<1>4. HandTypes'
  <2>1. rows' \in [Trades -> {"none", "open", "engine", "watchdog"}]
    BY <1>2, RowTypes
  <2> QED
    BY <1>1, <1>2, <1>3, <2>1, RowTypes, TypesOpened, WriteTypes
<1>5. Unopened' /\ Idle'
  <2>1. m.trade \in opened
    BY <1>2 DEF HandInv, Unopened
  <2> QED
    BY <1>1, <1>2, <1>3, <2>1, RowTypes DEF HandInv, Unopened, Idle
<1>6. ASSUME ~contended PROVE Sound'
  <2>1. \A o \in wire : o.kind = "open" => o.trade # m.trade
    BY DEF Land
  <2>2. ~Unclosed(m.trade)'
    BY <1>2, <1>3, <2>1, RowTypes DEF Unclosed
  <2>3. \A s \in Trades : Unclosed(s)' => Unclosed(s) /\ s # m.trade
    BY <1>2, <1>3, <2>2, RowTypes DEF Unclosed
  <2>4. Once'
    BY <1>1, <1>2, <1>6, RowTypes DEF HandInv, Sound, Once
  <2>5. Watched'
    BY <1>1, <1>6, NoRun, RestStays DEF HandInv
  <2>6. Counted'
    BY <1>1, <1>2, <1>3, <1>6 DEF HandInv, Sound, Counted
  <2>7. Backed'
    BY <1>1, <1>2, <1>3, <1>6, <2>3, RowTypes DEF HandInv, Sound, Backed
  <2> QED
    BY <2>4, <2>5, <2>6, <2>7 DEF Sound
<1> QED
  BY <1>4, <1>5, <1>6

LEMMA LandAccountKeeps ==
  ASSUME HandInv, NEW m \in wire, Land(m), m.kind = "account"
  PROVE  HandTypes' /\ Unopened' /\ Idle' /\ (~contended => Sound')
<1>1. UNCHANGED <<rows, run, opened, crossed, beat, lease, starts, faults, boot, reload, engine>>
  BY DEF Land, view, counters
<1>2. /\ wire' = wire \ {m} /\ m.trade \in Mine
      /\ total' = [t \in Trades |-> IF t \in Mine THEN m.total[t] ELSE total[t]]
      /\ carried' = carried \cup {t \in Mine \ {m.trade} : m.total[t] > 0 /\ Unclosed(t)}
  BY RowTypes DEF Land
<1>3. m.total \in Sums
  BY RowTypes DEF Writes, Sums
<1>4. HandTypes'
  <2>1. total' \in Sums
    BY <1>2, <1>3, RowTypes DEF Sums
  <2>2. carried' \subseteq Mine
    BY <1>2, RowTypes
  <2> QED
    BY <1>1, <1>2, <2>1, <2>2, RowTypes, TypesOpened, WriteTypes
<1>5. Unopened' /\ Idle'
  BY <1>1, <1>2 DEF HandInv, Unopened, Idle
<1>6. ASSUME ~contended PROVE Sound'
  <2>1. \A s \in Trades : Unclosed(s)' => Unclosed(s)
    BY <1>1, <1>2, RowTypes DEF Unclosed
  <2>2. ASSUME NEW s \in Mine \ carried', Unclosed(s)
        PROVE  m.total[s] = 0 /\ total'[s] = 0
    <3>1. s # m.trade
      BY <1>2, <1>6, <2>2 DEF HandInv, Sound, Backed
    <3>2. m.total[s] \in Nat /\ ~(m.total[s] > 0)
      BY <1>2, <1>3, <2>2, <3>1, RowTypes DEF Sums
    <3> QED
      BY <1>2, <3>2, RowTypes
  <2>3. Once'
    <3> SUFFICES ASSUME NEW s \in Trades, s \notin carried'
                 PROVE  total'[s] <= 1 /\ (total'[s] = 1 => rows'[s] # "open")
      BY DEF Once
    <3>1. CASE s \in Mine
      <4>1. total'[s] = m.total[s] /\ m.total[s] <= 1
        BY <1>2, <1>6, <3>1 DEF HandInv, Sound, Counted
      <4>2. rows[s] = "open" => total'[s] = 0
        BY <2>2, <3>1 DEF Unclosed
      <4> QED
        BY <1>1, <4>1, <4>2
    <3>2. CASE s \notin Mine
      BY <1>1, <1>2, <1>6, <3>2 DEF HandInv, Sound, Once
    <3> QED
      BY <3>1, <3>2
  <2>4. Watched'
    BY <1>1, <1>6, NoRun, RestStays DEF HandInv
  <2>5. Counted'
    BY <1>1, <1>2, <1>6 DEF HandInv, Sound, Counted
  <2>6. Backed'
    BY <1>1, <1>2, <1>6, <2>1, <2>2, RowTypes DEF HandInv, Sound, Backed
  <2> QED
    BY <2>3, <2>4, <2>5, <2>6 DEF Sound
<1> QED
  BY <1>4, <1>5, <1>6

LEMMA LandKeeps ==
  ASSUME HandInv, NEW m \in wire, Land(m)
  PROVE  HandTypes' /\ Unopened' /\ Idle' /\ (~contended => Sound')
<1>1. m.kind = "open" \/ m.kind = "row" \/ m.kind = "account"
  BY DEF Land
<1> QED
  BY <1>1, LandOpenKeeps, LandRowKeeps, LandAccountKeeps

-----------------------------------------------------------------------------
(* The watchdog *)

LEMMA RunType ==
  ASSUME HandInv, NEW w \in Runs
  PROVE  /\ run[w] \in RunRecs /\ run[w].at \in Stages /\ run[w].todo \subseteq Trades
         /\ run[w].orphaned \subseteq Users /\ run[w].delta \in Sums /\ run[w].read \in Sums
  BY RowTypes DEF RunRecs

LEMMA AtFits ==
  ASSUME HandInv, NEW w \in Runs, NEW at \in Stages
  PROVE  /\ At(w, at) \in RunRecs /\ At(w, at).at = at /\ At(w, at).todo = run[w].todo
         /\ At(w, at).delta = run[w].delta /\ At(w, at).read = run[w].read
  BY RunType DEF At, RunRecs

(* A step that moves one invocation on and writes neither rows nor account *)
LEMMA RunMoves ==
  ASSUME HandInv, NEW w \in Runs, NEW r \in RunRecs, run' = [run EXCEPT ![w] = r],
         UNCHANGED <<rows, total, wire, opened, carried, crossed, beat, engine, boot, reload, starts>>,
         lease' \in 0..LeaseFor, faults' \in 0..MaxFaults,
         \A t \in Trades \ opened : t \notin r.todo /\ r.delta[t] = 0 /\ r.read[t] = 0,
         r.at \in {"idle", "claim", "scan"} => r.delta = NoResults,
         ~contended => Works(r)
  PROVE  HandTypes' /\ Unopened' /\ Idle' /\ (~contended => Sound')
<1>1. run' \in [Runs -> RunRecs] /\ \A v \in Runs : run'[v] = IF v = w THEN r ELSE run[v]
  BY RowTypes
<1>2. HandTypes'
  BY <1>1 DEF HandInv, HandTypes, TypeOK, RunRecs
<1>3. Unopened'
  BY <1>1 DEF HandInv, Unopened
<1>4. Idle'
  BY <1>1 DEF HandInv, Idle
<1>5. ASSUME ~contended PROVE Sound'
  <2>1. Once' /\ Counted'
    BY <1>5 DEF HandInv, Sound, Once, Counted
  <2>2. Backed'
    BY <1>5 DEF HandInv, Sound, Backed, Unclosed
  <2>3. Watched'
    BY <1>1, <1>5 DEF HandInv, Sound, Watched, Works
  <2> QED
    BY <2>1, <2>2, <2>3 DEF Sound
<1> QED
  BY <1>2, <1>3, <1>4, <1>5

(* What such an invocation keeps of what it has *)
LEMMA RunStays ==
  ASSUME HandInv, NEW w \in Runs
  PROVE  /\ \A t \in Trades \ opened : t \notin run[w].todo /\ run[w].delta[t] = 0 /\ run[w].read[t] = 0
         /\ run[w].at \in {"idle", "claim", "scan"} => run[w].delta = NoResults
         /\ ~contended => Works(run[w])
  BY DEF HandInv, Unopened, Idle, Sound, Watched

LEMMA EndsIdle ==
  /\ IdleRun \in RunRecs /\ Works(IdleRun)
  /\ \A t \in Trades : t \notin IdleRun.todo /\ IdleRun.delta[t] = 0 /\ IdleRun.read[t] = 0
  BY Typical DEF Works

LEMMA LeaseReadKeeps ==
  ASSUME HandInv, NEW w \in Runs, LeaseRead(w)
  PROVE  HandTypes' /\ Unopened' /\ Idle' /\ (~contended => Sound')
<1>1. /\ UNCHANGED <<rows, total, wire, opened, carried, crossed, beat, engine, boot, reload, starts, lease>>
      /\ run[w].at = "idle" /\ run' = [run EXCEPT ![w] = At(w, "claim")]
      /\ Fails \/ UNCHANGED faults
  BY DEF LeaseRead, KeepsEngines, view, history, Goes
<1>2. "claim" \in Stages
  BY DEF Stages
<1> DEFINE r == At(w, "claim")
<1>3. /\ r \in RunRecs /\ r.at = "claim" /\ r.todo = run[w].todo
      /\ r.delta = run[w].delta /\ r.read = run[w].read
  BY <1>2, AtFits
<1>4. run' = [run EXCEPT ![w] = r]
  BY <1>1
<1> HIDE DEF r
<1>5. Works(r)
  BY <1>3 DEF Works
<1>6. r.delta = NoResults /\ \A t \in Trades \ opened : t \notin r.todo /\ r.delta[t] = 0 /\ r.read[t] = 0
  BY <1>1, <1>3, RunStays
<1>7. lease' \in 0..LeaseFor /\ faults' \in 0..MaxFaults
  BY <1>1, FailsType, TypesOpened
<1> QED
  BY <1>1, <1>3, <1>4, <1>5, <1>6, <1>7, RunMoves

LEMMA LeaseClaimKeeps ==
  ASSUME HandInv, NEW w \in Runs, LeaseClaim(w)
  PROVE  HandTypes' /\ Unopened' /\ Idle' /\ (~contended => Sound')
<1>1. /\ UNCHANGED <<rows, total, wire, opened, carried, crossed, beat, engine, boot, reload, starts, faults>>
      /\ run[w].at = "claim" /\ run' = [run EXCEPT ![w] = At(w, "scan")] /\ lease' = LeaseFor
  BY DEF LeaseClaim, KeepsEngines, view, history, Goes
<1>2. "scan" \in Stages
  BY DEF Stages
<1> DEFINE r == At(w, "scan")
<1>3. /\ r \in RunRecs /\ r.at = "scan" /\ r.todo = run[w].todo
      /\ r.delta = run[w].delta /\ r.read = run[w].read
  BY <1>2, AtFits
<1>4. run' = [run EXCEPT ![w] = r] /\ lease' \in 0..LeaseFor
  BY <1>1, TypesOpened
<1> HIDE DEF r
<1>5. r.delta = NoResults
  BY <1>1, <1>3, RunStays
<1>6. Works(r)
  BY <1>3, <1>5 DEF Works
<1>7. \A t \in Trades \ opened : t \notin r.todo /\ r.delta[t] = 0 /\ r.read[t] = 0
  BY <1>3, RunStays
<1>8. faults' \in 0..MaxFaults
  BY <1>1, TypesOpened
<1> QED
  BY <1>1, <1>3, <1>4, <1>5, <1>6, <1>7, <1>8, RunMoves

(* From any stage an invocation may stop working. *)
LEMMA GoesToRelease ==
  ASSUME HandInv, NEW w \in Runs, run' = [run EXCEPT ![w] = At(w, "release")],
         UNCHANGED <<rows, total, wire, opened, carried, crossed, beat, engine, boot, reload, starts, lease>>,
         faults' \in 0..MaxFaults
  PROVE  HandTypes' /\ Unopened' /\ Idle' /\ (~contended => Sound')
<1>1. "release" \in Stages
  BY DEF Stages
<1> DEFINE r == At(w, "release")
<1>2. /\ r \in RunRecs /\ r.at = "release" /\ r.todo = run[w].todo
      /\ r.delta = run[w].delta /\ r.read = run[w].read
  BY <1>1, AtFits
<1>3. run' = [run EXCEPT ![w] = r]
  OBVIOUS
<1> HIDE DEF r
<1>4. Works(r)
  BY <1>2 DEF Works
<1>5. \A t \in Trades \ opened : t \notin r.todo /\ r.delta[t] = 0 /\ r.read[t] = 0
  BY <1>2, RunStays
<1>6. lease' \in 0..LeaseFor
  BY TypesOpened
<1> QED
  BY <1>2, <1>3, <1>4, <1>5, <1>6, RunMoves

LEMMA ScanKeeps ==
  ASSUME HandInv, NEW w \in Runs, Scan(w)
  PROVE  HandTypes' /\ Unopened' /\ Idle' /\ (~contended => Sound')
<1> DEFINE todos == FirstTrades({t \in Trades : rows[t] = "open"})
           r == [At(w, "check") EXCEPT !.todo = todos]
<1>1. /\ UNCHANGED <<rows, total, wire, opened, carried, crossed, beat, engine, boot, reload, starts, lease>>
      /\ run[w].at = "scan" /\ faults' \in 0..MaxFaults
      /\ run' = [run EXCEPT ![w] = At(w, "release")] \/ run' = [run EXCEPT ![w] = r]
  BY FailsType DEF Scan, KeepsEngines, view, history, Goes
<1>2. todos \subseteq {t \in Trades : rows[t] = "open"}
  BY DEF FirstTrades
<1>3. "check" \in Stages
  BY DEF Stages
<1>4. /\ r \in RunRecs /\ r.at = "check" /\ r.todo = todos
      /\ r.delta = run[w].delta /\ r.read = run[w].read
  <2> HIDE DEF todos
  <2> QED
    BY <1>2, <1>3, AtFits DEF RunRecs
<1>5. r.delta = NoResults
  BY <1>1, <1>4, RunStays
<1>6. \A t \in r.todo : rows[t] = "open" /\ t \in opened
  BY <1>2, <1>4 DEF HandInv, Unopened
<1> HIDE DEF r, todos
<1>7. Works(r)
  BY <1>4, <1>5, <1>6 DEF Works
<1>8. CASE run' = [run EXCEPT ![w] = r]
  <2>1. \A t \in Trades \ opened : t \notin r.todo /\ r.delta[t] = 0 /\ r.read[t] = 0
    BY <1>4, <1>6, RunStays
  <2>2. lease' \in 0..LeaseFor
    BY <1>1, TypesOpened
  <2> QED
    BY <1>1, <1>4, <1>5, <1>7, <1>8, <2>1, <2>2, RunMoves
<1> QED
  BY <1>1, <1>8, GoesToRelease

LEMMA CheckKeeps ==
  ASSUME HandInv, NEW w \in Runs, Check(w)
  PROVE  HandTypes' /\ Unopened' /\ Idle' /\ (~contended => Sound')
<1> DEFINE owners == FirstOwners(run[w].todo)
           quiet == {u \in owners : ~HasDriver(u)}
           q(S) == [At(w, "marks") EXCEPT !.orphaned = S]
<1>1. /\ UNCHANGED <<rows, total, wire, opened, carried, crossed, beat, engine, boot, reload, starts, lease>>
      /\ run[w].at = "check" /\ faults' \in 0..MaxFaults
      /\ \/ run' = [run EXCEPT ![w] = At(w, "release")]
         \/ \E S \in SUBSET owners : run' = [run EXCEPT ![w] = q(S)]
  BY FailsType DEF Check, KeepsEngines, view, history, Goes
<1>2. owners \subseteq Users
  BY RunType, HandOverAssumption DEF FirstOwners
<1>3. "marks" \in Stages
  BY DEF Stages
<1>4. ASSUME NEW S \in SUBSET owners, run' = [run EXCEPT ![w] = q(S)]
      PROVE  HandTypes' /\ Unopened' /\ Idle' /\ (~contended => Sound')
  <2> DEFINE r == q(S)
  <2>1. /\ r \in RunRecs /\ r.at = "marks" /\ r.todo = run[w].todo
        /\ r.delta = run[w].delta /\ r.read = run[w].read
    <3>1. S \subseteq Users
      BY <1>2
    <3> HIDE DEF owners
    <3> QED
      BY <1>3, <3>1, AtFits DEF RunRecs
  <2>2. run' = [run EXCEPT ![w] = r]
    BY <1>4
  <2> HIDE DEF r, q, owners, quiet
  <2>3. ~contended => Works(r)
    BY <1>1, <2>1, RunStays DEF Works
  <2>4. \A t \in Trades \ opened : t \notin r.todo /\ r.delta[t] = 0 /\ r.read[t] = 0
    BY <2>1, RunStays
  <2>5. lease' \in 0..LeaseFor
    BY <1>1, TypesOpened
  <2> QED
    BY <1>1, <2>1, <2>2, <2>3, <2>4, <2>5, RunMoves
<1> QED
  BY <1>1, <1>4, GoesToRelease

LEMMA FetchMarksKeeps ==
  ASSUME HandInv, NEW w \in Runs, FetchMarks(w)
  PROVE  HandTypes' /\ Unopened' /\ Idle' /\ (~contended => Sound')
<1> DEFINE due == {t \in run[w].todo : Owner[t] \in run[w].orphaned /\ t \in crossed}
           r == [At(w, "settle") EXCEPT !.todo = due]
<1>1. /\ UNCHANGED <<rows, total, wire, opened, carried, crossed, beat, engine, boot, reload, starts, lease>>
      /\ run[w].at = "marks" /\ faults' \in 0..MaxFaults
      /\ run' = [run EXCEPT ![w] = At(w, "release")] \/ run' = [run EXCEPT ![w] = r]
  BY FailsType DEF FetchMarks, KeepsEngines, view, history, Goes
<1>2. due \subseteq run[w].todo /\ due \subseteq Trades
  BY RunType
<1>3. "settle" \in Stages
  BY DEF Stages
<1>4. /\ r \in RunRecs /\ r.at = "settle" /\ r.todo = due
      /\ r.delta = run[w].delta /\ r.read = run[w].read
  <2> HIDE DEF due
  <2> QED
    BY <1>2, <1>3, AtFits DEF RunRecs
<1> HIDE DEF r, due
<1>5. ~contended => Works(r)
  <2>1. ~contended => r.delta = NoResults /\ \A t \in r.todo : rows[t] = "open"
    BY <1>1, <1>2, <1>4, RunStays DEF Works
  <2> QED
    BY <1>4, <2>1, Typical DEF Works
<1>6. CASE run' = [run EXCEPT ![w] = r]
  BY <1>1, <1>2, <1>4, <1>5, <1>6, RunMoves, RunStays, TypesOpened
<1> QED
  BY <1>1, <1>6, GoesToRelease

LEMMA ReadAccountKeeps ==
  ASSUME HandInv, NEW w \in Runs, ReadAccount(w)
  PROVE  HandTypes' /\ Unopened' /\ Idle' /\ (~contended => Sound')
<1> DEFINE q(sum) == [At(w, "account") EXCEPT !.read = sum]
<1>1. /\ UNCHANGED <<rows, total, wire, opened, carried, crossed, beat, engine, boot, reload, starts, lease>>
      /\ run[w].at = "settle" /\ run[w].todo = {} /\ faults' \in 0..MaxFaults
      /\ \/ run' = [run EXCEPT ![w] = At(w, "release")]
         \/ run' = [run EXCEPT ![w] = q(total)] \/ run' = [run EXCEPT ![w] = q(NoResults)]
  BY FailsType DEF ReadAccount, KeepsEngines, view, history, Goes
<1>2. "account" \in Stages
  BY DEF Stages
<1>3. ASSUME NEW sum \in Sums, \A t \in Trades : sum[t] <= total[t],
             \A t \in Trades \ opened : sum[t] = 0,
             run' = [run EXCEPT ![w] = q(sum)]
      PROVE  HandTypes' /\ Unopened' /\ Idle' /\ (~contended => Sound')
  <2> DEFINE r == q(sum)
  <2>1. /\ r \in RunRecs /\ r.at = "account" /\ r.todo = run[w].todo
        /\ r.delta = run[w].delta /\ r.read = sum
    BY <1>2, AtFits DEF RunRecs
  <2>2. run' = [run EXCEPT ![w] = r]
    BY <1>3
  <2> HIDE DEF r, q
  <2>3. ~contended => Works(r)
    BY <1>1, <1>3, <2>1, RunStays DEF Works
  <2>4. \A t \in Trades \ opened : t \notin r.todo /\ r.delta[t] = 0 /\ r.read[t] = 0
    BY <1>3, <2>1, RunStays
  <2>5. lease' \in 0..LeaseFor
    BY <1>1, TypesOpened
  <2> QED
    BY <1>1, <2>1, <2>2, <2>3, <2>4, <2>5, RunMoves
<1>4. /\ \A t \in Trades : total[t] <= total[t] /\ NoResults[t] <= total[t] /\ NoResults[t] = 0
      /\ \A t \in Trades \ opened : total[t] = 0
  BY RowTypes, Typical, TotalsFit DEF Sums
<1> QED
  BY <1>1, <1>3, <1>4, RowTypes, Typical, GoesToRelease

LEMMA ReleaseKeeps ==
  ASSUME HandInv, NEW w \in Runs, Release(w) \/ Die(w)
  PROVE  HandTypes' /\ Unopened' /\ Idle' /\ (~contended => Sound')
<1>1. /\ UNCHANGED <<rows, total, wire, opened, carried, crossed, beat, engine, boot, reload, starts>>
      /\ run' = [run EXCEPT ![w] = IdleRun] /\ faults' \in 0..MaxFaults
      /\ lease' = lease \/ lease' = 0
  BY FailsType DEF Release, Die, KeepsEngines, view, history, Goes
<1>2. lease' \in 0..LeaseFor
  BY <1>1, TypesOpened
<1> QED
  BY <1>1, <1>2, EndsIdle, Typical, RunMoves

(* The row of a trade that is open goes to the watchdog; its result is not on
   the account yet. *)
LEMMA SettleKeeps ==
  ASSUME HandInv, NEW w \in Runs, Settle(w)
  PROVE  HandTypes' /\ Unopened' /\ Idle' /\ (~contended => Sound')
<1>1. PICK t \in run[w].todo :
        \/ /\ rows' = SettledRow(t)
           /\ Goes(w, [run[w] EXCEPT !.todo = @ \ {t}, !.delta = [run[w].delta EXCEPT ![t] = @ + 1]])
           /\ UNCHANGED faults
        \/ /\ Fails
           /\ Goes(w, [run[w] EXCEPT !.todo = @ \ {t}])
           /\ UNCHANGED rows
  BY DEF Settle
<1>2. /\ UNCHANGED <<total, wire, opened, carried, crossed, beat, engine, boot, reload, starts, lease>>
      /\ run[w].at = "settle"
  BY DEF Settle, KeepsEngines, view, history
<1>3. t \in Trades
  BY RunType
<1>4. CASE /\ Fails /\ UNCHANGED rows
           /\ Goes(w, [run[w] EXCEPT !.todo = @ \ {t}])
  <2> DEFINE r == [run[w] EXCEPT !.todo = @ \ {t}]
  <2>1. /\ r \in RunRecs /\ r.at = "settle" /\ r.todo = run[w].todo \ {t}
        /\ r.delta = run[w].delta /\ r.read = run[w].read
    BY <1>2, RunType DEF RunRecs
  <2>2. run' = [run EXCEPT ![w] = r]
    BY <1>4 DEF Goes
  <2> HIDE DEF r
  <2>3. ~contended => Works(r)
    BY <1>2, <2>1, RunStays DEF Works
  <2>4. \A s \in Trades \ opened : s \notin r.todo /\ r.delta[s] = 0 /\ r.read[s] = 0
    BY <2>1, RunStays
  <2>5. lease' \in 0..LeaseFor /\ faults' \in 0..MaxFaults
    BY <1>2, <1>4, FailsType, TypesOpened
  <2> QED
    BY <1>2, <1>4, <2>1, <2>2, <2>3, <2>4, <2>5, RunMoves
<1>5. CASE /\ rows' = SettledRow(t)
           /\ Goes(w, [run[w] EXCEPT !.todo = @ \ {t}, !.delta = [run[w].delta EXCEPT ![t] = @ + 1]])
           /\ UNCHANGED faults
  <2> DEFINE sum == [run[w].delta EXCEPT ![t] = @ + 1]
             r == [run[w] EXCEPT !.todo = @ \ {t}, !.delta = sum]
  <2>1. sum \in Sums /\ sum[t] = run[w].delta[t] + 1 /\ \A s \in Trades : s # t => sum[s] = run[w].delta[s]
    BY <1>3, RunType DEF Sums
  <2>2. run' = [run EXCEPT ![w] = r]
    BY <1>5 DEF Goes
  <2> HIDE DEF sum
  <2>3. r \in RunRecs /\ r.at = "settle" /\ r.todo = run[w].todo \ {t} /\ r.read = run[w].read /\ r.delta = sum
    BY <1>2, <2>1, RunType DEF RunRecs
  <2> HIDE DEF r
  <2>5. run' \in [Runs -> RunRecs] /\ \A v \in Runs : run'[v] = IF v = w THEN r ELSE run[v]
    BY <2>2, <2>3, RowTypes
  <2>6. /\ rows' \in [Trades -> {"none", "open", "engine", "watchdog"}]
        /\ rows'[t] = IF rows[t] = "open" THEN "watchdog" ELSE rows[t]
        /\ \A s \in Trades : s # t => rows'[s] = rows[s]
    BY <1>3, <1>5, RowTypes DEF SettledRow
  <2>7. HandTypes'
    BY <1>2, <1>5, <2>5, <2>6 DEF HandInv, HandTypes, TypeOK, RunRecs
  <2>8. t \in opened
    BY <1>3, RunStays
  <2>9. Unopened'
    <3>1. \A s \in Trades \ opened : s \notin r.todo /\ r.delta[s] = 0 /\ r.read[s] = 0
      BY <2>1, <2>3, <2>8, RunStays
    <3>2. \A s \in Trades \ opened : \A v \in Runs :
             s \notin run'[v].todo /\ run'[v].delta[s] = 0 /\ run'[v].read[s] = 0
      BY <2>5, <3>1, RunStays
    <3>3. \A s \in Trades \ opened : rows'[s] = "none"
      BY <2>6, <2>8 DEF HandInv, Unopened
    <3> QED
      BY <1>2, <3>2, <3>3 DEF HandInv, Unopened
  <2>10. Idle'
    BY <2>3, <2>5 DEF HandInv, Idle
  <2>11. ASSUME ~contended PROVE Sound'
    <3>1. /\ wire = {} /\ \A e \in Engines : engine[e].phase = "off"
          /\ \A v \in Runs : Active(v) => v = w
      BY <1>2, <2>11, LoneRun DEF Active
    <3>2. Works(run[w])
      BY <2>11, RunStays
    <3>3. rows[t] = "open"
      BY <1>2, <3>2 DEF Works
    <3>4. run[w].delta[t] = 0
      BY <1>2, <1>3, <3>2, <3>3, RunType DEF Works, Sums
    <3>5. t \notin carried => total[t] = 0
      BY <1>3, <2>11, <3>3, RowTypes DEF HandInv, Sound, Once, Sums
    <3>6. Once'
      BY <1>2, <2>6, <2>11 DEF HandInv, Sound, Once
    <3>7. Counted'
      BY <1>2, <2>11 DEF HandInv, Sound, Counted
    <3>8. \A s \in Trades : Unclosed(s)' => Unclosed(s)
      BY <1>2, <2>6, <3>1 DEF Unclosed
    <3>9. Backed'
      BY <1>2, <2>11, <3>8, RowTypes DEF HandInv, Sound, Backed
    <3>10. /\ \A s \in r.todo : rows'[s] = "open"
           /\ \A s \in Trades : r.delta[s] > 0 =>
                 r.delta[s] = 1 /\ rows'[s] = "watchdog" /\ (s \notin carried => total[s] = 0)
      <4>1. \A s \in r.todo : rows'[s] = "open"
        BY <1>2, <2>3, <2>6, <3>2, RunType DEF Works
      <4>2. r.delta[t] = 1 /\ rows'[t] = "watchdog"
        BY <2>1, <2>3, <2>6, <3>3, <3>4
      <4>3. \A s \in Trades : s # t /\ r.delta[s] > 0 =>
                 r.delta[s] = 1 /\ rows'[s] = "watchdog" /\ (s \notin carried => total[s] = 0)
        BY <1>2, <2>1, <2>3, <2>6, <3>2 DEF Works
      <4> QED
        BY <3>5, <4>1, <4>2, <4>3
    <3>11. Watched'
      <4>1. ASSUME NEW v \in Runs, v # w
            PROVE  Works(run[v])'
        BY <2>5, <3>1, <4>1 DEF Works, Active
      <4>2. Works(run[w])'
        BY <1>2, <2>3, <2>5, <3>10 DEF Works
      <4> QED
        BY <4>1, <4>2 DEF Watched
    <3> QED
      BY <3>6, <3>7, <3>9, <3>11 DEF Sound
  <2> QED
    BY <2>7, <2>9, <2>10, <2>11
<1> QED
  BY <1>1, <1>4, <1>5

(* What the watchdog adds to an account is not there yet. *)
LEMMA WriteAccountKeeps ==
  ASSUME HandInv, NEW w \in Runs, WriteAccount(w)
  PROVE  HandTypes' /\ Unopened' /\ Idle' /\ (~contended => Sound')
<1> DEFINE left(u) == [t \in Trades |-> IF Owner[t] = u THEN 0 ELSE run[w].delta[t]]
<1>1. PICK u \in Users :
        /\ Goes(w, [run[w] EXCEPT !.at = "settle", !.delta = left(u)])
        /\ \/ /\ total' = [t \in Trades |-> IF Owner[t] = u THEN run[w].read[t] + run[w].delta[t]
                                            ELSE total[t]]
              /\ UNCHANGED faults
           \/ Fails /\ UNCHANGED total
  BY DEF WriteAccount, Indebted
<1>2. /\ UNCHANGED <<rows, wire, opened, carried, crossed, beat, engine, boot, reload, starts, lease>>
      /\ run[w].at = "account"
  BY DEF WriteAccount, KeepsEngines, view, history
<1> DEFINE r == [run[w] EXCEPT !.at = "settle", !.delta = left(u)]
<1>3. left(u) \in Sums /\ \A t \in Trades : left(u)[t] = IF Owner[t] = u THEN 0 ELSE run[w].delta[t]
  BY RunType DEF Sums
<1>4. run' = [run EXCEPT ![w] = r]
  BY <1>1 DEF Goes
<1> HIDE DEF left
<1>5. /\ r \in RunRecs /\ r.at = "settle" /\ r.todo = run[w].todo /\ r.read = run[w].read
      /\ r.delta = left(u)
  BY <1>3, RunType DEF RunRecs, Stages
<1> HIDE DEF r
<1>6. run' \in [Runs -> RunRecs] /\ \A v \in Runs : run'[v] = IF v = w THEN r ELSE run[v]
  BY <1>4, <1>5, RowTypes
<1>7. /\ total' \in Sums /\ faults' \in 0..MaxFaults
      /\ \A t \in Trades : \/ total'[t] = total[t]
                           \/ Owner[t] = u /\ total'[t] = run[w].read[t] + run[w].delta[t]
  <2>1. CASE Fails /\ UNCHANGED total
    BY <2>1, RowTypes, FailsType
  <2>2. CASE /\ UNCHANGED faults
             /\ total' = [t \in Trades |-> IF Owner[t] = u THEN run[w].read[t] + run[w].delta[t] ELSE total[t]]
    <3>1. \A t \in Trades : run[w].read[t] \in Nat /\ run[w].delta[t] \in Nat /\ total[t] \in Nat
      BY RunType, RowTypes DEF Sums
    <3> QED
      BY <2>2, <3>1, TypesOpened DEF Sums
  <2> QED
    BY <1>1, <2>1, <2>2
<1>8. HandTypes'
  BY <1>2, <1>6, <1>7 DEF HandInv, HandTypes, TypeOK, RunRecs, Sums
<1>9. Unopened'
  <2>1. \A t \in Trades \ opened : t \notin r.todo /\ r.delta[t] = 0 /\ r.read[t] = 0
    BY <1>3, <1>5, RunStays
  <2>2. \A t \in Trades \ opened : total'[t] = 0
    BY <1>7, RunStays, TotalsFit
  <2>3. \A t \in Trades \ opened : \A v \in Runs :
             t \notin run'[v].todo /\ run'[v].delta[t] = 0 /\ run'[v].read[t] = 0
    BY <1>6, <2>1, RunStays
  <2> QED
    BY <1>2, <2>2, <2>3 DEF HandInv, Unopened
<1>10. Idle'
  BY <1>5, <1>6 DEF HandInv, Idle
<1>11. ASSUME ~contended PROVE Sound'
  <2>1. /\ wire = {} /\ \A e \in Engines : engine[e].phase = "off"
        /\ \A v \in Runs : Active(v) => v = w
    BY <1>2, <1>11, LoneRun DEF Active
  <2>2. /\ run[w].todo = {} /\ \A t \in Trades : run[w].read[t] <= total[t]
        /\ \A t \in Trades : run[w].delta[t] > 0 =>
              run[w].delta[t] = 1 /\ rows[t] = "watchdog" /\ (t \notin carried => total[t] = 0)
    BY <1>2, <1>11, RunStays DEF Works
  <2>3. \A t \in Trades : total[t] \in Nat /\ run[w].read[t] \in Nat /\ run[w].delta[t] \in Nat
    BY RunType, RowTypes DEF Sums
  <2>4. Once'
    <3> SUFFICES ASSUME NEW t \in Trades, t \notin carried
                 PROVE  total'[t] <= 1 /\ (total'[t] = 1 => rows'[t] # "open")
      BY <1>2 DEF Once
    <3>1. total[t] <= 1 /\ (total[t] = 1 => rows[t] # "open")
      BY <1>11 DEF HandInv, Sound, Once
    <3>2. CASE total'[t] = total[t]
      BY <1>2, <3>1, <3>2
    <3>3. CASE total'[t] = run[w].read[t] + run[w].delta[t]
      <4>1. CASE run[w].delta[t] > 0
        <5>1. run[w].delta[t] = 1 /\ rows[t] = "watchdog" /\ run[w].read[t] = 0
          BY <2>2, <2>3, <4>1
        <5> QED
          BY <1>2, <3>3, <5>1
      <4>2. CASE run[w].delta[t] = 0
        <5>1. total'[t] = run[w].read[t] /\ run[w].read[t] <= total[t]
          BY <2>2, <2>3, <3>3, <4>2
        <5> QED
          BY <1>2, <2>3, <3>1, <5>1
      <4> QED
        BY <2>3, <4>1, <4>2
    <3> QED
      BY <1>7, <3>2, <3>3
  <2>5. Counted'
    BY <1>2, <1>11 DEF HandInv, Sound, Counted
  <2>6. Backed'
    <3>1. ASSUME NEW t \in Mine, t \notin carried, Unclosed(t)
          PROVE  total'[t] = 0
      <4>1. t \in Trades /\ rows[t] = "open" /\ total[t] = 0
        BY <1>11, <2>1, <3>1, RowTypes DEF HandInv, Sound, Backed, Unclosed
      <4>2. run[w].delta[t] = 0 /\ run[w].read[t] = 0
        BY <2>2, <2>3, <4>1
      <4> QED
        BY <1>7, <4>1, <4>2
    <3>2. \A t \in Mine : Unclosed(t)' <=> Unclosed(t)
      BY <1>2 DEF Unclosed
    <3> QED
      BY <1>2, <1>11, <3>1, <3>2 DEF HandInv, Sound, Backed
  <2>7. Watched'
    <3>1. ASSUME NEW v \in Runs, v # w
          PROVE  Works(run[v])'
      BY <1>6, <2>1, <3>1 DEF Works, Active
    <3>2. \A t \in Trades : r.delta[t] > 0 =>
              r.delta[t] = 1 /\ rows'[t] = "watchdog" /\ (t \notin carried => total'[t] = 0)
      BY <1>2, <1>3, <1>5, <1>7, <2>2
    <3>3. Works(run[w])'
      BY <1>2, <1>5, <1>6, <2>2, <3>2 DEF Works
    <3> QED
      BY <3>1, <3>3 DEF Watched
  <2> QED
    BY <2>4, <2>5, <2>6, <2>7 DEF Sound
<1> QED
  BY <1>8, <1>9, <1>10, <1>11

LEMMA RunKeeps ==
  ASSUME HandInv, NEW w \in Runs, LeaseRead(w) \/ Advance(w) \/ Die(w)
  PROVE  HandTypes' /\ Unopened' /\ Idle' /\ (~contended => Sound')
  BY LeaseReadKeeps, LeaseClaimKeeps, ScanKeeps, CheckKeeps, FetchMarksKeeps, SettleKeeps,
     ReadAccountKeeps, WriteAccountKeeps, ReleaseKeeps DEF Advance

-----------------------------------------------------------------------------

LEMMA HandInit == Init => HandInv
<1> SUFFICES ASSUME Init PROVE HandInv
  OBVIOUS
<1>1. /\ total = NoResults /\ wire = {} /\ boot = EmptyBook /\ reload = None
      /\ run = [w \in Runs |-> IdleRun] /\ engine = [e \in Engines |-> Off]
      /\ opened = Trades \ Fresh /\ carried = {} /\ contended = FALSE
      /\ rows = [t \in Trades |-> IF t \in Fresh THEN "none" ELSE "open"]
  BY DEF Init
<1>2. HandTypes
  <2>1. beat \in [Users -> [status : {"none", "running", "stopped"}, age : 0..TakeoverAfter]]
    BY HandOverAssumption DEF Init, NoBeat
  <2>2. lease \in 0..LeaseFor /\ faults \in 0..MaxFaults /\ starts \in 0..MaxStarts /\ crossed \subseteq Trades
    BY HandOverAssumption DEF Init
  <2>3. total \in [Trades -> Nat] /\ engine \in [Engines -> EngineRecs] /\ run \in [Runs -> RunRecs]
    BY <1>1, Typical DEF Sums
  <2> QED
    BY <1>1, <2>1, <2>2, <2>3, Typical DEF HandTypes, TypeOK, EngineRecs, RunRecs, Sums
<1>3. Unopened /\ Idle
  BY <1>1, Typical DEF Unopened, Idle
<1>4. Alone
  <2>1. {e \in Engines : engine[e].phase # "off"} = {}
    BY <1>1, Typical
  <2>2. {w \in Runs : run[w].at \notin {"idle", "claim", "release"}} = {}
    BY <1>1, Typical
  <2>3. Cardinality({}) = 0
    BY FS_EmptySet
  <2>4. Parties = 0 + 0 + 0
    BY <1>1, <2>1, <2>2, <2>3, Zenon DEF Parties
  <2>5. Parties <= 1
    BY <2>4
  <2> QED
    BY <1>1, <2>5 DEF Alone
<1>5. Sound
  BY <1>1, Typical, EndsIdle DEF Sound, Once, Counted, Backed, Watched, Mine
<1> QED
  BY <1>2, <1>3, <1>4, <1>5 DEF HandInv

LEMMA HandNext == HandInv /\ [Next]_vars => HandInv'
<1> SUFFICES ASSUME HandInv, [Next]_vars PROVE HandInv'
  OBVIOUS
<1>1. CASE UNCHANGED vars
  BY <1>1 DEF vars, view, timers, counters, history, HandInv, HandTypes, TypeOK, Unopened, Idle, Alone, Parties,
              Live, Sound, Once, Counted, Backed, Unclosed, Watched, Works
<1>2. CASE Next
  <2>1. Alone' /\ (~contended' => ~contended)
    BY <1>2, Noting DEF Next, Noted, HandInv
  <2>2. HandTypes' /\ Unopened' /\ Idle' /\ (~contended => Sound')
    <3>1. Step
      BY <1>2 DEF Next, Noted
    <3>2. CASE Tick \/ Beat \/ Poll \/ ShutDown \/ FallbackBoot \/ ReloadAccount \/ ReloadRows \/ ReloadFails
      BY <3>2, TickKeeps, BeatKeeps, PollKeeps, ShutDownKeeps, FallbackKeeps, ReloadAccountKeeps, ReloadRowsKeeps
    <3>3. CASE \E t \in Trades : Cross(t)
      BY <3>3, CrossKeeps
    <3>4. CASE \E e \in Engines : LoadAccount(e) \/ LoadRows(e) \/ Leave(e)
      BY <3>4, LoadAccountKeeps, LoadRowsKeeps, LeaveKeeps
    <3>5. CASE \E e \in Engines, t \in Trades : EngineOpen(e, t) \/ EngineClose(e, t)
      BY <3>5, EngineOpenKeeps, EngineCloseKeeps
    <3>6. CASE \E m \in wire : Land(m) \/ Lose(m)
      BY <3>6, LandKeeps, LoseKeeps
    <3>7. CASE \E w \in Runs : LeaseRead(w) \/ Advance(w) \/ Die(w)
      BY <3>7, RunKeeps
    <3> QED
      BY <3>1, <3>2, <3>3, <3>4, <3>5, <3>6, <3>7 DEF Step
  <2> QED
    BY <2>1, <2>2 DEF HandInv
<1> QED
  BY <1>1, <1>2

(* One party at a time: whoever closes a trade, and whatever crashes or fails
   on the way, its result reaches the account once, and not while its row is
   open. *)
THEOREM HandOverHolds == Spec => []HandOverOK
<1>1. HandInv => HandOverOK
  BY DEF HandInv, HandTypes, HandOverOK, CountedOnce, Sound, Once
<1> QED
  BY <1>1, HandInit, HandNext, PTL DEF Spec

-----------------------------------------------------------------------------
(* What the watchdog may conclude from the heartbeat *)

Punctual ==
    /\ missed \in 0..TakeoverAfter /\ sinceBeat \in 0..BeatEvery
    /\ Live("runner") /\ missed < TakeoverAfter =>
         beat[Me].status = "running" /\ beat[Me].age <= missed * BeatEvery + sinceBeat

LEMMA Ticks ==
  /\ BeatEvery \in Nat /\ BeatEvery > 0 /\ TakeoverAfter \in Nat /\ TakeoverAfter > 0 /\ Me \in Users
  /\ "runner" \in Engines /\ "tab" \in Engines
  BY HandOverAssumption DEF Engines

LEMMA PunctualInit == Init => Punctual
  BY Ticks, Typical DEF Init, Punctual, Live

(* A step that neither beats nor lets time pass, and starts no runner *)
LEMMA StaysPunctual ==
  ASSUME Punctual, UNCHANGED timers, Live("runner")' => Live("runner") /\ UNCHANGED beat
  PROVE  Punctual'
  BY DEF Punctual, timers

LEMMA TickIsPunctual ==
  ASSUME HandInv, Punctual, Tick
  PROVE  Punctual'
<1>1. beat[Me] \in [status : {"none", "running", "stopped"}, age : 0..TakeoverAfter]
  BY Ticks, TypesOpened
<1>2. missed' = missed /\ sinceBeat' = (IF Live("runner") THEN sinceBeat + 1 ELSE 0)
  BY DEF Tick
<1>3. sinceBeat' \in 0..BeatEvery
  BY <1>2, Ticks DEF Tick, Punctual
<1>4. engine'["runner"] = engine["runner"]
  BY TypesOpened, Ticks DEF Tick, Polled
<1>5. ASSUME Live("runner"), missed < TakeoverAfter
      PROVE  beat'[Me].status = "running" /\ beat'[Me].age <= missed * BeatEvery + sinceBeat'
  <2>1. beat[Me].status = "running" /\ beat[Me].age <= missed * BeatEvery + sinceBeat
    BY <1>5 DEF Punctual
  <2>2. beat'[Me] = [beat[Me] EXCEPT !.age = Older(beat[Me].age)]
    BY <2>1, Ticks DEF Tick
  <2>3. beat'[Me].status = "running" /\ beat'[Me].age = Older(beat[Me].age)
    <3>1. PICK older : older = Older(beat[Me].age)
      OBVIOUS
    <3>2. beat'[Me] = [beat[Me] EXCEPT !.age = older]
      BY <2>2, <3>1
    <3> QED
      BY <1>1, <2>1, <3>1, <3>2
  <2>4. beat'[Me].age <= beat[Me].age + 1
    BY <1>1, <2>3 DEF Older
  <2>5. missed * BeatEvery \in Nat /\ sinceBeat \in Nat /\ beat[Me].age \in Nat /\ beat'[Me].age \in Nat
    BY <1>1, <2>3, Ticks DEF Punctual, Older
  <2> QED
    BY <1>2, <1>5, <2>1, <2>3, <2>4, <2>5
<1> QED
  BY <1>2, <1>3, <1>4, <1>5 DEF Punctual, Live

LEMMA BeatIsPunctual ==
  ASSUME HandInv, Punctual, Beat
  PROVE  Punctual'
<1>1. engine' = engine /\ sinceBeat = BeatEvery /\ sinceBeat' = 0 /\ Live("runner")
  BY DEF Beat
<1>2. CASE beat' = [beat EXCEPT ![Me] = [status |-> "running", age |-> 0]] /\ missed' = 0
  <2>1. beat'[Me].status = "running" /\ beat'[Me].age = 0
    BY <1>2, TypesOpened, Ticks
  <2>2. 0 * BeatEvery = 0
    BY Ticks
  <2> QED
    BY <1>1, <1>2, <2>1, <2>2, Ticks DEF Punctual
<1>3. CASE beat' = beat /\ missed' = (IF missed < TakeoverAfter THEN missed + 1 ELSE missed)
  <2>1. missed' \in 0..TakeoverAfter
    BY <1>3, Ticks DEF Punctual
  <2>2. ASSUME missed' < TakeoverAfter
        PROVE  beat[Me].status = "running" /\ beat[Me].age <= missed' * BeatEvery + 0
    <3>1. missed < TakeoverAfter /\ missed' = missed + 1 /\ missed \in Nat
      BY <1>3, <2>2, Ticks DEF Punctual
    <3>2. (missed + 1) * BeatEvery = missed * BeatEvery + BeatEvery
      BY <3>1, Ticks
    <3>3. missed * BeatEvery \in Nat /\ beat[Me].age \in Nat
      BY <3>1, Ticks, TypesOpened
    <3> QED
      BY <1>1, <3>1, <3>2, <3>3, Ticks DEF Punctual
  <2> QED
    BY <1>1, <1>3, <2>1, <2>2, Ticks DEF Punctual
<1> QED
  BY <1>2, <1>3 DEF Beat

LEMMA LoadIsPunctual ==
  ASSUME HandInv, Punctual, NEW e \in Engines, LoadRows(e)
  PROVE  Punctual'
<1>1. CASE e = "runner" /\ sinceBeat' = 0 /\ missed' = TakeoverAfter
  BY <1>1, Ticks DEF Punctual
<1>2. CASE e = "tab" /\ UNCHANGED <<sinceBeat, missed>>
  <2>1. engine'["runner"] = engine["runner"] /\ UNCHANGED beat
    BY <1>2, TypesOpened, Ticks DEF LoadRows
  <2> QED
    BY <1>2, <2>1, StaysPunctual DEF Live, timers
<1> QED
  BY <1>1, <1>2 DEF LoadRows

LEMMA PunctualStep ==
  ASSUME HandInv, Punctual, Step
  PROVE  Punctual'
<1> USE DEF Live
<1>1. CASE Poll \/ ReloadRows \/ FallbackBoot
  <2>1. engine'["runner"] = engine["runner"] /\ UNCHANGED <<beat, timers>>
    BY <1>1, TypesOpened, Ticks DEF Poll, Polled, ReloadRows, FallbackBoot
  <2> QED
    BY <2>1, StaysPunctual
<1>2. CASE ShutDown
  <2>1. engine'["runner"].phase = "off" /\ UNCHANGED timers
    BY <1>2, TypesOpened, Ticks, Typical DEF ShutDown
  <2> QED
    BY <2>1, StaysPunctual
<1>3. CASE ReloadAccount \/ ReloadFails \/ \E t \in Trades : Cross(t)
  BY <1>3, StaysPunctual DEF ReloadAccount, ReloadFails, Cross
<1>4. ASSUME NEW e \in Engines, LoadAccount(e) \/ Leave(e)
      PROVE  Punctual'
  <2>1. UNCHANGED <<beat, timers>>
    BY <1>4 DEF LoadAccount, Leave
  <2>2. \/ \E sum : engine' = [engine EXCEPT ![e] = [Off EXCEPT !.phase = "load", !.total = sum]]
        \/ engine' = [engine EXCEPT ![e] = Off]
    BY <1>4 DEF LoadAccount, Leave
  <2>3. \A sum : [Off EXCEPT !.phase = "load", !.total = sum].phase = "load"
    BY DEF Off
  <2>4. engine'["runner"].phase = "on" => engine["runner"].phase = "on"
    BY <2>2, <2>3, TypesOpened, Ticks, Typical
  <2> QED
    BY <2>1, <2>4, StaysPunctual
<1>5. ASSUME NEW e \in Engines, NEW t \in Trades, EngineOpen(e, t) \/ EngineClose(e, t)
      PROVE  Punctual'
  <2>1. UNCHANGED <<beat, timers>> /\ engine[e].phase = "on"
    BY <1>5 DEF EngineOpen, EngineClose
  <2>2. engine'["runner"].phase = "on" => engine["runner"].phase = "on"
    <3>1. CASE e = "runner"
      BY <2>1, <3>1
    <3>2. CASE e = "tab"
      BY <1>5, <3>2, TypesOpened, Ticks DEF EngineOpen, EngineClose
    <3> QED
      BY <3>1, <3>2, Engines2
  <2> QED
    BY <2>1, <2>2, StaysPunctual
<1>6. CASE \E m \in wire : Land(m) \/ Lose(m)
  BY <1>6, StaysPunctual DEF Land, Lose
<1>7. ASSUME NEW w \in Runs, LeaseRead(w) \/ Advance(w) \/ Die(w)
      PROVE  Punctual'
  <2>1. KeepsEngines
    BY <1>7 DEF LeaseRead, Advance, LeaseClaim, Scan, Check, FetchMarks, Settle, ReadAccount, WriteAccount,
                Release, Die
  <2> QED
    BY <2>1, StaysPunctual DEF KeepsEngines
<1> QED
  BY <1>1, <1>2, <1>3, <1>4, <1>5, <1>6, <1>7, TickIsPunctual, BeatIsPunctual, LoadIsPunctual DEF Step

(* An invocation names the owners to take over once, when it checks. *)
Unjudged == \A w \in Runs : run[w].at \in {"idle", "claim", "scan", "check"} => run[w].orphaned = {}

LEMMA UnjudgedInit == Init => Unjudged
  BY DEF Init, Unjudged, IdleRun

LEMMA EarlyRun ==
  ASSUME HandInv, Unjudged, NEW w \in Runs, NEW r, run' = [run EXCEPT ![w] = r],
         r.at \in {"idle", "claim", "scan", "check"} => r.orphaned = {}
  PROVE  Unjudged'
  BY RowTypes DEF Unjudged

LEMMA OrphansStay ==
  ASSUME HandInv, NEW w \in Runs, NEW at \in Stages
  PROVE  /\ At(w, at).at = at /\ At(w, at).orphaned = run[w].orphaned
         /\ \A S : [At(w, at) EXCEPT !.todo = S].at = at /\ [At(w, at) EXCEPT !.todo = S].orphaned = run[w].orphaned
         /\ \A S : [At(w, at) EXCEPT !.orphaned = S].at = at /\ [At(w, at) EXCEPT !.orphaned = S].orphaned = S
         /\ \A S : [At(w, at) EXCEPT !.read = S].at = at
  BY RunType DEF At, RunRecs

LEMMA UnjudgedStep ==
  ASSUME HandInv, Unjudged, Step
  PROVE  Unjudged'
<1>1. CASE run' = run
  BY <1>1 DEF Unjudged
<1>2. ASSUME NEW w \in Runs, LeaseRead(w) \/ LeaseClaim(w)
      PROVE  Unjudged'
  <2>1. PICK at \in {"claim", "scan"} : run' = [run EXCEPT ![w] = At(w, at)]
    BY <1>2 DEF LeaseRead, LeaseClaim, Goes
  <2>2. run[w].orphaned = {}
    BY <1>2 DEF LeaseRead, LeaseClaim, Unjudged
  <2>3. at \in Stages
    BY DEF Stages
  <2> QED
    BY <2>1, <2>2, <2>3, OrphansStay, EarlyRun
<1>3. ASSUME NEW w \in Runs, Scan(w)
      PROVE  Unjudged'
  <2>1. run[w].orphaned = {} /\ "check" \in Stages /\ "release" \in Stages
    BY <1>3 DEF Scan, Unjudged, Stages
  <2>2. \/ run' = [run EXCEPT ![w] = At(w, "release")]
        \/ \E S : run' = [run EXCEPT ![w] = [At(w, "check") EXCEPT !.todo = S]]
    BY <1>3 DEF Scan, Goes
  <2>3. CASE run' = [run EXCEPT ![w] = At(w, "release")]
    <3>1. At(w, "release").at = "release"
      BY <2>1, OrphansStay
    <3> QED
      BY <2>3, <3>1, EarlyRun
  <2>4. ASSUME NEW S, run' = [run EXCEPT ![w] = [At(w, "check") EXCEPT !.todo = S]]
        PROVE  Unjudged'
    <3>1. [At(w, "check") EXCEPT !.todo = S].orphaned = {}
      BY <2>1, OrphansStay
    <3> QED
      BY <2>4, <3>1, EarlyRun
  <2> QED
    BY <2>2, <2>3, <2>4
<1>4. ASSUME NEW w \in Runs, Check(w) \/ FetchMarks(w) \/ ReadAccount(w) \/ WriteAccount(w) \/ Settle(w)
      PROVE  Unjudged'
  <2>1. {"marks", "settle", "account", "release"} \subseteq Stages
    BY DEF Stages
  <2>0. CASE run' = [run EXCEPT ![w] = At(w, "release")]
    <3>1. At(w, "release").at = "release"
      BY <2>1, OrphansStay
    <3> QED
      BY <2>0, <3>1, EarlyRun
  <2>2. CASE Check(w)
    <3>1. \/ run' = [run EXCEPT ![w] = At(w, "release")]
          \/ \E S : run' = [run EXCEPT ![w] = [At(w, "marks") EXCEPT !.orphaned = S]]
      BY <2>2 DEF Check, Goes
    <3>2. ASSUME NEW S, run' = [run EXCEPT ![w] = [At(w, "marks") EXCEPT !.orphaned = S]]
          PROVE  Unjudged'
      <4>1. [At(w, "marks") EXCEPT !.orphaned = S].at = "marks"
        BY <2>1, OrphansStay
      <4> QED
        BY <3>2, <4>1, EarlyRun
    <3> QED
      BY <2>0, <3>1, <3>2
  <2>3. CASE FetchMarks(w)
    <3>1. \/ run' = [run EXCEPT ![w] = At(w, "release")]
          \/ \E S : run' = [run EXCEPT ![w] = [At(w, "settle") EXCEPT !.todo = S]]
      BY <2>3 DEF FetchMarks, Goes
    <3>2. ASSUME NEW S, run' = [run EXCEPT ![w] = [At(w, "settle") EXCEPT !.todo = S]]
          PROVE  Unjudged'
      <4>1. [At(w, "settle") EXCEPT !.todo = S].at = "settle"
        BY <2>1, OrphansStay
      <4> QED
        BY <3>2, <4>1, EarlyRun
    <3> QED
      BY <2>0, <3>1, <3>2
  <2>4. CASE ReadAccount(w)
    <3>1. \/ run' = [run EXCEPT ![w] = At(w, "release")]
          \/ \E S : run' = [run EXCEPT ![w] = [At(w, "account") EXCEPT !.read = S]]
      BY <2>4 DEF ReadAccount, Goes
    <3>2. ASSUME NEW S, run' = [run EXCEPT ![w] = [At(w, "account") EXCEPT !.read = S]]
          PROVE  Unjudged'
      <4>1. [At(w, "account") EXCEPT !.read = S].at = "account"
        BY <2>1, OrphansStay
      <4> QED
        BY <3>2, <4>1, EarlyRun
    <3> QED
      BY <2>0, <3>1, <3>2
  <2>5. CASE WriteAccount(w)
    <3>1. \E S : run' = [run EXCEPT ![w] = [run[w] EXCEPT !.at = "settle", !.delta = S]]
      BY <2>5 DEF WriteAccount, Goes
    <3>2. \A S : [run[w] EXCEPT !.at = "settle", !.delta = S].at = "settle"
      BY RunType DEF RunRecs
    <3> QED
      BY <3>1, <3>2, EarlyRun
  <2>6. CASE Settle(w)
    <3>1. run[w].at = "settle"
      BY <2>6 DEF Settle
    <3>2. \E S, d : \/ run' = [run EXCEPT ![w] = [run[w] EXCEPT !.todo = S, !.delta = d]]
                    \/ run' = [run EXCEPT ![w] = [run[w] EXCEPT !.todo = S]]
      BY <2>6 DEF Settle, Goes
    <3>3. \A S, d : /\ [run[w] EXCEPT !.todo = S, !.delta = d].at = "settle"
                    /\ [run[w] EXCEPT !.todo = S].at = "settle"
      BY <3>1, RunType DEF RunRecs
    <3> QED
      BY <3>2, <3>3, EarlyRun
  <2> QED
    BY <1>4, <2>2, <2>3, <2>4, <2>5, <2>6
<1>5. ASSUME NEW w \in Runs, Release(w) \/ Die(w)
      PROVE  Unjudged'
  <2>1. run' = [run EXCEPT ![w] = IdleRun] /\ IdleRun.orphaned = {}
    BY <1>5 DEF Release, Die, Goes, IdleRun
  <2> QED
    BY <2>1, EarlyRun
<1>6. run' = run \/ \E w \in Runs : LeaseRead(w) \/ Advance(w) \/ Die(w)
  BY DEF Step, Tick, Beat, Poll, ShutDown, FallbackBoot, ReloadAccount, ReloadRows, ReloadFails, Cross,
         LoadAccount, LoadRows, Leave,
         EngineOpen, EngineClose, Land, Lose
<1> QED
  BY <1>1, <1>2, <1>3, <1>4, <1>5, <1>6 DEF Advance

(* The only step that names an owner to take over is the check, and it goes by
   the heartbeats unless they could not be read. *)
LEMMA TakeOverStep ==
  ASSUME HandInv, Punctual, Unjudged, Step, NEW w \in Runs, TakesOver(w)
  PROVE  Quiet \/ faults' # faults
<1>1. run[w].at = "check" /\ Me \in run'[w].orphaned /\ Live("runner") /\ run[w].orphaned = {}
  BY DEF TakesOver, Unjudged
<1>2. CASE ~HasDriver(Me)
  <2>1. beat[Me] \in [status : {"none", "running", "stopped"}, age : 0..TakeoverAfter]
    BY Ticks, TypesOpened
  <2>2. missed \in Nat /\ sinceBeat \in 0..BeatEvery /\ missed <= TakeoverAfter
    BY Ticks DEF Punctual
  <2>3. (missed + 1) * BeatEvery = missed * BeatEvery + BeatEvery /\ missed * BeatEvery \in Nat
    BY <2>2, Ticks
  <2>4. CASE missed < TakeoverAfter
    <3>1. beat[Me].age >= TakeoverAfter /\ beat[Me].age <= missed * BeatEvery + sinceBeat
      BY <1>1, <1>2, <2>1, <2>4, Ticks DEF Punctual, HasDriver
    <3> QED
      BY <2>1, <2>2, <2>3, <3>1, Ticks DEF Quiet
  <2>5. CASE missed = TakeoverAfter
    <3>1. missed * BeatEvery >= missed
      BY <2>2, Ticks
    <3> QED
      BY <2>2, <2>3, <2>5, <3>1, Ticks DEF Quiet
  <2> QED
    BY <2>2, <2>4, <2>5, Ticks
<1>3. CASE Fails
  BY <1>3, TypesOpened DEF Fails
<1>4. CASE Check(w)
  <2> DEFINE quiet == {u \in FirstOwners(run[w].todo) : ~HasDriver(u)}
  <2>1. "marks" \in Stages /\ "release" \in Stages
    BY DEF Stages
  <2>2. \/ run' = [run EXCEPT ![w] = At(w, "release")]
        \/ run' = [run EXCEPT ![w] = [At(w, "marks") EXCEPT !.orphaned = quiet]]
        \/ Fails
    BY <1>4 DEF Check, Goes
  <2> HIDE DEF quiet
  <2>3. CASE run' = [run EXCEPT ![w] = At(w, "release")]
    BY <1>1, <2>1, <2>3, OrphansStay, RowTypes
  <2>4. CASE run' = [run EXCEPT ![w] = [At(w, "marks") EXCEPT !.orphaned = quiet]]
    <3>1. run'[w].orphaned = quiet
      BY <2>1, <2>4, OrphansStay, RowTypes
    <3> QED
      BY <1>1, <1>2, <3>1 DEF quiet
  <2> QED
    BY <1>3, <2>2, <2>3, <2>4
<1>5. CASE ~Check(w)
  <2>1. run'[w] = run[w] \/ Fails
    <3>1. CASE run' = run
      BY <3>1
    <3>2. ASSUME NEW v \in Runs, LeaseRead(v) \/ Advance(v) \/ Die(v), v # w
          PROVE  run'[w] = run[w]
      <4>1. \E r : run' = [run EXCEPT ![v] = r]
        BY <3>2 DEF LeaseRead, Advance, LeaseClaim, Scan, Check, FetchMarks, Settle, ReadAccount, WriteAccount,
                    Release, Die, Goes
      <4> QED
        BY <3>2, <4>1, RowTypes
    <3>3. CASE LeaseRead(w) \/ Advance(w) \/ Die(w)
      BY <1>1, <1>5, <3>3 DEF LeaseRead, Advance, LeaseClaim, Scan, FetchMarks, Settle, ReadAccount,
                              WriteAccount, Release, Die
    <3>4. run' = run \/ \E v \in Runs : LeaseRead(v) \/ Advance(v) \/ Die(v)
      BY DEF Step, Tick, Beat, Poll, ShutDown, FallbackBoot, ReloadAccount, ReloadRows, ReloadFails, Cross,
         LoadAccount, LoadRows, Leave,
             EngineOpen, EngineClose, Land, Lose
    <3> QED
      BY <3>1, <3>2, <3>3, <3>4
  <2> QED
    BY <1>1, <1>3, <2>1
<1> QED
  BY <1>4, <1>5

(* A live runner is taken over only when its heartbeats have not landed for the
   take-over time, or when the watchdog could not read them. *)
THEOREM DriversKeepTheirBooks == Spec => DriverKeepsItsBook
<1> DEFINE Inv == HandInv /\ Punctual /\ Unjudged
<1>1. Init => Inv
  BY HandInit, PunctualInit, UnjudgedInit
<1>2. Inv /\ [Next]_vars => Inv'
  <2>1. Inv /\ UNCHANGED vars => Punctual' /\ Unjudged'
    BY DEF vars, timers, Punctual, Unjudged, Live
  <2> QED
    BY <2>1, HandNext, PunctualStep, UnjudgedStep DEF Next, Noted
<1>3. Inv /\ [Next]_vars => [\A w \in Runs : TakesOver(w) => Quiet \/ faults' # faults]_vars
  BY TakeOverStep DEF Next, Noted
<1> HIDE DEF Inv
<1> QED
  BY <1>1, <1>2, <1>3, PTL DEF Spec, DriverKeepsItsBook

(* A result an engine stored is never replaced by the watchdog's. *)
THEOREM ResultsStand == Spec => ResultStands
<1>1. HandInv /\ [Next]_vars => [\A t \in Trades : rows[t] = "engine" => rows'[t] # "watchdog"]_vars
  <2> SUFFICES ASSUME HandInv, Step, NEW t \in Trades, rows[t] = "engine"
               PROVE  rows'[t] # "watchdog"
    BY DEF Next, Noted
  <2>1. CASE rows' = rows
    BY <2>1
  <2>2. ASSUME NEW m \in wire, Land(m) PROVE rows'[t] # "watchdog"
    BY <2>2, RowTypes DEF Land
  <2>3. ASSUME NEW w \in Runs, Settle(w) PROVE rows'[t] # "watchdog"
    <3>1. rows' = rows \/ \E s \in run[w].todo : rows' = SettledRow(s)
      BY <2>3 DEF Settle
    <3> QED
      BY <3>1, RowTypes DEF SettledRow
  <2>4. rows' = rows \/ (\E m \in wire : Land(m)) \/ \E w \in Runs : Settle(w)
    BY DEF Step, Tick, Beat, Poll, ShutDown, FallbackBoot, ReloadAccount, ReloadRows, ReloadFails, Cross,
         LoadAccount, LoadRows, Leave,
           EngineOpen, EngineClose, Lose, LeaseRead, Advance, LeaseClaim, Scan, Check, FetchMarks, ReadAccount,
           WriteAccount, Release, Die
  <2> QED
    BY <2>1, <2>2, <2>3, <2>4
<1> QED
  BY <1>1, HandInit, HandNext, PTL DEF Spec, ResultStands

-----------------------------------------------------------------------------
(* The health report *)

(* What a probe has answered so far *)
Asked ==
    /\ \A p \in Probes : reply[p] = "unset" <=> p \notin configured
    /\ \A p \in Probes : p \in unreachable <=> reply[p] = "failed"

Told == (\A p \in Probes : reply[p] \in Answered) /\ report = [p \in Probes |-> StateOf(p)]

HealthInv ==
    /\ HealthTypeOK /\ AlarmsAreReal
    /\ configured \subseteq Probes
    /\ phase # "idle" => Asked /\ requests > 0
    /\ phase \in {"notifying", "composed"} => Told
    /\ requests \in Nat /\ MaxRequests \in Nat

(* What a component is reported as *)
LEMMA StateFacts ==
  ASSUME Asked, Told, configured \subseteq Probes, HealthAssumption
  PROVE  /\ report \in [Probes -> {"ok", "degraded", "down", "skipped"}]
         /\ \A p \in Probes : report[p] = "down" <=> p \in (Neon \ configured) \cup (unreachable \ {Mirror})
         /\ \A p \in Probes : report[p] \in {"ok", "skipped"} =>
               /\ p \notin Neon \ configured
               /\ p \in configured => reply[p] = "ok" \/ (p = Mirror /\ reply[p] = "slow")
<1> SUFFICES ASSUME NEW p \in Probes
             PROVE  /\ StateOf(p) \in {"ok", "degraded", "down", "skipped"}
                    /\ StateOf(p) = "down" <=> p \in (Neon \ configured) \cup (unreachable \ {Mirror})
                    /\ StateOf(p) \in {"ok", "skipped"} =>
                          /\ p \notin Neon \ configured
                          /\ p \in configured => reply[p] = "ok" \/ (p = Mirror /\ reply[p] = "slow")
  BY DEF Told
<1>1. Mirror \notin Neon /\ Mirror \notin Ranked
  BY DEF HealthAssumption
<1>2. (reply[p] = "unset" <=> p \notin configured) /\ (p \in unreachable <=> reply[p] = "failed")
  BY DEF Asked
<1>3. reply[p] \in Answered
  BY DEF Told
<1>4. CASE reply[p] = "unset"
  BY <1>2, <1>4 DEF StateOf, Unconfigured
<1>5. CASE reply[p] = "ok"
  BY <1>2, <1>5 DEF StateOf
<1>6. CASE reply[p] = "slow"
  BY <1>2, <1>6 DEF StateOf, Slow
<1>7. CASE reply[p] \in {"rejected", "wrong_venue"}
  BY <1>2, <1>7 DEF StateOf
<1>8. CASE reply[p] = "failed"
  BY <1>1, <1>2, <1>8 DEF StateOf, Missed
<1> QED
  BY <1>3, <1>4, <1>5, <1>6, <1>7, <1>8 DEF Answered

LEMMA HealthStarts == HealthAssumption /\ HealthInit => HealthInv
BY DEF HealthAssumption, HealthInit, HealthInv, HealthTypeOK, AlarmsAreReal, NothingAsked, NothingReported,
       Answered, Pending

(* What an answer changes: one probe that is waiting gets it. *)
LEMMA Heard ==
  ASSUME HealthInv, NEW p \in Probes, NEW what \in (Answered \cup Pending) \ {"unset"}, Hear(p, what),
         reply[p] \in Pending,
         unreachable' = IF what = "failed" THEN unreachable \cup {p} ELSE unreachable
  PROVE  HealthInv'
<1>1. phase = "probing" /\ Asked /\ requests > 0
  BY DEF Hear, HealthInv
<1>2. reply' = [reply EXCEPT ![p] = what] /\ reply \in [Probes -> Answered \cup Pending]
  BY DEF Hear, HealthInv, HealthTypeOK
<1>3. reply'[p] = what /\ \A q \in Probes : q # p => reply'[q] = reply[q]
  BY <1>2
<1>4. reply' \in [Probes -> Answered \cup Pending]
  BY <1>2
<1>5. reply[p] # "unset" /\ reply[p] # "failed" /\ p \in configured
  BY <1>1 DEF Asked, Pending
<1>6. UNCHANGED <<configured, phase, elapsed, report, code, strict, requests>>
  BY DEF Hear
<1>7. Asked'
  BY <1>1, <1>3, <1>5, <1>6 DEF Asked
<1>8. HealthTypeOK'
  BY <1>4, <1>5, <1>6 DEF HealthInv, HealthTypeOK
<1> QED
  BY <1>1, <1>6, <1>7, <1>8 DEF HealthInv, AlarmsAreReal

LEMMA ToldStands == Told /\ UNCHANGED <<reply, report>> => Told'
<1> SUFFICES ASSUME Told, UNCHANGED <<reply, report>> PROVE Told'
  OBVIOUS
<1>1. \A p \in Probes : StateOf(p)' = StateOf(p)
  BY DEF StateOf
<1> QED
  BY <1>1 DEF Told

LEMMA HealthSteps == HealthAssumption /\ HealthInv /\ [HealthNext]_healthVars => HealthInv'
<1> SUFFICES ASSUME HealthAssumption, HealthInv, [HealthNext]_healthVars PROVE HealthInv'
  OBVIOUS
<1>1. ASSUME NEW s \in BOOLEAN, GetHealth(s) PROVE HealthInv'
  BY <1>1 DEF GetHealth, HealthInv, HealthTypeOK, AlarmsAreReal, Asked, Answered, Pending
<1>2. ASSUME NEW p \in Probes, Answers(p) PROVE HealthInv'
  BY <1>2, Heard DEF Answers, Answered, Pending
<1>3. ASSUME NEW p \in Probes, Refuses(p) PROVE HealthInv'
  BY <1>3, Heard DEF Refuses, Answered, Pending
<1>4. ASSUME NEW p \in Probes, AbortProbe(p) PROVE HealthInv'
  BY <1>4, Heard DEF AbortProbe, Answered, Pending
<1>5. Venue \in Probes
  BY DEF Probes
<1>6. CASE RejectedBody
  BY <1>5, <1>6, Heard DEF RejectedBody, Answered, Pending
<1>7. CASE RejectedStatus
  BY <1>5, <1>7, Heard DEF RejectedStatus, Answered, Pending
<1>8. CASE OtherVenue
  BY <1>5, <1>8, Heard DEF OtherVenue, Answered, Pending
<1>9. CASE FourSeconds
  BY <1>9, ToldStands DEF FourSeconds, HealthInv, HealthTypeOK, AlarmsAreReal, Asked
<1>10. ASSUME NEW hooked \in BOOLEAN, Compose(hooked) PROVE HealthInv'
  <2>1. Asked' /\ Told' /\ configured' \subseteq Probes
    BY <1>10 DEF Compose, HealthInv, Asked, Told, StateOf
  <2>2. report' \in [Probes -> {"ok", "degraded", "down", "skipped"}]
    BY <2>1, <1>10 DEF Compose, Told, StateOf, Unconfigured, Slow, Missed, Answered
  <2> QED
    BY <1>10, <2>1, <2>2 DEF Compose, HealthInv, HealthTypeOK, AlarmsAreReal
<1>11. CASE HookAnswers
  BY <1>11, ToldStands DEF HookAnswers, HealthInv, HealthTypeOK, AlarmsAreReal, Asked
<1>12. CASE Respond
  <2>1. Asked /\ Told /\ configured \subseteq Probes
    BY <1>12 DEF Respond, HealthInv
  <2>2. Rollup(report) = "down" <=> (Neon \ configured) \cup (unreachable \ {Mirror}) # {}
    <3>1. \A p \in Probes : report[p] = "down" <=> p \in (Neon \ configured) \cup (unreachable \ {Mirror})
      BY <2>1, StateFacts
    <3>2. (Neon \ configured) \cup (unreachable \ {Mirror}) \subseteq Probes
      BY <2>1 DEF HealthInv, HealthTypeOK, Probes
    <3> QED
      BY <3>1, <3>2 DEF Rollup
  <2>3. code' = 503 <=> strict /\ (Neon \ configured) \cup (unreachable \ {Mirror}) # {}
    BY <1>12, <2>2 DEF Respond
  <2>4. AlarmsAreReal'
    BY <1>12, <2>3 DEF Respond, AlarmsAreReal
  <2> QED
    BY <1>12, <2>4 DEF Respond, HealthInv, HealthTypeOK, NothingAsked, NothingReported, Answered, Pending
<1>13. CASE UNCHANGED healthVars
  BY <1>13, ToldStands DEF healthVars, HealthInv, HealthTypeOK, AlarmsAreReal, Asked
<1> QED
  BY <1>1, <1>2, <1>3, <1>4, <1>6, <1>7, <1>8, <1>9, <1>10, <1>11, <1>12, <1>13 DEF HealthNext

LEMMA EarnedFollows == HealthAssumption /\ HealthInv => OkIsEarned
<1> SUFFICES ASSUME HealthAssumption, HealthInv, phase = "composed", Rollup(report) = "ok"
             PROVE  Neon \subseteq configured
                    /\ \A p \in configured : reply[p] = "ok" \/ (p = Mirror /\ reply[p] = "slow")
  BY DEF OkIsEarned
<1>1. Asked /\ Told /\ configured \subseteq Probes
  BY DEF HealthInv
<1>2. \A p \in Probes : report[p] \in {"ok", "skipped"}
  BY <1>1, StateFacts DEF Rollup
<1>3. Neon \subseteq Probes
  BY DEF Probes
<1> QED
  BY <1>1, <1>2, <1>3, StateFacts

(* The health report is true of the deployment for any components, configurations and order of *)
(* answers, aborts and the deadline.                                                           *)
THEOREM ReportsAreTrue == HealthSpec => [](HealthTypeOK /\ AlarmsAreReal /\ OkIsEarned)
<1>1. HealthInit => HealthInv
  BY HealthStarts, HealthAssumption
<1>2. HealthInv /\ [HealthNext]_healthVars => HealthInv'
  BY HealthSteps, HealthAssumption
<1>3. HealthInv => HealthTypeOK /\ AlarmsAreReal /\ OkIsEarned
  BY EarnedFollows, HealthAssumption DEF HealthInv
<1> QED
  BY <1>1, <1>2, <1>3, PTL DEF HealthSpec

-----------------------------------------------------------------------------
(* The learning loop.  The closed rows, as bags, and how many of them are of a set *)
TradeRows == [symbol : TradedSymbols, agents : SUBSET Agents, epoch : 1..(1 + MaxDeploys),
              bucket : Buckets, out : Outcomes]

IsReport(B) ==
    /\ IsFiniteSet(DOMAIN B) /\ DOMAIN B \subseteq TradeRows
    /\ B \in [DOMAIN B -> Nat \ {0}]

Count(B, S) == SumFunction([t \in {u \in DOMAIN B : u \in S} |-> B[t]])

Within(R, C) == \A S \in SUBSET TradeRows : Count(R, S) <= Count(C, S)

(* The rows the report groups by *)
RowsOfAgent(a) == {t \in TradeRows : a \in t.agents}
RowsOfEpoch(e) == {t \in TradeRows : t.epoch = e}
RowsOfBucket(e, b) == {t \in TradeRows : t.epoch = e /\ t.bucket = b}

LEMMA CountIn ==
  ASSUME NEW B, IsReport(B), NEW S
  PROVE  Count(B, S) \in Int
<1> DEFINE D == {u \in DOMAIN B : u \in S}
<1>1. IsFiniteSet(D)
  BY FS_Subset DEF IsReport
<1>2. [t \in D |-> B[t]] \in [D -> Int]
  BY DEF IsReport
<1>3. SumFunction([t \in D |-> B[t]]) \in Int
  BY <1>1, <1>2, SumInt
<1> QED BY <1>3 DEF Count

LEMMA CountsAre ==
  ASSUME NEW B, IsReport(B)
  PROVE  /\ \A a : AgentRow(B, a).trades = Count(B, RowsOfAgent(a))
         /\ \A e : EpochSample(B, e) = Count(B, RowsOfEpoch(e))
         /\ \A e, b : BucketRow(B, e, b).trades = Count(B, RowsOfBucket(e, b))
         /\ Sample(B) = Count(B, TradeRows)
<1>1. DOMAIN B \subseteq TradeRows /\ \A t \in DOMAIN B : B[t] \in Nat /\ B[t] * 1 = B[t]
  BY DEF IsReport
<1>2. ASSUME NEW a PROVE AgentRow(B, a).trades = Count(B, RowsOfAgent(a))
  <2>1. {u \in DOMAIN B : a \in u.agents} = {u \in DOMAIN B : u \in RowsOfAgent(a)}
    BY <1>1 DEF RowsOfAgent
  <2>2. AgentRow(B, a).trades = SumFunction([t \in {u \in DOMAIN B : a \in u.agents} |-> B[t] * 1])
    BY DEF AgentRow, Row, Total, BagToSet
  <2>3. [t \in {u \in DOMAIN B : a \in u.agents} |-> B[t] * 1] = [t \in {u \in DOMAIN B : u \in RowsOfAgent(a)} |-> B[t]]
    BY <1>1, <2>1
  <2> QED BY <2>2, <2>3 DEF Count
<1>3. ASSUME NEW e PROVE EpochSample(B, e) = Count(B, RowsOfEpoch(e))
  <2>1. {u \in DOMAIN B : u.epoch = e} = {u \in DOMAIN B : u \in RowsOfEpoch(e)}
    BY <1>1 DEF RowsOfEpoch
  <2>2. EpochSample(B, e) = SumFunction([t \in {u \in DOMAIN B : u.epoch = e} |-> B[t] * 1])
    BY DEF EpochSample, Total, BagToSet
  <2>3. [t \in {u \in DOMAIN B : u.epoch = e} |-> B[t] * 1] = [t \in {u \in DOMAIN B : u \in RowsOfEpoch(e)} |-> B[t]]
    BY <1>1, <2>1
  <2> QED BY <2>2, <2>3 DEF Count
<1>4. ASSUME NEW e, NEW b PROVE BucketRow(B, e, b).trades = Count(B, RowsOfBucket(e, b))
  <2>1. {u \in DOMAIN B : u.epoch = e /\ u.bucket = b} = {u \in DOMAIN B : u \in RowsOfBucket(e, b)}
    BY <1>1 DEF RowsOfBucket
  <2>2. BucketRow(B, e, b).trades = SumFunction([t \in {u \in DOMAIN B : u.epoch = e /\ u.bucket = b} |-> B[t] * 1])
    BY DEF BucketRow, Row, Total, BagToSet
  <2>3. [t \in {u \in DOMAIN B : u.epoch = e /\ u.bucket = b} |-> B[t] * 1]
           = [t \in {u \in DOMAIN B : u \in RowsOfBucket(e, b)} |-> B[t]]
    BY <1>1, <2>1
  <2> QED BY <2>2, <2>3 DEF Count
<1>5. Sample(B) = Count(B, TradeRows)
  <2>1. {u \in DOMAIN B : TRUE} = {u \in DOMAIN B : u \in TradeRows}
    BY <1>1
  <2>2. Sample(B) = SumFunction([t \in {u \in DOMAIN B : TRUE} |-> B[t] * 1])
    BY DEF Sample, Total, BagToSet
  <2>3. [t \in {u \in DOMAIN B : TRUE} |-> B[t] * 1] = [t \in {u \in DOMAIN B : u \in TradeRows} |-> B[t]]
    BY <1>1, <2>1
  <2> QED BY <2>2, <2>3 DEF Count
<1> QED BY <1>2, <1>3, <1>4, <1>5

(* One more row, one more in every count of a set that has it *)
LEMMA CountGrows ==
  ASSUME NEW B, IsReport(B), NEW x \in TradeRows, NEW C, C = B (+) SetToBag({x})
  PROVE  /\ IsReport(C)
         /\ \A S : Count(C, S) = Count(B, S) + (IF x \in S THEN 1 ELSE 0)
<1>1. /\ DOMAIN C = DOMAIN B \cup {x}
      /\ \A t \in DOMAIN C : C[t] = (IF t \in DOMAIN B THEN B[t] ELSE 0) + (IF t = x THEN 1 ELSE 0)
      /\ C = [t \in DOMAIN C |-> C[t]]
  BY DEF (+), SetToBag
<1>2. IsFiniteSet(DOMAIN B) /\ DOMAIN B \subseteq TradeRows /\ \A t \in DOMAIN B : B[t] \in Nat \ {0}
  BY DEF IsReport
<1>3. \A t \in DOMAIN C : C[t] \in Nat \ {0}
  BY <1>1, <1>2
<1>4. IsFiniteSet(DOMAIN C)
  BY <1>1, <1>2, FS_AddElement
<1>5. IsReport(C)
  BY <1>1, <1>2, <1>3, <1>4 DEF IsReport
<1>7. /\ \A t \in DOMAIN B : t # x => C[t] = B[t]
      /\ x \in DOMAIN B => C[x] = B[x] + 1
      /\ x \notin DOMAIN B => C[x] = 1
      /\ \A t \in DOMAIN C : C[t] \in Int
      /\ \A t \in DOMAIN B : B[t] \in Int
  BY <1>1, <1>2, <1>3
<1>8. \A u : u \in DOMAIN C <=> u \in DOMAIN B \/ u = x
  BY <1>1
<1>6. ASSUME NEW S PROVE Count(C, S) = Count(B, S) + (IF x \in S THEN 1 ELSE 0)
  <2> DEFINE D == {u \in DOMAIN B : u \in S}
             E == {u \in DOMAIN C : u \in S}
             f == [t \in D |-> B[t]]
             e == [t \in E |-> C[t]]
  <2>1. IsFiniteSet(D)
    BY <1>2, FS_Subset
  <2>2. Count(B, S) = SumFunction(f) /\ Count(C, S) = SumFunction(e) /\ Count(B, S) \in Int
    BY CountIn DEF Count
  <2>3. CASE x \notin S
    <3>1. E = D
      BY <1>8, <2>3
    <3>2. \A t \in D : C[t] = B[t]
      BY <1>7, <2>3
    <3>3. e = f
      BY <3>1, <3>2
    <3> HIDE DEF e, f
    <3> QED BY <2>2, <2>3, <3>3
  <2>4. CASE x \in S /\ x \in DOMAIN B
    <3>1. E = D /\ x \in D
      BY <1>8, <2>4
    <3>4. /\ D \subseteq DOMAIN B /\ E \subseteq DOMAIN C
          /\ \A y \in D : f[y] = B[y]
          /\ \A y \in E : e[y] = C[y]
      OBVIOUS
    <3>5. f \in [D -> Int]
      BY <1>7
    <3>6. e \in [E -> Int]
      BY <1>7
    <3>2. f \in [D -> Int] /\ e \in [D -> Int] /\ e[x] = f[x] + 1 /\ f[x] \in Int
          /\ \A y \in D \ {x} : e[y] = f[y]
      <4> HIDE DEF D, E, e, f
      <4> QED BY <1>7, <2>4, <3>1, <3>4, <3>5, <3>6
    <3> HIDE DEF e, f
    <3>3. SumFunction(e) = SumFunction(f) - f[x] + e[x]
      BY <2>1, <3>1, <3>2, SumExcept
    <3> QED BY <2>2, <2>4, <3>2, <3>3
  <2>5. CASE x \in S /\ x \notin DOMAIN B
    <3>1. E = D \cup {x} /\ x \notin D
      BY <1>8, <2>5
    <3>4. /\ D \subseteq DOMAIN B /\ E \subseteq DOMAIN C
          /\ \A y \in D : f[y] = B[y]
          /\ \A y \in E : e[y] = C[y]
      OBVIOUS
    <3>5. f \in [D -> Int]
      BY <1>7
    <3>6. e \in [E -> Int]
      BY <1>7
    <3>2. f \in [D -> Int] /\ e \in [D \cup {x} -> Int] /\ e[x] = 1 /\ \A y \in D : e[y] = f[y]
      <4> HIDE DEF D, E, e, f
      <4> QED BY <1>7, <2>5, <3>1, <3>4, <3>5, <3>6
    <3> HIDE DEF e, f, D
    <3>3. GrownBy(e, f, D, x)
      BY <2>1, <3>1, <3>2 DEF GrownBy
    <3>7. SumFunction(e) = SumFunction(f) + e[x]
      BY <3>3, SumMore
    <3> QED BY <2>2, <2>5, <3>2, <3>7
  <2> QED BY <2>3, <2>4, <2>5
<1> QED BY <1>5, <1>6

LEMMA EmptyReport == IsReport(EmptyBag) /\ \A S : Count(EmptyBag, S) = 0
<1>1. DOMAIN EmptyBag = {} /\ EmptyBag = [t \in {} |-> 1]
  BY DEF EmptyBag, SetToBag
<1>2. IsFiniteSet({})
  BY FS_EmptySet
<1>3. IsReport(EmptyBag)
  BY <1>1, <1>2 DEF IsReport
<1>4. ASSUME NEW S PROVE Count(EmptyBag, S) = 0
  <2>1. {u \in DOMAIN EmptyBag : u \in S} = {}
    BY <1>1
  <2>2. [t \in {u \in DOMAIN EmptyBag : u \in S} |-> EmptyBag[t]] = [t \in {} |-> 0]
    BY <2>1
  <2> QED BY <1>2, <2>2, SumZero DEF Count
<1> QED BY <1>3, <1>4

-----------------------------------------------------------------------------
(* What deriveEdge makes of a report *)

LEMMA EdgeConstants ==
  /\ IsFiniteSet(Agents) /\ BaseWeight \in [Agents -> Nat] /\ \A a \in Agents : BaseWeight[a] >= 100
  /\ \A o \in Outcomes : o.net \in Int /\ o.gross \in Int
  /\ MinSample \in Nat \ {0} /\ BaseConfidence \in 0..90 /\ VoteThreshold \in Nat
  /\ MaxDeploys \in Nat
  BY EdgeAssumption DEF EdgeAssumption

LEMMA AgentSums ==
  ASSUME NEW B, IsReport(B), NEW a
  PROVE  /\ AgentRow(B, a).trades \in Int /\ AgentRow(B, a).wins \in Int
         /\ AgentRow(B, a).net \in Int /\ AgentRow(B, a).gross \in Int
<1> DEFINE D == {u \in DOMAIN B : a \in u.agents}
<1>1. IsFiniteSet(D)
  BY FS_Subset DEF IsReport
<1>2. \A t \in D : B[t] \in Int /\ t.out.net \in Int /\ t.out.gross \in Int
  BY EdgeConstants DEF IsReport, TradeRows
<1>3. AgentRow(B, a).trades \in Int
  <2>1. AgentRow(B, a).trades = SumFunction([t \in D |-> B[t] * 1])
    BY DEF AgentRow, Row, Total, BagToSet
  <2>2. [t \in D |-> B[t] * 1] \in [D -> Int]
    BY <1>2
  <2> QED BY <1>1, <2>1, <2>2, SumInt
<1>4. AgentRow(B, a).wins \in Int
  <2>1. AgentRow(B, a).wins = SumFunction([t \in D |-> B[t] * (IF t.out.net > 0 THEN 1 ELSE 0)])
    BY DEF AgentRow, Row, Total, BagToSet
  <2>2. [t \in D |-> B[t] * (IF t.out.net > 0 THEN 1 ELSE 0)] \in [D -> Int]
    BY <1>2
  <2> QED BY <1>1, <2>1, <2>2, SumInt
<1>5. AgentRow(B, a).net \in Int
  <2>1. AgentRow(B, a).net = SumFunction([t \in D |-> B[t] * t.out.net])
    BY DEF AgentRow, Row, Total, BagToSet
  <2>2. [t \in D |-> B[t] * t.out.net] \in [D -> Int]
    BY <1>2
  <2> QED BY <1>1, <2>1, <2>2, SumInt
<1>6. AgentRow(B, a).gross \in Int
  <2>1. AgentRow(B, a).gross = SumFunction([t \in D |-> B[t] * t.out.gross])
    BY DEF AgentRow, Row, Total, BagToSet
  <2>2. [t \in D |-> B[t] * t.out.gross] \in [D -> Int]
    BY <1>2
  <2> QED BY <1>1, <2>1, <2>2, SumInt
<1> QED BY <1>3, <1>4, <1>5, <1>6

LEMMA FactorIn ==
  ASSUME NEW row, row.trades \in Int, row.wins \in Int, row.net \in Int, row.gross \in Int, row.trades > 0
  PROVE  Factor(row) \in Int
<1> DEFINE byWins == Clamp((2000 * row.wins) \div row.trades, 200, 2000)
           charged == IF row.gross > 0 /\ row.net <= 0 THEN byWins \div 2 ELSE byWins
           paid == IF row.net > 0 THEN (charged * 11) \div 10 ELSE charged
<1>1. byWins \in Int
  <2>1. PICK n \in Int, w \in Int : n = row.trades /\ w = 2000 * row.wins
    OBVIOUS
  <2>2. PICK v \in Int : v = w \div n
    BY <2>1
  <2>3. Clamp(v, 200, 2000) \in Int
    <3>1. Clamp(v, 200, 2000) \in 200..2000
      BY DEF Clamp
    <3> QED BY <3>1
  <2>4. v = (2000 * row.wins) \div row.trades
    BY <2>1, <2>2
  <2>5. byWins = Clamp(v, 200, 2000)
    BY <2>4
  <2> QED BY <2>3, <2>5
<1> HIDE DEF byWins
<1>2. charged \in Int
  BY <1>1
<1> HIDE DEF charged
<1>3. paid \in Int
  BY <1>2
<1> HIDE DEF paid
<1>4. 1000 + ((paid - 1000) * row.trades) \div (2 * MinSample) \in Int
  <2>1. PICK x \in Int, m \in Nat : x = (paid - 1000) * row.trades /\ m = 2 * MinSample /\ m > 0
    BY <1>3, EdgeConstants
  <2> QED BY <2>1
<1>5. Factor(row) = IF Proven(row) \/ row.trades >= 2 * MinSample THEN paid
                    ELSE 1000 + ((paid - 1000) * row.trades) \div (2 * MinSample)
  BY DEF Factor, paid, charged, byWins
<1> QED BY <1>3, <1>4, <1>5

(* scale keeps an agent, and no more than doubles it *)
LEMMA ScaledIn ==
  ASSUME NEW row, row.trades \in Int, row.wins \in Int, row.net \in Int, row.gross \in Int,
         NEW base \in Nat, base >= 100
  PROVE  /\ Scaled(row, base) \in Nat /\ Scaled(row, base) > 0
         /\ 100 * Scaled(row, base) >= 14 * base /\ Scaled(row, base) <= 2 * base
         /\ row.trades < MinSample => Scaled(row, base) = base
<1>1. CASE row.trades < MinSample
  <2>1. Scaled(row, base) = base
    BY <1>1 DEF Scaled
  <2> QED BY <2>1
<1>2. CASE ~(row.trades < MinSample)
  <2>1. row.trades > 0
    BY <1>2, EdgeConstants
  <2>2. PICK v \in Int : v = Factor(row)
    BY <2>1, FactorIn
  <2>3. PICK c \in 150..2000 : c = Clamp(v, 150, 2000)
    BY DEF Clamp
  <2>4. PICK p \in Int : p = base * c
    OBVIOUS
  <2>5. 150 * base <= p /\ p <= 2000 * base
    <3>1. \A m, n \in Nat : m * n \in Nat
      OBVIOUS
    <3>2. c - 150 \in Nat /\ 2000 - c \in Nat
      OBVIOUS
    <3>3. base * (c - 150) >= 0 /\ base * (2000 - c) >= 0
      BY <3>1, <3>2
    <3>4. base * (c - 150) = base * c - base * 150 /\ base * (2000 - c) = base * 2000 - base * c
      OBVIOUS
    <3> QED BY <2>4, <3>3, <3>4
  <2>6. Scaled(row, base) = p \div 1000
    BY <1>2, <2>2, <2>3, <2>4 DEF Scaled
  <2>7. PICK w \in Int : w = p \div 1000 /\ 1000 * w <= p /\ p < 1000 * w + 1000
    BY <2>4
  <2> HIDE <2>4
  <2>8. w > 0 /\ 100 * w >= 14 * base /\ w <= 2 * base
    BY <2>5, <2>7
  <2> QED BY <1>2, <2>6, <2>7, <2>8
<1> QED BY <1>1, <1>2

LEMMA FloorIn ==
  ASSUME NEW B, NEW e
  PROVE  /\ CalibratedFloor(B, e) \in BaseConfidence..90
         /\ CalibratedFloor(B, e) > BaseConfidence =>
               /\ ~(EpochSample(B, e) < CalibrationSample)
               /\ \E b \in Buckets : /\ 50 + 10 * b = CalibratedFloor(B, e)
                                     /\ BucketRow(B, e, b).trades >= MinSample
<1> DEFINE good == {b \in Buckets : BucketRow(B, e, b).trades >= MinSample /\ BucketRow(B, e, b).net > 0}
<1>1. CASE EpochSample(B, e) < CalibrationSample \/ good = {}
  <2>1. CalibratedFloor(B, e) = BaseConfidence
    BY <1>1 DEF CalibratedFloor
  <2> QED BY <2>1, EdgeConstants
<1>2. CASE ~(EpochSample(B, e) < CalibrationSample) /\ good # {}
  <2>1. good \subseteq Nat /\ good \subseteq 0..4
    BY DEF Buckets
  <2>2. \A b \in good : b \in Buckets /\ BucketRow(B, e, b).trades >= MinSample
    OBVIOUS
  <2>3. CalibratedFloor(B, e) = Max({BaseConfidence, 50 + 10 * Min(good)})
    BY <1>2 DEF CalibratedFloor
  <2> HIDE DEF good
  <2>4. PICK b \in good : \A c \in good : b <= c
    BY <1>2, <2>1, LeastNatural
  <2>5. PICK m \in good : m = Min(good)
    BY <2>4 DEF Min
  <2>6. PICK f \in Int : f = 50 + 10 * m /\ f <= 90
    BY <2>1
  <2>7. PICK g \in {BaseConfidence, f} : g = Max({BaseConfidence, f}) /\ g >= BaseConfidence /\ g >= f
    <3>1. BaseConfidence \in Int
      BY EdgeConstants
    <3>2. \E x \in {BaseConfidence, f} : \A y \in {BaseConfidence, f} : x >= y
      BY <3>1, <2>6
    <3>3. Max({BaseConfidence, f}) \in {BaseConfidence, f} /\ \A y \in {BaseConfidence, f} : Max({BaseConfidence, f}) >= y
      BY <3>2 DEF Max
    <3> QED BY <3>3
  <2>8. CalibratedFloor(B, e) = g
    BY <2>3, <2>5, <2>6, <2>7
  <2>9. g \in BaseConfidence..90
    BY <2>6, <2>7, EdgeConstants
  <2>10. g > BaseConfidence => g = f
    BY <2>7, EdgeConstants
  <2>11. m \in Buckets /\ BucketRow(B, e, m).trades >= MinSample
    BY <2>2
  <2> QED BY <1>2, <2>6, <2>8, <2>9, <2>10, <2>11
<1> QED BY <1>1, <1>2

(* A vote that passes has weight behind it *)
LEMMA VoteIn ==
  ASSUME NEW vote \in [Agents -> Votes], NEW gate \in Gates, weights \in [Agents -> Nat], Passes(vote, gate)
  PROVE  ConfBucket(Confidence(vote, gate)) \in Buckets
<1>1. IsFiniteSet(Agents) /\ gate \in [Agents -> Nat] /\ \A a \in Agents : vote[a] \in Int
  <2>1. IsFiniteSet(Agents) /\ Gates \subseteq [Agents -> Nat] /\ \A x \in Votes : x \in -10..10
    BY EdgeAssumption DEF EdgeAssumption
  <2>2. \A x \in Votes : x \in Int
    BY <2>1
  <2> QED BY <2>1, <2>2
<1>2. \A a \in Agents : Weight(a, gate) \in Nat
  <2> TAKE a \in Agents
  <2>1. PICK p \in Nat : p = weights[a] * gate[a]
    BY <1>1
  <2>2. p \div 100 \in Nat
    OBVIOUS
  <2> QED BY <2>1, <2>2 DEF Weight
<1> DEFINE g == [a \in Agents |-> Weight(a, gate)]
           v == [a \in Agents |-> vote[a] * Weight(a, gate)]
<1>3. g \in [Agents -> Nat] /\ v \in [Agents -> Int] /\ \A a \in Agents : g[a] = Weight(a, gate)
  BY <1>1, <1>2
<1>4. PICK panel \in Nat : panel = Panel(gate) /\ \A a \in Agents : g[a] <= panel
  BY <1>1, <1>3, SumNat DEF Panel
<1>5. PICK net \in Int : net = Net(vote, gate)
  BY <1>1, <1>3, SumInt DEF Net
<1>6. panel > 0
  <2> SUFFICES ASSUME panel = 0 PROVE FALSE
    BY <1>4
  <2>1. \A a \in Agents : Weight(a, gate) = 0
    BY <1>2, <1>3, <1>4
  <2>2. \A a \in Agents : vote[a] * Weight(a, gate) = 0
    BY <1>1, <2>1
  <2>3. v = [a \in Agents |-> 0]
    BY <2>2
  <2>4. net = 0
    BY <1>1, <1>5, <2>3, SumZero DEF Net
  <2>5. Abs(Net(vote, gate)) = 0
    BY <1>5, <2>4 DEF Abs
  <2> QED BY <2>5, EdgeConstants DEF Passes
<1>7. PICK n \in Int : n = 50 * Abs(Net(vote, gate))
  BY <1>5 DEF Abs
<1>8. PICK m \in Nat : m = 10 * Panel(gate) /\ m > 0
  BY <1>4, <1>6
<1>9. PICK c \in Int : c = 50 + n \div m
  BY <1>8
<1>10. Confidence(vote, gate) = c
  BY <1>7, <1>8, <1>9 DEF Confidence
<1>11. PICK k \in Int : k = (c - 50) \div 10
  OBVIOUS
<1>12. Clamp(k, 0, 4) \in 0..4
  BY DEF Clamp
<1> QED BY <1>10, <1>11, <1>12 DEF ConfBucket, Buckets

-----------------------------------------------------------------------------
(* The invariant *)

OpenTrades == [no : Nat, symbol : TradedSymbols, agents : SUBSET Agents, epoch : 1..(1 + MaxDeploys), bucket : Buckets]

(* A save has the row of its trade, and in the end a report the rows have outgrown *)
SaveOk(w) ==
    /\ w.trade \in TradeRows /\ w.step \in {"update", "report", "answer"}
    /\ w.step = "answer" => IsReport(w.report) /\ Within(w.report, closed)
    /\ w.step # "answer" => w = [trade |-> w.trade, no |-> w.no, step |-> w.step]

Unwritten == {w \in saving : w.step = "update"}

(* While saves come one at a time, what is learned is behind by the one that is under way *)
InStep ==
    /\ \A v \in saving, w \in saving : v = w
    /\ (\A w \in saving : w.step = "update") => learned = DeriveEdge(closed, epoch)
    /\ \A w \in saving : w.step = "answer" => w.report = closed

EdgeInv ==
    /\ open \subseteq OpenTrades /\ IsFiniteSet(open) /\ IsFiniteSet(saving) /\ trades \in Nat
    /\ overlapped \in BOOLEAN /\ epoch \in 1..(1 + MaxDeploys) /\ IsReport(closed)
    /\ \A w \in saving : SaveOk(w)
    /\ \E R : IsReport(R) /\ Within(R, closed) /\ learned = DeriveEdge(R, epoch)
    /\ weights = learned.weights
    /\ Count(closed, TradeRows) + Cardinality(Unwritten) + Cardinality(open) <= trades
    /\ ~overlapped => InStep

LEMMA WithinSame == ASSUME NEW R, IsReport(R) PROVE Within(R, R)
  BY CountIn DEF Within

LEMMA WithinGrows ==
  ASSUME NEW R, IsReport(R), NEW B, IsReport(B), Within(R, B), NEW x \in TradeRows, NEW C, C = B (+) SetToBag({x})
  PROVE  Within(R, C)
<1> SUFFICES ASSUME NEW S \in SUBSET TradeRows PROVE Count(R, S) <= Count(C, S)
  BY DEF Within
<1>1. Count(R, S) \in Int /\ Count(B, S) \in Int /\ Count(R, S) <= Count(B, S)
  BY CountIn DEF Within
<1>2. Count(C, S) = Count(B, S) + (IF x \in S THEN 1 ELSE 0)
  BY CountGrows
<1> QED BY <1>1, <1>2

(* What is claimed follows *)
LEMMA EdgeClaims ==
  ASSUME EdgeInv
  PROVE  /\ EdgeTypeOK /\ FloorIsMeasured /\ WeightsAreEarned /\ LearnedIsCurrent
         /\ weights \in [Agents -> Nat]
<1>1. PICK R : IsReport(R) /\ Within(R, closed) /\ learned = DeriveEdge(R, epoch)
  BY DEF EdgeInv
<1>2. IsReport(closed) /\ weights = learned.weights /\ epoch \in 1..(1 + MaxDeploys)
  BY DEF EdgeInv
<1>3. /\ learned.suppressed = Suppressed(R) \cup CostSuppressed(R)
      /\ learned.floor = CalibratedFloor(R, epoch)
      /\ weights = [a \in Agents |-> Scaled(AgentRow(R, a), BaseWeight[a])]
  BY <1>1, <1>2 DEF DeriveEdge
<1>4. ASSUME NEW a \in Agents
      PROVE  /\ weights[a] \in Nat /\ weights[a] > 0 /\ 100 * weights[a] >= 14 * BaseWeight[a]
             /\ weights[a] <= 2 * BaseWeight[a]
             /\ AgentRow(R, a).trades < MinSample => weights[a] = BaseWeight[a]
  <2>1. BaseWeight[a] \in Nat /\ BaseWeight[a] >= 100
    BY EdgeConstants
  <2>2. /\ AgentRow(R, a).trades \in Int /\ AgentRow(R, a).wins \in Int
        /\ AgentRow(R, a).net \in Int /\ AgentRow(R, a).gross \in Int
    BY <1>1, AgentSums
  <2>3. PICK row : row = AgentRow(R, a)
    OBVIOUS
  <2>6. PICK base \in Nat : base = BaseWeight[a]
    BY <2>1
  <2>4. /\ Scaled(row, base) \in Nat /\ Scaled(row, base) > 0
        /\ 100 * Scaled(row, base) >= 14 * base /\ Scaled(row, base) <= 2 * base
        /\ row.trades < MinSample => Scaled(row, base) = base
    BY <2>1, <2>2, <2>3, <2>6, ScaledIn
  <2>5. weights[a] = Scaled(row, base)
    BY <1>3, <2>3, <2>6
  <2> QED BY <2>3, <2>4, <2>5, <2>6
<1>5. \A S \in SUBSET TradeRows : Count(R, S) \in Int /\ Count(closed, S) \in Int /\ Count(R, S) <= Count(closed, S)
  BY <1>1, <1>2, CountIn DEF Within
<1>6. /\ \A a : AgentRow(R, a).trades \in Int /\ AgentRow(closed, a).trades \in Int
               /\ AgentRow(R, a).trades <= AgentRow(closed, a).trades
      /\ \A e : EpochSample(R, e) \in Int /\ EpochSample(closed, e) \in Int /\ EpochSample(R, e) <= EpochSample(closed, e)
      /\ \A e, b : BucketRow(R, e, b).trades \in Int /\ BucketRow(closed, e, b).trades \in Int
                  /\ BucketRow(R, e, b).trades <= BucketRow(closed, e, b).trades
      /\ Sample(closed) = Count(closed, TradeRows)
  <2>1. /\ \A a : RowsOfAgent(a) \in SUBSET TradeRows
        /\ \A e : RowsOfEpoch(e) \in SUBSET TradeRows
        /\ \A e, b : RowsOfBucket(e, b) \in SUBSET TradeRows
    BY DEF RowsOfAgent, RowsOfEpoch, RowsOfBucket
  <2>2. /\ \A a : AgentRow(R, a).trades = Count(R, RowsOfAgent(a))
        /\ \A e : EpochSample(R, e) = Count(R, RowsOfEpoch(e))
        /\ \A e, b : BucketRow(R, e, b).trades = Count(R, RowsOfBucket(e, b))
    BY <1>1, CountsAre
  <2>3. /\ \A a : AgentRow(closed, a).trades = Count(closed, RowsOfAgent(a))
        /\ \A e : EpochSample(closed, e) = Count(closed, RowsOfEpoch(e))
        /\ \A e, b : BucketRow(closed, e, b).trades = Count(closed, RowsOfBucket(e, b))
        /\ Sample(closed) = Count(closed, TradeRows)
    BY <1>2, CountsAre
  <2> QED BY <1>5, <2>1, <2>2, <2>3
<1>7. WeightsAreEarned
  <2> SUFFICES ASSUME NEW a \in Agents
               PROVE  /\ weights[a] # BaseWeight[a] => AgentRow(closed, a).trades >= MinSample
                      /\ weights[a] > 0 /\ 100 * weights[a] >= 14 * BaseWeight[a] /\ weights[a] <= 2 * BaseWeight[a]
    BY DEF WeightsAreEarned
  <2>1. weights[a] # BaseWeight[a] => AgentRow(closed, a).trades >= MinSample
    <3>1. MinSample \in Int
      BY EdgeConstants
    <3> QED BY <1>4, <1>6, <3>1
  <2> QED BY <1>4, <2>1
<1>8. FloorIsMeasured
  <2> SUFFICES ASSUME learned.floor > BaseConfidence
               PROVE  /\ EpochSample(closed, epoch) >= CalibrationSample
                      /\ \E b \in Buckets : 50 + 10 * b = learned.floor /\ BucketRow(closed, epoch, b).trades >= MinSample
    BY DEF FloorIsMeasured
  <2>1. ~(EpochSample(R, epoch) < CalibrationSample)
    BY <1>3, FloorIn
  <2>2. PICK b \in Buckets : 50 + 10 * b = learned.floor /\ BucketRow(R, epoch, b).trades >= MinSample
    BY <1>3, FloorIn
  <2>3. CalibrationSample \in Int /\ MinSample \in Int
    BY EdgeAssumption DEF EdgeAssumption
  <2>4. EpochSample(closed, epoch) >= CalibrationSample /\ BucketRow(closed, epoch, b).trades >= MinSample
    BY <1>6, <2>1, <2>2, <2>3
  <2> QED BY <2>2, <2>4
<1>9. LearnedIsCurrent
  BY <1>2 DEF EdgeInv, InStep, LearnedIsCurrent
<1>10. weights \in [Agents -> Nat]
  BY <1>3, <1>4
<1>11. EdgeTypeOK
  <2>1. \A t \in open : t.symbol \in TradedSymbols /\ t.agents \subseteq Agents /\ t.bucket \in Buckets
    BY DEF EdgeInv, OpenTrades
  <2>2. learned.suppressed \subseteq TradedSymbols
    BY <1>3 DEF Suppressed, CostSuppressed
  <2>3. learned.floor \in BaseConfidence..90
    BY <1>3, FloorIn
  <2>4. Sample(closed) <= trades
    <3>1. IsFiniteSet(open) /\ IsFiniteSet(Unwritten) /\ trades \in Nat
      BY FS_Subset DEF EdgeInv, Unwritten
    <3>2. Cardinality(open) \in Nat /\ Cardinality(Unwritten) \in Nat
      BY <3>1, FS_CardinalityType
    <3>3. Count(closed, TradeRows) + Cardinality(Unwritten) + Cardinality(open) <= trades
      BY DEF EdgeInv
    <3>4. Count(closed, TradeRows) \in Int
      BY <1>2, CountIn
    <3> QED BY <1>6, <3>1, <3>2, <3>3, <3>4
  <2> QED BY <1>2, <1>10, <2>1, <2>2, <2>3, <2>4 DEF EdgeTypeOK
<1> QED BY <1>7, <1>8, <1>9, <1>10, <1>11

LEMMA EdgeCounts ==
  ASSUME EdgeInv
  PROVE  /\ IsFiniteSet(Unwritten) /\ Cardinality(Unwritten) \in Nat /\ Cardinality(open) \in Nat
         /\ Count(closed, TradeRows) \in Int
<1>1. IsFiniteSet(Unwritten)
  BY FS_Subset DEF EdgeInv, Unwritten
<1> QED BY <1>1, FS_CardinalityType, CountIn DEF EdgeInv

LEMMA NoMore ==
  ASSUME NEW S, IsFiniteSet(S), NEW x
  PROVE  /\ IsFiniteSet(S \cup {x}) /\ IsFiniteSet(S \ {x})
         /\ Cardinality(S) \in Nat /\ Cardinality(S \cup {x}) \in Nat /\ Cardinality(S \ {x}) \in Nat
         /\ Cardinality(S \cup {x}) <= Cardinality(S) + 1
         /\ Cardinality(S \ {x}) <= Cardinality(S)
         /\ x \in S => Cardinality(S \ {x}) = Cardinality(S) - 1
  BY FS_AddElement, FS_RemoveElement, FS_CardinalityType

LEMMA EdgeStarts == EdgeInit => EdgeInv
<1> SUFFICES ASSUME EdgeInit PROVE EdgeInv
  OBVIOUS
<1>1. /\ open = {} /\ saving = {} /\ closed = EmptyBag /\ epoch = 1 /\ overlapped = FALSE
      /\ learned = DeriveEdge(EmptyBag, 1) /\ weights = BaseWeight /\ trades = 0
  BY DEF EdgeInit
<1>2. IsFiniteSet({}) /\ Cardinality({}) = 0
  BY FS_EmptySet
<1>3. Unwritten = {}
  BY <1>1 DEF Unwritten
<1>4. IsReport(closed) /\ Within(closed, closed) /\ Count(closed, TradeRows) = 0
  BY <1>1, EmptyReport, WithinSame
<1>5. weights = learned.weights
  <2>1. learned.weights = [a \in Agents |-> Scaled(AgentRow(EmptyBag, a), BaseWeight[a])]
    BY <1>1 DEF DeriveEdge
  <2>2. \A a \in Agents : Scaled(AgentRow(EmptyBag, a), BaseWeight[a]) = BaseWeight[a]
    <3> TAKE a \in Agents
    <3>1. AgentRow(EmptyBag, a).trades = 0
      BY EmptyReport, CountsAre
    <3> QED BY <3>1, EdgeConstants DEF Scaled
  <2>3. BaseWeight = [a \in Agents |-> BaseWeight[a]]
    BY EdgeConstants
  <2> QED BY <1>1, <2>1, <2>2, <2>3
<1>6. epoch \in 1..(1 + MaxDeploys)
  BY <1>1, EdgeConstants
<1>7. InStep
  BY <1>1 DEF InStep
<1>8. Count(closed, TradeRows) + Cardinality(Unwritten) + Cardinality(open) <= trades
  BY <1>1, <1>2, <1>3, <1>4
<1> QED BY <1>1, <1>2, <1>4, <1>5, <1>6, <1>7, <1>8 DEF EdgeInv

(* Steps that leave the rows and what was learned *)
LEMMA SavesMove ==
  ASSUME EdgeInv, UNCHANGED <<closed, learned, weights, epoch>>,
         open' \subseteq OpenTrades, IsFiniteSet(open'), IsFiniteSet(saving'), trades' \in Nat, overlapped' \in BOOLEAN,
         \A w \in saving' : SaveOk(w),
         Cardinality(Unwritten') + Cardinality(open') - trades' <= Cardinality(Unwritten) + Cardinality(open) - trades,
         Cardinality(Unwritten') \in Nat, Cardinality(open') \in Nat,
         ~overlapped' => InStep'
  PROVE  EdgeInv'
<1>1. PICK R : IsReport(R) /\ Within(R, closed) /\ learned = DeriveEdge(R, epoch)
  BY DEF EdgeInv
<1>2. closed' = closed /\ learned' = learned /\ weights' = weights /\ epoch' = epoch
  OBVIOUS
<1>3. IsReport(closed') /\ epoch' \in 1..(1 + MaxDeploys) /\ weights' = learned'.weights
  BY <1>2 DEF EdgeInv
<1>4. \E Q : IsReport(Q) /\ Within(Q, closed') /\ learned' = DeriveEdge(Q, epoch')
  BY <1>1, <1>2
<1>5. \A w \in saving' : SaveOk(w)'
  BY <1>2 DEF SaveOk
<1>6. Count(closed', TradeRows) + Cardinality(Unwritten') + Cardinality(open') <= trades'
  <2>1. Count(closed, TradeRows) + Cardinality(Unwritten) + Cardinality(open) <= trades /\ trades \in Nat
    BY DEF EdgeInv
  <2>2. Cardinality(Unwritten) \in Nat /\ Cardinality(open) \in Nat /\ Count(closed, TradeRows) \in Int
    BY EdgeCounts
  <2>3. Count(closed', TradeRows) = Count(closed, TradeRows)
    BY <1>2
  <2> QED BY <2>1, <2>2, <2>3
<1> QED BY <1>3, <1>4, <1>5, <1>6 DEF EdgeInv

LEMMA ProposeKeeps ==
  ASSUME EdgeInv, NEW s \in TradedSymbols, NEW vote \in [Agents -> Votes], NEW gate \in Gates, Propose(s, vote, gate)
  PROVE  EdgeInv'
<1>1. weights \in [Agents -> Nat]
  BY EdgeClaims
<1>2. PICK t : t = [no |-> trades, symbol |-> s, agents |-> Sided(vote, gate), epoch |-> epoch,
                    bucket |-> ConfBucket(Confidence(vote, gate))]
  OBVIOUS
<1>3. open' = open \cup {t} /\ trades' = trades + 1 /\ UNCHANGED <<saving, closed, learned, weights, epoch, overlapped>>
      /\ Passes(vote, gate)
  BY <1>2 DEF Propose
<1>4. t \in OpenTrades
  <2>1. ConfBucket(Confidence(vote, gate)) \in Buckets
    BY <1>1, <1>3, VoteIn
  <2>2. Sided(vote, gate) \in SUBSET Agents
    BY DEF Sided
  <2>3. trades \in Nat /\ epoch \in 1..(1 + MaxDeploys)
    BY DEF EdgeInv
  <2> QED BY <1>2, <2>1, <2>2, <2>3 DEF OpenTrades
<1>5. Unwritten' = Unwritten /\ Cardinality(Unwritten) \in Nat /\ Cardinality(open) \in Nat
  BY <1>3, EdgeCounts DEF Unwritten
<1>6. /\ open \subseteq OpenTrades /\ IsFiniteSet(open) /\ IsFiniteSet(saving) /\ trades \in Nat /\ overlapped \in BOOLEAN
      /\ \A w \in saving : SaveOk(w)
      /\ ~overlapped => InStep
  BY DEF EdgeInv
<1>7. IsFiniteSet(open') /\ Cardinality(open') \in Nat /\ Cardinality(open') <= Cardinality(open) + 1
  BY <1>3, <1>6, NoMore
<1>8. Cardinality(Unwritten') + Cardinality(open') - trades' <= Cardinality(Unwritten) + Cardinality(open) - trades
  BY <1>3, <1>5, <1>6, <1>7
<1>9. ~overlapped' => InStep'
  BY <1>3, <1>6 DEF InStep
<1> QED BY <1>3, <1>4, <1>5, <1>6, <1>7, <1>8, <1>9, SavesMove

LEMMA CloseKeeps ==
  ASSUME EdgeInv, NEW t \in open, NEW out \in Outcomes, CloseTrade(t, out)
  PROVE  EdgeInv'
<1>1. PICK x : x = [trade |-> [symbol |-> t.symbol, agents |-> t.agents, epoch |-> t.epoch,
                               bucket |-> t.bucket, out |-> out],
                    no |-> t.no, step |-> "update"]
  OBVIOUS
<1>2. /\ open' = open \ {t} /\ saving' = saving \cup {x} /\ overlapped' = (overlapped \/ saving # {})
      /\ UNCHANGED <<closed, learned, weights, epoch, trades>>
  BY <1>1 DEF CloseTrade
<1>3. /\ open \subseteq OpenTrades /\ IsFiniteSet(open) /\ IsFiniteSet(saving) /\ trades \in Nat /\ overlapped \in BOOLEAN
      /\ \A w \in saving : SaveOk(w)
      /\ ~overlapped => InStep
  BY DEF EdgeInv
<1>4. SaveOk(x) /\ x.step = "update"
  <2>1. t \in OpenTrades
    BY <1>3
  <2>2. x.trade \in TradeRows
    BY <1>1, <2>1 DEF OpenTrades, TradeRows
  <2> QED BY <1>1, <2>2 DEF SaveOk
<1>5. /\ IsFiniteSet(Unwritten) /\ Cardinality(Unwritten) \in Nat /\ Cardinality(open) \in Nat
      /\ Unwritten' = Unwritten \cup {x}
  BY <1>2, <1>4, EdgeCounts DEF Unwritten
<1>6. /\ Cardinality(Unwritten') \in Nat /\ Cardinality(Unwritten') <= Cardinality(Unwritten) + 1
      /\ Cardinality(open') \in Nat /\ Cardinality(open') = Cardinality(open) - 1
      /\ IsFiniteSet(open') /\ IsFiniteSet(saving')
  BY <1>2, <1>3, <1>5, NoMore
<1>7. Cardinality(Unwritten') + Cardinality(open') - trades' <= Cardinality(Unwritten) + Cardinality(open) - trades
  BY <1>2, <1>3, <1>5, <1>6
<1>8. ~overlapped' => InStep'
  <2> SUFFICES ASSUME ~overlapped' PROVE InStep'
    OBVIOUS
  <2>1. ~overlapped /\ saving = {}
    BY <1>2
  <2>2. learned = DeriveEdge(closed, epoch)
    BY <1>3, <2>1 DEF InStep
  <2>3. saving' = {x} /\ learned' = DeriveEdge(closed', epoch')
    BY <1>2, <2>1, <2>2
  <2> QED BY <1>4, <2>3 DEF InStep
<1>9. overlapped' \in BOOLEAN
  BY <1>2
<1> QED BY <1>2, <1>3, <1>4, <1>6, <1>7, <1>8, <1>9, SavesMove

LEMMA ReadKeeps ==
  ASSUME EdgeInv, NEW w \in saving, ReadReport(w)
  PROVE  EdgeInv'
<1>1. PICK x : x = [trade |-> w.trade, no |-> w.no, step |-> "answer", report |-> closed]
  OBVIOUS
<1>2. /\ saving' = (saving \ {w}) \cup {x} /\ w.step = "report"
      /\ UNCHANGED <<open, closed, learned, weights, epoch, overlapped, trades>>
  BY <1>1 DEF ReadReport
<1>3. /\ open \subseteq OpenTrades /\ IsFiniteSet(open) /\ IsFiniteSet(saving) /\ trades \in Nat /\ overlapped \in BOOLEAN
      /\ \A v \in saving : SaveOk(v)
      /\ ~overlapped => InStep
      /\ IsReport(closed)
  BY DEF EdgeInv
<1>4. SaveOk(x) /\ x.step = "answer" /\ x.report = closed
  BY <1>1, <1>3, WithinSame DEF SaveOk
<1>5. Unwritten' = Unwritten /\ Cardinality(Unwritten) \in Nat /\ Cardinality(open) \in Nat
  BY <1>2, <1>4, EdgeCounts DEF Unwritten
<1>6. IsFiniteSet(saving')
  BY <1>2, <1>3, NoMore
<1>7. ~overlapped' => InStep'
  <2> SUFFICES ASSUME ~overlapped PROVE InStep'
    BY <1>2
  <2>1. saving' = {x}
    BY <1>2, <1>3 DEF InStep
  <2> QED BY <1>2, <1>4, <2>1 DEF InStep
<1>8. \A v \in saving' : SaveOk(v)
  BY <1>2, <1>3, <1>4
<1>9. Cardinality(Unwritten') + Cardinality(open') - trades' <= Cardinality(Unwritten) + Cardinality(open) - trades
  BY <1>2, <1>3, <1>5
<1> QED BY <1>2, <1>3, <1>5, <1>6, <1>7, <1>8, <1>9, SavesMove

LEMMA FailKeeps ==
  ASSUME EdgeInv, NEW w \in saving, SaveFails(w)
  PROVE  EdgeInv'
<1>2. /\ saving' = saving \ {w} /\ overlapped' = TRUE
      /\ UNCHANGED <<open, closed, learned, weights, epoch, trades>>
  BY DEF SaveFails
<1>3. /\ open \subseteq OpenTrades /\ IsFiniteSet(open) /\ IsFiniteSet(saving) /\ trades \in Nat
      /\ \A v \in saving : SaveOk(v)
  BY DEF EdgeInv
<1>5. /\ IsFiniteSet(Unwritten) /\ Unwritten' = Unwritten \ {w}
      /\ Cardinality(Unwritten) \in Nat /\ Cardinality(open) \in Nat
  BY <1>2, EdgeCounts DEF Unwritten
<1>6. IsFiniteSet(saving') /\ Cardinality(Unwritten') \in Nat /\ Cardinality(Unwritten') <= Cardinality(Unwritten)
  BY <1>2, <1>3, <1>5, NoMore
<1>9. Cardinality(Unwritten') + Cardinality(open') - trades' <= Cardinality(Unwritten) + Cardinality(open) - trades
  BY <1>2, <1>3, <1>5, <1>6
<1> QED BY <1>2, <1>3, <1>5, <1>6, <1>9, SavesMove

(* The row of a trade lands: every count of rows grows, none of a report *)
LEMMA UpdateKeeps ==
  ASSUME EdgeInv, NEW w \in saving, UpdateTrade(w)
  PROVE  EdgeInv'
<1>1. PICK x : x = [w EXCEPT !.step = "report"]
  OBVIOUS
<1>2. /\ closed' = closed (+) SetToBag({w.trade}) /\ w.step = "update"
      /\ saving' = (saving \ {w}) \cup {x}
      /\ UNCHANGED <<open, learned, weights, epoch, overlapped, trades>>
  BY <1>1 DEF UpdateTrade
<1>3. /\ open \subseteq OpenTrades /\ IsFiniteSet(open) /\ IsFiniteSet(saving) /\ trades \in Nat /\ overlapped \in BOOLEAN
      /\ \A v \in saving : SaveOk(v)
      /\ ~overlapped => InStep
      /\ IsReport(closed) /\ epoch \in 1..(1 + MaxDeploys) /\ weights = learned.weights
  BY DEF EdgeInv
<1>4. w.trade \in TradeRows /\ w = [trade |-> w.trade, no |-> w.no, step |-> w.step]
  BY <1>2, <1>3 DEF SaveOk
<1>5. x = [trade |-> w.trade, no |-> w.no, step |-> "report"]
  BY <1>1, <1>4
<1>6. x.trade = w.trade /\ x.step = "report" /\ x = [trade |-> x.trade, no |-> x.no, step |-> x.step]
  BY <1>5
<1>7. IsReport(closed') /\ Count(closed', TradeRows) = Count(closed, TradeRows) + 1
  BY <1>2, <1>3, <1>4, CountGrows
<1>8. \E R : IsReport(R) /\ Within(R, closed') /\ learned' = DeriveEdge(R, epoch')
  <2>1. PICK R : IsReport(R) /\ Within(R, closed) /\ learned = DeriveEdge(R, epoch)
    BY DEF EdgeInv
  <2>2. Within(R, closed')
    BY <1>2, <1>3, <1>4, <2>1, WithinGrows
  <2> QED BY <1>2, <2>1, <2>2
<1>9. \A v \in saving' : SaveOk(v)'
  <2> TAKE v \in saving'
  <2>1. CASE v = x
    BY <1>4, <1>6, <2>1 DEF SaveOk
  <2>2. CASE v # x
    <3>1. v \in saving /\ SaveOk(v)
      BY <1>2, <1>3, <2>2
    <3>2. v.step = "answer" => IsReport(v.report) /\ Within(v.report, closed')
      <4> SUFFICES ASSUME v.step = "answer" PROVE IsReport(v.report) /\ Within(v.report, closed')
        OBVIOUS
      <4>1. IsReport(v.report) /\ Within(v.report, closed)
        BY <3>1 DEF SaveOk
      <4> QED BY <1>2, <1>3, <1>4, <4>1, WithinGrows
    <3> QED BY <3>1, <3>2 DEF SaveOk
  <2> QED BY <2>1, <2>2
<1>10. /\ IsFiniteSet(Unwritten) /\ w \in Unwritten /\ Unwritten' = Unwritten \ {w}
       /\ Cardinality(Unwritten) \in Nat /\ Cardinality(open) \in Nat /\ Count(closed, TradeRows) \in Int
  BY <1>2, <1>6, EdgeCounts DEF Unwritten
<1>11. Cardinality(Unwritten') = Cardinality(Unwritten) - 1 /\ IsFiniteSet(saving')
  BY <1>2, <1>3, <1>10, NoMore
<1>12. Count(closed', TradeRows) + Cardinality(Unwritten') + Cardinality(open') <= trades'
  <2>1. Count(closed, TradeRows) + Cardinality(Unwritten) + Cardinality(open) <= trades
    BY DEF EdgeInv
  <2> QED BY <1>2, <1>3, <1>7, <1>10, <1>11, <2>1
<1>13. ~overlapped' => InStep'
  <2> SUFFICES ASSUME ~overlapped PROVE InStep'
    BY <1>2
  <2>1. saving' = {x}
    BY <1>2, <1>3 DEF InStep
  <2> QED BY <1>6, <2>1 DEF InStep
<1> QED BY <1>2, <1>3, <1>7, <1>8, <1>9, <1>11, <1>12, <1>13 DEF EdgeInv

(* A report answers, and is learned *)
LEMMA AnswerKeeps ==
  ASSUME EdgeInv, NEW w \in saving, ReportUpdate(w)
  PROVE  EdgeInv'
<1>2. /\ learned' = DeriveEdge(w.report, epoch) /\ weights' = learned'.weights /\ w.step = "answer"
      /\ saving' = saving \ {w}
      /\ UNCHANGED <<open, closed, epoch, overlapped, trades>>
  BY DEF ReportUpdate, Learn
<1>3. /\ open \subseteq OpenTrades /\ IsFiniteSet(open) /\ IsFiniteSet(saving) /\ trades \in Nat /\ overlapped \in BOOLEAN
      /\ \A v \in saving : SaveOk(v)
      /\ ~overlapped => InStep
      /\ IsReport(closed) /\ epoch \in 1..(1 + MaxDeploys)
      /\ Count(closed, TradeRows) + Cardinality(Unwritten) + Cardinality(open) <= trades
  BY DEF EdgeInv
<1>4. IsReport(w.report) /\ Within(w.report, closed)
  BY <1>2, <1>3 DEF SaveOk
<1>5. Unwritten' = Unwritten
  BY <1>2 DEF Unwritten
<1>6. IsFiniteSet(saving')
  BY <1>2, <1>3, NoMore
<1>7. ~overlapped' => InStep'
  <2> SUFFICES ASSUME ~overlapped PROVE InStep'
    BY <1>2
  <2>1. saving' = {} /\ w.report = closed
    BY <1>2, <1>3 DEF InStep
  <2> QED BY <1>2, <2>1 DEF InStep
<1>8. \A v \in saving' : SaveOk(v)'
  BY <1>2, <1>3 DEF SaveOk
<1>9. \E R : IsReport(R) /\ Within(R, closed') /\ learned' = DeriveEdge(R, epoch')
  BY <1>2, <1>4
<1>10. Count(closed', TradeRows) + Cardinality(Unwritten') + Cardinality(open') <= trades'
  BY <1>2, <1>3, <1>5
<1> QED BY <1>2, <1>3, <1>6, <1>7, <1>8, <1>9, <1>10 DEF EdgeInv

LEMMA BootKeeps ==
  ASSUME EdgeInv, NEW e \in 1..(1 + MaxDeploys), BootLearned(e)
  PROVE  EdgeInv'
<1>1. /\ epoch' = e /\ learned' = DeriveEdge(closed, e) /\ weights' = learned'.weights
      /\ saving' = {} /\ overlapped' = FALSE /\ UNCHANGED <<open, closed, trades>>
  BY DEF BootLearned
<1>2. /\ open \subseteq OpenTrades /\ IsFiniteSet(open) /\ trades \in Nat /\ IsReport(closed)
      /\ Count(closed, TradeRows) + Cardinality(Unwritten) + Cardinality(open) <= trades
  BY DEF EdgeInv
<1>3. IsFiniteSet({}) /\ Cardinality({}) = 0 /\ Unwritten' = {}
  BY <1>1, FS_EmptySet DEF Unwritten
<1>4. Count(closed', TradeRows) + Cardinality(Unwritten') + Cardinality(open') <= trades'
  <2>1. Cardinality(Unwritten) \in Nat /\ Cardinality(open) \in Nat /\ Count(closed, TradeRows) \in Int
    BY EdgeCounts
  <2> QED BY <1>1, <1>2, <1>3, <2>1
<1>5. InStep'
  BY <1>1 DEF InStep
<1>6. \E R : IsReport(R) /\ Within(R, closed') /\ learned' = DeriveEdge(R, epoch')
  BY <1>1, <1>2, WithinSame
<1> QED BY <1>1, <1>2, <1>3, <1>4, <1>5, <1>6 DEF EdgeInv

LEMMA EdgeStep == EdgeInv /\ [EdgeNext]_edgeVars => EdgeInv'
<1> SUFFICES ASSUME EdgeInv, [EdgeNext]_edgeVars PROVE EdgeInv'
  OBVIOUS
<1>1. CASE UNCHANGED edgeVars
  BY <1>1 DEF edgeVars, EdgeInv, InStep, Unwritten, SaveOk
<1>2. CASE EdgeNext
  BY <1>2, ProposeKeeps, CloseKeeps, UpdateKeeps, ReadKeeps, AnswerKeeps, FailKeeps, BootKeeps DEF EdgeNext
<1> QED BY <1>1, <1>2

(* A trade that is proposed while nothing is being saved is not of a symbol that lost *)
LEMMA ProposalsHeed ==
  ASSUME EdgeInv, [EdgeNext]_edgeVars
  PROVE  \A t \in open' \ open : t.symbol \notin Suppressed(closed) \/ saving # {} \/ overlapped
<1> SUFFICES ASSUME NEW t \in open' \ open, saving = {}, ~overlapped PROVE t.symbol \notin Suppressed(closed)
  OBVIOUS
<1>1. PICK s \in TradedSymbols, vote \in [Agents -> Votes], gate \in Gates : Propose(s, vote, gate)
  BY DEF EdgeNext, edgeVars, CloseTrade, UpdateTrade, ReadReport, ReportUpdate, SaveFails, BootLearned
<1>2. t.symbol = s /\ s \notin learned.suppressed
  BY <1>1 DEF Propose
<1>3. learned = DeriveEdge(closed, epoch)
  BY DEF EdgeInv, InStep
<1>4. Suppressed(closed) \subseteq learned.suppressed
  BY <1>3 DEF DeriveEdge
<1> QED BY <1>2, <1>4

(* For any agents, symbols, votes, regimes, outcomes, overlapping saves, failures and
   deployments: what the engine learns (edge-model.ts) rests on enough trades of the running
   rules, is what the rows say while saves come one at a time, and a symbol that lost is not
   proposed again (swarm.ts). *)
THEOREM LearningHolds == EdgeSpec => LearningIsSound
<1>1. EdgeInit => EdgeInv
  BY EdgeStarts
<1>2. EdgeInv /\ [EdgeNext]_edgeVars => EdgeInv'
  BY EdgeStep
<1>3. EdgeInv => EdgeTypeOK /\ FloorIsMeasured /\ WeightsAreEarned /\ LearnedIsCurrent
  BY EdgeClaims
<1>4. EdgeInv /\ [EdgeNext]_edgeVars =>
         [\A t \in open' \ open : t.symbol \notin Suppressed(closed) \/ saving # {} \/ overlapped]_edgeVars
  BY ProposalsHeed
<1>5. EdgeSpec => []EdgeInv
  BY <1>1, <1>2, PTL DEF EdgeSpec
<1>6. EdgeSpec => [](EdgeTypeOK /\ FloorIsMeasured /\ WeightsAreEarned /\ LearnedIsCurrent)
  BY <1>3, <1>5, PTL
<1>7. EdgeSpec => SuppressedStaysOut
  BY <1>4, <1>5, PTL DEF EdgeSpec, SuppressedStaysOut
<1> QED BY <1>6, <1>7 DEF LearningIsSound

=============================================================================
