---------------------------- MODULE OperatorProofs ----------------------------
(***************************************************************************)
(* What holds of the operators' side, proved with TLAPS: of the halt flag  *)
(* for every number of accounts, engines, operators and runs of the        *)
(* script, of a rollout for every history of versions, every number of     *)
(* deploys, statements by hand and failures, and of the accounts for every *)
(* number of people and of clients that sign in at once; and of the feed    *)
(* of signals, for every list the venue answers with, outages and reboots. *)
(* The archive of signals holds what it is said to hold: ArchiveInv says   *)
(* what a run has seen and staged, wherever its cursor stands.             *)
(***************************************************************************)
EXTENDS HaltTool, Deploy, Accounts, SignalFeed, SignalArchive, SumTheorems, FiniteSetTheorems,
        SequenceTheorems, TLAPS

-----------------------------------------------------------------------------
(* The halt flag *)

Flags == {TRUE, FALSE, Unjudged}
Run == [phase : {"idle", "gate", "scope", "reread", "verify", "ended"},
        mode : {"halt", "resume"}, named : Traders \cup {Unjudged}, override : Overrides,
        gate : {"shut", "convicted", "overridden"}, seen : [Traders -> Flags], exit : Nat]

HaltTypes ==
    /\ haltRow \in [Traders -> Flags]
    /\ engine \in [Traders -> [phase : {"down", "booting", "up"}, flag : BOOLEAN, late : BOOLEAN]]
    /\ verdict \in Verdicts \cup {Unjudged} /\ everConvicted \in BOOLEAN
    /\ toolRun \in [Operators -> Run]
    /\ toolRuns \in [Operators -> Nat]

(* An engine that has booted has a row; a flag that it does not know of came late *)
EnginesKnow ==
    \A t \in Traders : engine[t].phase # "down" =>
       haltRow[t] # Unjudged /\ (haltRow[t] = TRUE /\ ~engine[t].flag => engine[t].late)

(* A run under way: the rows that it saw still exist, its account is one of them once it
   has written or was refused, and it resumes only past the gate *)
Honest(run) ==
    /\ run.phase \in {"gate", "scope", "reread", "verify"} => Rows(run.seen) \subseteq Rows(haltRow)
    /\ run.phase \in {"verify", "reread"} => TargetOf(run) \in Rows(run.seen)
    /\ run.mode = "resume" /\ run.phase \in {"scope", "reread", "verify"} => run.gate # "shut"
    /\ run.gate = "convicted" => everConvicted
    /\ run.gate = "overridden" => run.override \in {"flag", "reason"}

HaltInv ==
    /\ HaltTypes
    /\ EnginesKnow
    /\ verdict = "CONVICTED" => everConvicted
    /\ \A o \in Operators : Honest(toolRun[o])

-----------------------------------------------------------------------------
(* The steps that disturb only part of the state *)

LEMMA IdleIsRun == Idle \in Run /\ \A code \in Nat : [Idle EXCEPT !.phase = "ended", !.exit = code] \in Run
  BY DEF Idle, Run, Flags, Overrides

LEMMA EndedIsHonest == \A code \in Nat : Honest([Idle EXCEPT !.phase = "ended", !.exit = code])
  BY DEF Idle, Honest

(* A run stays honest while rows are added and convictions are remembered. *)
LEMMA StaysHonest ==
  ASSUME NEW run, Honest(run), Rows(haltRow) \subseteq Rows(haltRow'), everConvicted => everConvicted'
  PROVE  Honest(run)'
  BY DEF Honest

(* An account that is the only one is the one that is meant. *)
LEMMA SingletonRows ==
  ASSUME NEW seen, Cardinality(Rows(seen)) = 1
  PROVE  \E x : Rows(seen) = {x}
<1>1. IsFiniteSet(Rows(seen))
  BY HaltToolAssumption, FS_Subset DEF Rows
<1>2. QED
  BY <1>1, FS_Singleton

LEMMA InitHalt == HaltInit => HaltInv
<1> SUFFICES ASSUME HaltInit PROVE HaltInv
  OBVIOUS
<1> USE HaltToolAssumption DEF HaltInit
<1>1. HaltTypes
  BY IdleIsRun DEF HaltTypes, Flags, Down
<1>2. EnginesKnow
  BY DEF EnginesKnow, Down
<1>3. \A o \in Operators : Honest(toolRun[o])
  BY DEF Honest, Idle
<1>4. QED
  BY <1>1, <1>2, <1>3 DEF HaltInv

(* Engines boot, close, reset and stop without touching a run of the script. *)
LEMMA EngineStep ==
  ASSUME HaltInv, NEW t \in Traders,
         \/ BeginBoot(t) \/ Hydrated(t) \/ StopEngine(t) \/ ResetHalt(t)
         \/ \E breach \in BOOLEAN : EngineCloses(t, breach)
  PROVE  HaltInv'
<1> USE HaltToolAssumption
<1>0. HaltTypes /\ EnginesKnow /\ UNCHANGED <<verdict, everConvicted, toolRun, toolRuns>>
  BY DEF HaltInv, BeginBoot, Hydrated, StopEngine, ResetHalt, EngineCloses, courtVars
<1> DEFINE Only ==
      /\ haltRow' \in [Traders -> Flags]
      /\ engine' \in [Traders -> [phase : {"down", "booting", "up"}, flag : BOOLEAN, late : BOOLEAN]]
      /\ \A u \in Traders \ {t} : haltRow'[u] = haltRow[u] /\ engine'[u] = engine[u]
      /\ haltRow[t] # Unjudged => haltRow'[t] # Unjudged
      /\ engine'[t].phase # "down" =>
            haltRow'[t] # Unjudged /\ (haltRow'[t] = TRUE /\ ~engine'[t].flag => engine'[t].late)
<1>1. Only
  <2>1. CASE BeginBoot(t)
    BY <1>0, <2>1 DEF BeginBoot, HaltTypes, EnginesKnow, Flags
  <2>2. CASE Hydrated(t)
    BY <1>0, <2>2 DEF Hydrated, HaltTypes, EnginesKnow, Flags
  <2>3. CASE StopEngine(t)
    BY <1>0, <2>3 DEF StopEngine, HaltTypes, EnginesKnow, Flags, Down
  <2>4. CASE ResetHalt(t)
    BY <1>0, <2>4 DEF ResetHalt, HaltTypes, EnginesKnow, Flags
  <2>5. ASSUME NEW breach \in BOOLEAN, EngineCloses(t, breach) PROVE Only
    <3> DEFINE stored == haltRow[t] \/ engine[t].flag
    <3>1. /\ engine[t].phase = "up" /\ t \in DOMAIN haltRow /\ t \in DOMAIN engine
          /\ haltRow[t] \in BOOLEAN /\ engine[t].flag \in BOOLEAN
      BY <1>0, <2>5 DEF EngineCloses, HaltTypes, EnginesKnow, Flags
    <3>2. /\ haltRow' = [haltRow EXCEPT ![t] = stored]
          /\ engine' = [engine EXCEPT ![t].flag = @ \/ breach]
      BY <2>5 DEF EngineCloses, Closed
    <3>3. stored \in BOOLEAN /\ (engine[t].flag \/ breach) \in BOOLEAN
      OBVIOUS
    <3>4. /\ haltRow' \in [Traders -> Flags] /\ haltRow'[t] = stored
          /\ \A u \in Traders \ {t} : haltRow'[u] = haltRow[u]
      BY <1>0, <3>2, <3>3 DEF HaltTypes, Flags
    <3>5. /\ engine' \in [Traders -> [phase : {"down", "booting", "up"}, flag : BOOLEAN, late : BOOLEAN]]
          /\ engine'[t].flag = (engine[t].flag \/ breach) /\ engine'[t].late = engine[t].late
          /\ \A u \in Traders \ {t} : engine'[u] = engine[u]
      BY <1>0, <3>2, <3>3 DEF HaltTypes
    <3>6. haltRow'[t] # Unjudged
      BY <3>3, <3>4
    <3>7. haltRow'[t] = TRUE /\ ~engine'[t].flag => engine'[t].late
      BY <1>0, <3>1, <3>4, <3>5 DEF EnginesKnow
    <3>8. QED
      BY <3>4, <3>5, <3>6, <3>7
  <2>6. QED
    BY <2>1, <2>2, <2>3, <2>4, <2>5
<1>2. HaltTypes' /\ EnginesKnow'
  BY <1>0, <1>1 DEF HaltTypes, EnginesKnow
<1>3. Rows(haltRow) \subseteq Rows(haltRow')
  BY <1>1 DEF Rows
<1>4. QED
  BY <1>0, <1>2, <1>3, StaysHonest DEF HaltInv

LEMMA JudgeStep ==
  ASSUME HaltInv, NEW v \in Verdicts, Judge(v)
  PROVE  HaltInv'
<1>1. HaltTypes' /\ EnginesKnow' /\ (verdict' = "CONVICTED" => everConvicted')
  BY DEF HaltInv, HaltTypes, EnginesKnow, Judge
<1>2. \A o \in Operators : Honest(toolRun[o])'
  BY StaysHonest DEF HaltInv, HaltTypes, Judge
<1>3. QED
  BY <1>1, <1>2 DEF HaltInv, Judge

-----------------------------------------------------------------------------
(* The steps of the script *)

(* A step of one run that writes no flag leaves everything else as it is. *)
LEMMA RunStep ==
  ASSUME HaltInv, NEW o \in Operators, NEW run \in Run, Honest(run),
         toolRun' = [toolRun EXCEPT ![o] = run],
         toolRuns' \in [Operators -> Nat], UNCHANGED <<haltRow, engine, courtVars>>
  PROVE  HaltInv'
<1>1. HaltTypes' /\ EnginesKnow'
  BY DEF HaltInv, HaltTypes, EnginesKnow, courtVars
<1>2. \A p \in Operators : toolRun'[p] = IF p = o THEN run ELSE toolRun[p]
  BY DEF HaltInv, HaltTypes
<1>3. \A p \in Operators : Honest(toolRun'[p])
  BY <1>2 DEF HaltInv
<1>4. QED
  BY <1>1, <1>3, StaysHonest DEF HaltInv, courtVars

LEMMA StartStep ==
  ASSUME HaltInv, NEW o \in Operators, NEW mode \in {"halt", "resume"},
         NEW named \in Traders \cup {Unjudged}, NEW override \in Overrides,
         StartTool(o, mode, named, override)
  PROVE  HaltInv'
<1> DEFINE begun ==
      [phase |-> IF mode = "resume" THEN "gate" ELSE "scope", mode |-> mode, named |-> named,
       override |-> override, gate |-> "shut", seen |-> haltRow, exit |-> 0]
<1>1. begun \in Run /\ Honest(begun)
  BY DEF HaltInv, HaltTypes, Run, Honest
<1>2. toolRuns' \in [Operators -> Nat]
  BY DEF StartTool, HaltInv, HaltTypes
<1>3. \E run \in Run : Honest(run) /\ toolRun' = [toolRun EXCEPT ![o] = run]
  BY <1>1, IdleIsRun, EndedIsHonest DEF StartTool, Ends
<1>4. QED
  BY <1>2, <1>3, RunStep DEF StartTool

LEMMA AskStep ==
  ASSUME HaltInv, NEW o \in Operators, AskCourt(o)
  PROVE  HaltInv'
<1> DEFINE asked(gate) == [toolRun[o] EXCEPT !.phase = "scope", !.gate = gate]
<1>1. toolRun[o] \in Run /\ Honest(toolRun[o]) /\ toolRun[o].phase = "gate"
  BY DEF HaltInv, HaltTypes, AskCourt
<1>2. \A gate \in {"convicted", "overridden"} :
         /\ asked(gate) \in Run
         /\ (gate = "convicted" => everConvicted)
            /\ (gate = "overridden" => toolRun[o].override \in {"flag", "reason"}) => Honest(asked(gate))
  BY <1>1 DEF Run, Honest
<1>3. \/ /\ everConvicted
         /\ toolRun' = [toolRun EXCEPT ![o] = asked("convicted")]
      \/ /\ toolRun[o].override \in {"flag", "reason"}
         /\ toolRun' = [toolRun EXCEPT ![o] = asked("overridden")]
      \/ Ends(o, 3)
  <2>1. PICK answer \in {verdict, Unjudged} :
          IF Convicts(answer)
          THEN toolRun' = [toolRun EXCEPT ![o].phase = "scope", ![o].gate = "convicted"]
          ELSE IF toolRun[o].override \in {"flag", "reason"}
          THEN toolRun' = [toolRun EXCEPT ![o].phase = "scope", ![o].gate = "overridden"]
          ELSE Ends(o, 3)
    BY DEF AskCourt
  <2>2. Convicts(answer) => everConvicted
    BY HaltToolAssumption DEF Convicts, HaltInv
  <2>3. QED
    BY <2>1, <2>2 DEF HaltInv, HaltTypes
<1>4. \E run \in Run : Honest(run) /\ toolRun' = [toolRun EXCEPT ![o] = run]
  BY <1>2, <1>3, IdleIsRun, EndedIsHonest DEF Ends
<1>5. QED
  BY <1>4, RunStep DEF AskCourt, HaltInv, HaltTypes

LEMMA EndStep ==
  ASSUME HaltInv, NEW o \in Operators, NoTarget(o) \/ LookAgain(o)
  PROVE  HaltInv'
<1>1. \E run \in Run : Honest(run) /\ toolRun' = [toolRun EXCEPT ![o] = run]
  BY IdleIsRun, EndedIsHonest DEF NoTarget, LookAgain, Ends
<1>2. QED
  BY <1>1, RunStep DEF NoTarget, LookAgain, HaltInv, HaltTypes

(* The update: either it sets the flag of the account it saw unmoved, or nothing. *)
LEMMA UpdateStep ==
  ASSUME HaltInv, NEW o \in Operators, CompareAndSet(o)
  PROVE  HaltInv'
<1> DEFINE t == TargetOf(toolRun[o])
           done(phase) == [toolRun[o] EXCEPT !.phase = phase]
<1>1. /\ toolRun[o] \in Run /\ Honest(toolRun[o]) /\ toolRun[o].phase = "scope"
      /\ t \in Rows(toolRun[o].seen) /\ t \in Rows(haltRow)
  BY DEF HaltInv, HaltTypes, CompareAndSet, Honest
<1>2. \A phase \in {"verify", "reread"} : done(phase) \in Run /\ Honest(done(phase))
  <2>1. \A phase \in {"verify", "reread"} : done(phase) \in Run /\ TargetOf(done(phase)) = t
    BY <1>1 DEF Run, TargetOf
  <2>2. QED
    BY <1>1, <2>1 DEF Run, Honest
<1>3. CASE ~Unmoved(t, toolRun[o])
  <2>1. toolRun' = [toolRun EXCEPT ![o] = done("reread")] /\ UNCHANGED <<haltRow, engine, courtVars, toolRuns>>
    BY <1>3 DEF CompareAndSet
  <2>2. QED
    BY <1>2, <2>1, RunStep DEF HaltInv, HaltTypes
<1>4. CASE Unmoved(t, toolRun[o])
  <2>1. /\ haltRow' = [haltRow EXCEPT ![t] = (toolRun[o].mode = "halt")]
        /\ engine' = [engine EXCEPT ![t].late = @ \/ engine[t].phase # "down"]
        /\ toolRun' = [toolRun EXCEPT ![o] = done("verify")]
        /\ UNCHANGED <<courtVars, toolRuns>>
    BY <1>4 DEF CompareAndSet
  <2>2. t \in Traders /\ (toolRun[o].mode = "halt") \in BOOLEAN
    BY <1>1 DEF Rows
  <2>3. haltRow' \in [Traders -> Flags] /\ haltRow'[t] # Unjudged
    BY <2>1, <2>2, HaltToolAssumption DEF HaltInv, HaltTypes, Flags
  <2>4. /\ engine' \in [Traders -> [phase : {"down", "booting", "up"}, flag : BOOLEAN, late : BOOLEAN]]
        /\ engine'[t].phase # "down" => engine'[t].late
        /\ \A u \in Traders \ {t} : engine'[u] = engine[u] /\ haltRow'[u] = haltRow[u]
    BY <2>1, <2>2 DEF HaltInv, HaltTypes
  <2>5. HaltTypes' /\ EnginesKnow'
    BY <1>2, <2>1, <2>3, <2>4 DEF HaltInv, HaltTypes, EnginesKnow, courtVars
  <2>6. Rows(haltRow) \subseteq Rows(haltRow')
    BY <2>3, <2>4 DEF Rows
  <2>7. \A p \in Operators : Honest(toolRun'[p])
    BY <1>2, <2>1 DEF HaltInv, HaltTypes
  <2>8. QED
    BY <2>1, <2>5, <2>6, <2>7, StaysHonest DEF HaltInv, courtVars
<1>5. QED
  BY <1>3, <1>4

LEMMA HaltStep == HaltInv /\ [HaltNext]_haltVars => HaltInv'
<1> SUFFICES ASSUME HaltInv, [HaltNext]_haltVars PROVE HaltInv'
  OBVIOUS
<1>1. CASE UNCHANGED haltVars
  BY <1>1 DEF haltVars, courtVars, HaltInv, HaltTypes, EnginesKnow, Honest
<1>2. CASE HaltNext
  BY <1>2, EngineStep, JudgeStep, StartStep, AskStep, EndStep, UpdateStep DEF HaltNext, Overrides
<1>3. QED
  BY <1>1, <1>2

LEMMA HaltInvariant == HaltSpec => []HaltInv
<1>1. QED
  BY InitHalt, HaltStep, PTL DEF HaltSpec

-----------------------------------------------------------------------------
(* What a step may do to one run and one row *)

(* Only the run that a step of the script belongs to changes. *)
LEMMA OneRunMoves ==
  ASSUME HaltInv, NEW o \in Operators, NEW p \in Operators,
         NEW run, toolRun' = [toolRun EXCEPT ![o] = run], toolRun'[p] # toolRun[p]
  PROVE  p = o
  BY DEF HaltInv, HaltTypes

(* A run that ends without an update says nothing of success, or has read the row again. *)
LEMMA EndsReads ==
  ASSUME HaltInv, [HaltNext]_haltVars, NEW p \in Operators,
         toolRun[p].phase # "ended", toolRun'[p].phase = "ended", toolRun'[p].exit = 0
  PROVE  haltRow[TargetOf(toolRun[p])] = (toolRun[p].mode = "halt")
<1>1. \A o \in Operators, code \in {0, 1, 3} : Ends(o, code) => o = p /\ code = 0
  BY DEF Ends, Idle, HaltInv, HaltTypes
<1>2. \A o \in Operators, run \in Run :
         toolRun' = [toolRun EXCEPT ![o] = run] => o = p /\ run.phase = "ended"
  BY DEF HaltInv, HaltTypes
<1>3. toolRun \in [Operators -> Run] /\ toolRun' # toolRun
  BY DEF HaltInv, HaltTypes
<1>4. PICK o \in Operators :
         \/ AskCourt(o) \/ NoTarget(o) \/ CompareAndSet(o) \/ LookAgain(o)
         \/ \E mode \in {"halt", "resume"}, named \in Traders \cup {Unjudged}, override \in Overrides :
               StartTool(o, mode, named, override)
  BY <1>3 DEF HaltNext, haltVars, BeginBoot, Hydrated, StopEngine, ResetHalt, EngineCloses, Judge, Overrides
<1>5. o = p
  BY <1>3, <1>4 DEF AskCourt, NoTarget, CompareAndSet, LookAgain, StartTool, Ends
<1>6. LookAgain(p)
  <2>1. ~NoTarget(p) /\ ~(Ends(p, 1) \/ Ends(p, 3))
    BY <1>1 DEF NoTarget
  <2>2. ~AskCourt(p) /\ ~CompareAndSet(p)
    BY <1>3, <2>1 DEF AskCourt, CompareAndSet, Run
  <2>3. \A mode \in {"halt", "resume"}, named \in Traders \cup {Unjudged}, override \in Overrides :
           ~StartTool(p, mode, named, override)
    BY <1>3, <2>1 DEF StartTool
  <2>4. QED
    BY <1>4, <1>5, <2>1, <2>2, <2>3
<1>7. QED
  BY <1>1, <1>6 DEF LookAgain

(* A flag is lifted by a reset, or by the update of a resume about that account. *)
LEMMA WhoLifts ==
  ASSUME HaltInv, [HaltNext]_haltVars, NEW t \in Traders, Lifts(t)
  PROVE  \/ /\ haltResets' # haltResets /\ UNCHANGED toolRun
         \/ \E o \in Operators :
               /\ CompareAndSet(o) /\ t = TargetOf(toolRun[o]) /\ toolRun[o].seen[t] = TRUE
               /\ toolRun[o].mode # "halt"
               /\ toolRun' = [toolRun EXCEPT ![o].phase = "verify"]
<1>1. haltRow \in [Traders -> Flags] /\ haltRow[t] = TRUE /\ haltRow'[t] = FALSE /\ TRUE # FALSE
  BY DEF Lifts, HaltInv, HaltTypes
<1>2. \A u \in Traders : ~BeginBoot(u)
  BY <1>1, HaltToolAssumption DEF BeginBoot
<1>3. \A u \in Traders : ~Hydrated(u) /\ ~StopEngine(u)
  BY <1>1 DEF Hydrated, StopEngine
<1>4. \A u \in Traders, breach \in BOOLEAN : ~EngineCloses(u, breach)
  BY <1>1 DEF EngineCloses, Closed
<1>5. ASSUME NEW u \in Traders, ResetHalt(u)
      PROVE  haltResets' # haltResets /\ UNCHANGED toolRun
  <2>1. haltResets' = haltResets + 1 /\ haltResets < MaxHaltResets /\ UNCHANGED toolRun
    BY <1>5 DEF ResetHalt
  <2>2. QED
    BY <2>1
<1>6. \A o \in Operators :
         /\ ~AskCourt(o) /\ ~NoTarget(o) /\ ~LookAgain(o)
         /\ \A mode \in {"halt", "resume"}, named \in Traders \cup {Unjudged}, override \in Overrides :
               ~StartTool(o, mode, named, override)
  BY <1>1 DEF AskCourt, NoTarget, LookAgain, StartTool
<1>7. haltRow' # haltRow
  BY <1>1
<1>8. ASSUME NEW o \in Operators, CompareAndSet(o)
      PROVE  /\ t = TargetOf(toolRun[o]) /\ toolRun[o].seen[t] = TRUE /\ toolRun[o].mode # "halt"
             /\ toolRun' = [toolRun EXCEPT ![o].phase = "verify"]
  <2>1. Unmoved(TargetOf(toolRun[o]), toolRun[o])
    BY <1>7, <1>8 DEF CompareAndSet
  <2>2. /\ haltRow' = [haltRow EXCEPT ![TargetOf(toolRun[o])] = (toolRun[o].mode = "halt")]
        /\ toolRun' = [toolRun EXCEPT ![o].phase = "verify"]
    BY <1>8, <2>1 DEF CompareAndSet
  <2>3. t = TargetOf(toolRun[o]) /\ toolRun[o].mode # "halt"
    BY <1>1, <2>2
  <2>4. QED
    BY <1>1, <2>1, <2>2, <2>3 DEF Unmoved
<1>9. \/ \E u \in Traders : ResetHalt(u)
      \/ \E o \in Operators : CompareAndSet(o)
  <2>1. HaltNext
    BY <1>7 DEF haltVars
  <2>2. \A v \in Verdicts : ~Judge(v)
    BY <1>7 DEF Judge
  <2>3. QED
    BY <1>2, <1>3, <1>4, <1>6, <2>1, <2>2, Zenon DEF HaltNext, Overrides
<1>10. QED
  BY <1>5, <1>8, <1>9, Zenon

-----------------------------------------------------------------------------
(* The theorems *)

LEMMA HaltInvImplies == HaltInv => HaltTypeOK /\ BootHonoursTheHalt
<1> SUFFICES ASSUME HaltInv PROVE HaltTypeOK /\ BootHonoursTheHalt
  OBVIOUS
<1>1. BootHonoursTheHalt
  BY DEF HaltInv, EnginesKnow, BootHonoursTheHalt
<1>2. ASSUME NEW o \in Operators
      PROVE  /\ toolRun[o].phase \in {"idle", "gate", "scope", "reread", "verify", "ended"}
             /\ toolRun[o].phase \in {"verify", "reread"} =>
                   /\ TargetOf(toolRun[o]) \in Rows(haltRow)
                   /\ toolRun[o].mode = "resume" => toolRun[o].gate # "shut"
  BY DEF HaltInv, HaltTypes, Run, Honest
<1>3. QED
  BY <1>1, <1>2 DEF HaltInv, HaltTypes, EnginesKnow, Flags, HaltTypeOK

(* Every run of the script is somewhere in the script, with an account that exists once
   it has written, and an engine that has booted has a row. *)
THEOREM HaltTypeCorrect == HaltSpec => []HaltTypeOK
<1>1. QED
  BY HaltInvariant, HaltInvImplies, PTL

(* An engine that trades on while its row says halted was up, or had read its row, when
   the flag was set: any later boot comes up halted. *)
THEOREM BootsHalted == HaltSpec => []BootHonoursTheHalt
<1>1. QED
  BY HaltInvariant, HaltInvImplies, PTL

(* No close, boot or stop lifts a halt, and no run about another account: a reset does,
   or a resume past the gate. *)
THEOREM OnlyTheGateLifts == HaltSpec => LiftedOnlyThroughTheGate
<1> DEFINE May(t) ==
      \/ haltResets' # haltResets
      \/ \E o \in Operators : LET run == toolRun[o] IN
            /\ run.mode = "resume" /\ toolRun'[o].phase = "verify"
            /\ run.named = t \/ (run.named = Unjudged /\ Rows(run.seen) = {t})
            /\ everConvicted \/ run.override \in {"flag", "reason"}
<1>1. ASSUME HaltInv, [HaltNext]_haltVars, NEW t \in Traders, Lifts(t)
      PROVE  May(t)
  <2>1. CASE haltResets' # haltResets
    BY <2>1
  <2>2. ASSUME NEW o \in Operators, CompareAndSet(o), t = TargetOf(toolRun[o]),
               toolRun[o].mode # "halt", toolRun' = [toolRun EXCEPT ![o].phase = "verify"]
        PROVE  May(t)
    <3>1. /\ toolRun[o] \in Run /\ Honest(toolRun[o]) /\ toolRun[o].phase = "scope"
          /\ toolRun'[o].phase = "verify"
      BY <1>1, <2>2 DEF HaltInv, HaltTypes, CompareAndSet, Run
    <3>2. toolRun[o].mode = "resume" /\ toolRun[o].gate \in {"convicted", "overridden"}
      BY <2>2, <3>1 DEF Run, Honest
    <3>3. everConvicted \/ toolRun[o].override \in {"flag", "reason"}
      BY <3>1, <3>2 DEF Honest
    <3>4. t \in Rows(toolRun[o].seen) /\ t # Unjudged
      BY <1>1, <2>2, HaltToolAssumption DEF CompareAndSet
    <3>5. toolRun[o].named = t \/ (toolRun[o].named = Unjudged /\ Rows(toolRun[o].seen) = {t})
      <4>1. CASE toolRun[o].named # Unjudged
        BY <2>2, <4>1 DEF TargetOf
      <4>2. CASE toolRun[o].named = Unjudged
        <5>1. Cardinality(Rows(toolRun[o].seen)) = 1
          BY <2>2, <3>4, <4>2 DEF TargetOf
        <5>2. PICK x : Rows(toolRun[o].seen) = {x}
          BY <5>1, SingletonRows
        <5>3. QED
          BY <3>4, <4>2, <5>2
      <4>3. QED
        BY <4>1, <4>2
    <3>6. QED
      BY <3>1, <3>2, <3>3, <3>5
  <2>3. QED
    BY <1>1, <2>1, <2>2, WhoLifts, Zenon
<1>2. HaltInv /\ [HaltNext]_haltVars => [\A t \in Traders : Lifts(t) => May(t)]_haltVars
  BY <1>1
<1>3. QED
  BY <1>2, HaltInvariant, PTL DEF HaltSpec, LiftedOnlyThroughTheGate

(* A halt raised on an account that traded when a resume looked is not undone by it. *)
THEOREM LateHaltsStand == HaltSpec => LateHaltStands
<1> DEFINE Stands ==
      \A t \in Traders : \A o \in Operators :
         Lifts(t) /\ toolRun[o].phase = "scope" /\ toolRun'[o].phase = "verify"
            => toolRun[o].seen[t] = TRUE
<1>1. ASSUME HaltInv, [HaltNext]_haltVars, NEW t \in Traders, NEW o \in Operators,
             Lifts(t), toolRun[o].phase = "scope", toolRun'[o].phase = "verify"
      PROVE  toolRun[o].seen[t] = TRUE
  <2>1. toolRun' # toolRun
    BY <1>1
  <2>2. PICK p \in Operators : /\ toolRun[p].seen[t] = TRUE
                               /\ toolRun' = [toolRun EXCEPT ![p].phase = "verify"]
    BY <1>1, <2>1, WhoLifts
  <2>3. p = o
    BY <1>1, <2>2 DEF HaltInv, HaltTypes
  <2>4. QED
    BY <2>2, <2>3
<1>2. HaltInv /\ [HaltNext]_haltVars => [Stands]_haltVars
  BY <1>1
<1>3. QED
  BY <1>2, HaltInvariant, PTL DEF HaltSpec, LateHaltStands

(* A run that ends with success saw the flag it wanted on its account. *)
THEOREM SuccessWasSeen == HaltSpec => SuccessIsTrue
<1> DEFINE Seen ==
      \A o \in Operators :
         toolRun[o].phase # "ended" /\ toolRun'[o].phase = "ended" /\ toolRun'[o].exit = 0 =>
            haltRow[TargetOf(toolRun[o])] = (toolRun[o].mode = "halt")
<1>1. HaltInv /\ [HaltNext]_haltVars => [Seen]_haltVars
  BY EndsReads
<1>2. QED
  BY <1>1, HaltInvariant, PTL DEF HaltSpec, SuccessIsTrue

(* All of it together, for every set of traders and of operators: a halt reaches the next
   engine, ends only through the gate, outlives the lifting of an older one, and success
   is said only of what was seen. *)
THEOREM HaltsAreKept == HaltSpec => HaltIsKept
  BY HaltTypeCorrect, BootsHalted, OnlyTheGateLifts, LateHaltsStand, SuccessWasSeen, PTL
     DEF HaltIsKept

-----------------------------------------------------------------------------
(* The rollout *)

Grounded == \A x \in objects : Refers[x] \subseteq objects

Rollout(v) ==
    [phase : {"idle", "pull", "schema", "up", "wait", "done", "failed"}, from : 0..v,
     next : Nat \ {0}, failed : BOOLEAN, schema : BOOLEAN, polls : 0..MaxPolls]

DeployTypes ==
    /\ latest \in Releases /\ pulled \in 1..latest
    /\ container \in [image : 1..latest, phase : {"starting", "healthy"}]
    /\ report \in 0..latest
    /\ rollout \in Rollout(latest)
    /\ applying \in [from : 0..latest, next : Nat \ {0}]

(* What a rollout knows: the objects of the statements behind it, none of which failed *)
Applied ==
    /\ rollout.phase = "pull" => rollout.next = 1
    /\ rollout.phase = "schema" => rollout.from > 0
    /\ rollout.phase = "schema" /\ ~rollout.failed =>
          \A i \in 1..Len(Scripts[rollout.from]) : i < rollout.next => Scripts[rollout.from][i] \in objects
    /\ rollout.phase = "up" /\ rollout.schema => Objects(rollout.from) \subseteq objects
    /\ rollout.phase = "wait" => container.image >= rollout.from

DeployInv == DeployTypes /\ Grounded /\ Applied

-----------------------------------------------------------------------------
LEMMA ReleaseNumbers ==
  /\ Releases = 1..Len(Scripts) /\ Len(Scripts) \in Nat /\ Len(Scripts) > 0
  /\ \A v \in Releases : DOMAIN Scripts[v] = 1..Len(Scripts[v]) /\ Len(Scripts[v]) \in Nat
<1>1. Len(Scripts) \in Nat /\ Releases = 1..Len(Scripts)
  BY DeployAssumption DEF Releases
<1>2. Len(Scripts) # 0
  BY DeployAssumption, EmptySeq
<1>3. \A v \in Releases : Scripts[v] \in Seq(STRING)
  BY DeployAssumption, <1>1
<1>4. QED
  BY <1>1, <1>2, <1>3

(* A script creates what its statements refer to before it refers to it. *)
LEMMA ScriptsAreClosed ==
  ASSUME NEW v \in Releases
  PROVE  \A x \in Objects(v) : Refers[x] \subseteq Objects(v)
<1> SUFFICES ASSUME NEW i \in DOMAIN Scripts[v] PROVE Refers[Scripts[v][i]] \subseteq Objects(v)
  BY DEF Objects
<1>1. Refers[Scripts[v][i]] \subseteq {Scripts[v][j] : j \in 1..(i - 1)}
  BY DeployAssumption
<1>2. 1..(i - 1) \subseteq DOMAIN Scripts[v]
  BY ReleaseNumbers
<1>3. QED
  BY <1>1, <1>2 DEF Objects

LEMMA InitDeploy == DeployInit => DeployInv
<1> SUFFICES ASSUME DeployInit PROVE DeployInv
  OBVIOUS
<1>1. 1 \in Releases
  BY ReleaseNumbers
<1>2. DeployTypes
  BY <1>1, DeployAssumption DEF DeployInit, DeployTypes, NoRollout, Rollout
<1>3. Grounded
  BY <1>1, ScriptsAreClosed DEF DeployInit, Grounded
<1>4. Applied
  BY DEF DeployInit, Applied, NoRollout
<1>5. QED
  BY <1>2, <1>3, <1>4 DEF DeployInv

(* A statement of a version adds what it may refer to, and reports no later version. *)
LEMMA OneStatement ==
  ASSUME DeployInv, NEW v \in 1..latest, NEW i \in Nat \ {0}, NEW lost \in BOOLEAN, Execute(v, i, lost)
  PROVE  /\ objects \subseteq objects' /\ Grounded' /\ report' \in 0..latest
         /\ i <= Len(Scripts[v]) /\ Statement(v, i, lost).done => Scripts[v][i] \in objects'
         /\ Statement(v, i, lost).done \in BOOLEAN
<1> DEFINE s == Statement(v, i, lost)
<1>1. /\ objects' = objects \cup IF s.done THEN s.adds ELSE {}
      /\ report' = IF s.done THEN s.report ELSE report
  BY DEF Execute
<1>0. v \in Releases
  BY ReleaseNumbers DEF DeployInv, DeployTypes
<1>2. CASE i <= Len(Scripts[v])
  <2>1. s = [done |-> ~lost /\ Refers[Scripts[v][i]] \subseteq objects,
             adds |-> {Scripts[v][i]}, report |-> report]
    BY <1>2 DEF Statement
  <2>2. Grounded'
    <3>1. CASE ~s.done
      BY <1>1, <3>1 DEF Grounded, DeployInv
    <3>2. CASE s.done
      <4>1. s.adds = {Scripts[v][i]} /\ (s.done => Refers[Scripts[v][i]] \subseteq objects)
        <5>1. s.adds = {Scripts[v][i]}
          BY <2>1
        <5>2. s.done = (~lost /\ Refers[Scripts[v][i]] \subseteq objects)
          BY <2>1
        <5>3. QED
          BY <5>1, <5>2
      <4>2. objects' = objects \cup {Scripts[v][i]} /\ Refers[Scripts[v][i]] \subseteq objects
        BY <1>1, <3>2, <4>1, Zenon
      <4>3. QED
        BY <4>2 DEF Grounded, DeployInv
    <3>3. QED
      BY <3>1, <3>2
  <2>3. QED
    BY <1>1, <1>2, <2>1, <2>2 DEF DeployInv, DeployTypes
<1>3. CASE ~(i <= Len(Scripts[v]))
  <2>1. s = [done |-> ~lost /\ Objects(v) \subseteq objects, adds |-> {}, report |-> v]
    BY <1>3 DEF Statement
  <2>2. report' \in 0..latest
    BY <1>1, <2>1 DEF DeployInv, DeployTypes
  <2>3. QED
    BY <1>1, <1>3, <2>1, <2>2 DEF Grounded, DeployInv
<1>4. QED
  BY <1>2, <1>3

(* Objects are never dropped, so what a rollout knows of them stays true. *)
LEMMA StaysApplied ==
  ASSUME DeployInv, objects \subseteq objects', UNCHANGED rollout,
         container'.image = container.image \/ container'.image >= rollout.from
  PROVE  Applied'
  BY DEF DeployInv, Applied

LEMMA OtherStep ==
  ASSUME DeployInv,
         \/ Publish \/ Answers \/ Watchtower
         \/ \E v \in Releases : ApplyByHand(v)
         \/ \E lost \in BOOLEAN : StatementByHand(lost)
  PROVE  DeployInv'
<1> USE ReleaseNumbers
<1>1. CASE Publish
  <2>1. latest + 1 \in Releases /\ latest' = latest + 1 /\ latest \in Nat
    BY <1>1 DEF Publish, DeployInv, DeployTypes
  <2>2. DeployTypes'
    BY <1>1, <2>1 DEF Publish, DeployInv, DeployTypes, databaseVars, Rollout
  <2>3. QED
    BY <1>1, <2>2, StaysApplied DEF Publish, DeployInv, databaseVars, Grounded
<1>2. CASE Answers
  <2>1. DeployTypes'
    BY <1>2 DEF Answers, DeployInv, DeployTypes, databaseVars
  <2>2. container'.image = container.image
    BY <1>2 DEF Answers, DeployInv, DeployTypes
  <2>3. QED
    BY <1>2, <2>1, <2>2, StaysApplied DEF Answers, DeployInv, databaseVars, Grounded
<1>3. CASE Watchtower
  <2>1. latest \in 1..latest /\ latest >= rollout.from
    BY DEF DeployInv, DeployTypes, Rollout
  <2>2. DeployTypes' /\ container'.image = latest
    BY <1>3, <2>1 DEF Watchtower, DeployInv, DeployTypes, databaseVars
  <2>3. QED
    BY <1>3, <2>1, <2>2, StaysApplied DEF Watchtower, DeployInv, databaseVars, Grounded
<1>4. ASSUME NEW v \in Releases, ApplyByHand(v)
      PROVE  DeployInv'
  <2>1. DeployTypes'
    BY <1>4 DEF ApplyByHand, DeployInv, DeployTypes, databaseVars
  <2>2. QED
    BY <1>4, <2>1, StaysApplied DEF ApplyByHand, DeployInv, databaseVars, Grounded
<1>5. ASSUME NEW lost \in BOOLEAN, StatementByHand(lost)
      PROVE  DeployInv'
  <2>1. applying.from \in 1..latest /\ applying.next \in Nat \ {0}
    BY <1>5 DEF StatementByHand, DeployInv, DeployTypes
  <2>2. objects \subseteq objects' /\ Grounded' /\ report' \in 0..latest
    BY <1>5, <2>1, OneStatement DEF StatementByHand
  <2>3. applying' \in [from : 0..latest, next : Nat \ {0}]
    BY <1>5, <2>1 DEF StatementByHand, DeployInv, DeployTypes
  <2>4. DeployTypes'
    BY <1>5, <2>2, <2>3 DEF StatementByHand, DeployInv, DeployTypes
  <2>5. QED
    BY <1>5, <2>2, <2>4, StaysApplied DEF StatementByHand, DeployInv
<1>6. QED
  BY <1>1, <1>2, <1>3, <1>4, <1>5

-----------------------------------------------------------------------------
(* The steps of deploy-vps.sh *)

(* An aborted rollout knows nothing. *)
LEMMA AbortStep ==
  ASSUME DeployInv, Abort, UNCHANGED <<latest, pulled, container, databaseVars, applying>>
  PROVE  DeployInv'
<1>1. rollout' = [phase |-> "failed", from |-> 0, next |-> 1, failed |-> FALSE, schema |-> TRUE, polls |-> 0]
  BY DEF Abort, NoRollout
<1>2. 0 \in 0..latest /\ 0 \in 0..MaxPolls /\ 1 \in Nat \ {0}
  BY DeployAssumption, ReleaseNumbers DEF DeployInv, DeployTypes
<1>3. rollout' \in Rollout(latest)
  BY <1>1, <1>2 DEF Rollout
<1>4. DeployTypes' /\ Grounded'
  BY <1>3 DEF DeployInv, DeployTypes, Grounded, databaseVars
<1>5. Applied'
  BY <1>1 DEF Applied
<1>6. QED
  BY <1>4, <1>5 DEF DeployInv

LEMMA StartPullStep ==
  ASSUME DeployInv, (\E schema \in BOOLEAN : StartRollout(schema)) \/ Pull
  PROVE  DeployInv'
<1> USE ReleaseNumbers
<1>1. ASSUME NEW schema \in BOOLEAN, StartRollout(schema)
      PROVE  DeployInv'
  <2>1. rollout' = [phase |-> "pull", from |-> 0, next |-> 1, failed |-> FALSE, schema |-> schema, polls |-> 0]
    BY <1>1 DEF StartRollout, NoRollout
  <2>2. 0 \in 0..latest /\ 0 \in 0..MaxPolls /\ 1 \in Nat \ {0}
    BY DeployAssumption DEF DeployInv, DeployTypes
  <2>3. rollout' \in Rollout(latest)
    BY <2>1, <2>2 DEF Rollout
  <2>4. DeployTypes' /\ Grounded'
    BY <1>1, <2>3 DEF StartRollout, DeployInv, DeployTypes, Grounded, databaseVars
  <2>5. Applied'
    BY <2>1 DEF Applied
  <2>6. QED
    BY <2>4, <2>5 DEF DeployInv
<1>2. CASE Pull
  <2>1. CASE Abort /\ UNCHANGED pulled
    BY <1>2, <2>1, AbortStep DEF Pull
  <2>2. CASE /\ pulled' = latest
             /\ rollout' = [rollout EXCEPT !.phase = IF rollout.schema THEN "schema" ELSE "up", !.from = latest]
    <3>1. latest \in 1..latest /\ latest \in 0..latest /\ rollout \in Rollout(latest) /\ latest > 0
      BY DEF DeployInv, DeployTypes, Rollout
    <3>2. /\ rollout' \in Rollout(latest) /\ rollout'.from = latest /\ rollout'.schema = rollout.schema
          /\ rollout'.phase = (IF rollout.schema THEN "schema" ELSE "up") /\ rollout'.next = rollout.next
      BY <2>2, <3>1 DEF Rollout
    <3>3. rollout'.next = 1
      BY <1>2, <3>2 DEF Pull, DeployInv, Applied
    <3>4. DeployTypes' /\ Grounded'
      BY <1>2, <2>2, <3>1, <3>2 DEF Pull, DeployInv, DeployTypes, Grounded, databaseVars
    <3>5. rollout'.phase = "schema" \/ (rollout'.phase = "up" /\ ~rollout'.schema)
      BY <3>2
    <3>6. ~\E j \in 1..Len(Scripts[latest]) : j < 1
      BY <3>1
    <3>7. Applied'
      BY <3>1, <3>2, <3>3, <3>5, <3>6 DEF Applied
    <3>8. QED
      BY <3>4, <3>7 DEF DeployInv
  <2>3. QED
    BY <1>2, <2>1, <2>2 DEF Pull
<1>3. QED
  BY <1>1, <1>2

LEMMA CountedType ==
  ASSUME NEW v, NEW r \in Rollout(v), NEW bad \in BOOLEAN
  PROVE  LET counted == [r EXCEPT !.next = r.next + 1, !.failed = bad]
         IN  /\ counted \in Rollout(v) /\ counted.phase = r.phase /\ counted.from = r.from
             /\ counted.next = r.next + 1 /\ counted.failed = bad
<1> DEFINE counted == [r EXCEPT !.next = r.next + 1, !.failed = bad]
<1>1. [r EXCEPT !.next = r.next + 1] \in Rollout(v)
  BY DEF Rollout
<1>2. \A q \in Rollout(v) : [q EXCEPT !.failed = bad] \in Rollout(v)
  BY DEF Rollout
<1>3. counted = [[r EXCEPT !.next = r.next + 1] EXCEPT !.failed = bad]
  OBVIOUS
<1>4. counted \in Rollout(v)
  BY <1>1, <1>2, <1>3, Zenon
<1>5. counted.phase = r.phase /\ counted.from = r.from /\ counted.next = r.next + 1
  BY DEF Rollout
<1>6. counted.failed = bad
  BY DEF Rollout
<1>7. QED
  BY <1>4, <1>5, <1>6

LEMMA ApplyStep ==
  ASSUME DeployInv, NEW lost \in BOOLEAN, ApplyStatement(lost)
  PROVE  DeployInv'
<1> DEFINE v == rollout.from
           i == rollout.next
           good == Statement(v, i, lost).done
           bad == rollout.failed \/ ~good
<1>1. /\ rollout.phase = "schema" /\ v \in 1..latest /\ i \in Nat \ {0} /\ Execute(v, i, lost)
      /\ rollout \in Rollout(latest)
  BY DEF ApplyStatement, DeployInv, DeployTypes, Applied, Rollout
<1>2. /\ objects \subseteq objects' /\ Grounded' /\ report' \in 0..latest /\ good \in BOOLEAN
      /\ i <= Len(Scripts[v]) /\ good => Scripts[v][i] \in objects'
  BY <1>1, OneStatement
<1>3. rollout' = [rollout EXCEPT !.next = i + 1, !.failed = bad] /\ bad \in BOOLEAN
  BY DEF ApplyStatement
<1>4. ~bad => ~rollout.failed /\ good
  OBVIOUS
<1> HIDE DEF good, bad
<1>5. /\ rollout'.phase = "schema" /\ rollout'.from = v /\ rollout'.next = i + 1
      /\ rollout'.failed = bad /\ rollout' \in Rollout(latest)
  BY <1>1, <1>3, CountedType
<1>6. DeployTypes'
  BY <1>2, <1>5 DEF ApplyStatement, DeployInv, DeployTypes
<1>7. ASSUME ~rollout'.failed, NEW j \in 1..Len(Scripts[v]), j < rollout'.next
      PROVE  Scripts[v][j] \in objects'
  <2>1. ~rollout.failed /\ good
    BY <1>4, <1>5, <1>7
  <2>2. j < i \/ j = i
    BY <1>1, <1>5, <1>7
  <2>3. CASE j < i
    BY <1>1, <1>2, <2>1, <2>3 DEF DeployInv, Applied
  <2>4. CASE j = i
    <3>1. i <= Len(Scripts[v])
      BY <2>4, <1>7
    <3>2. QED
      BY <1>2, <2>1, <2>4, <3>1
  <2>5. QED
    BY <2>2, <2>3, <2>4
<1>8. Applied'
  BY <1>1, <1>5, <1>7 DEF Applied
<1>9. QED
  BY <1>2, <1>6, <1>8 DEF DeployInv

(* The check passes when every statement did, so every object is there. *)
LEMMA CheckStep ==
  ASSUME DeployInv, CheckSchema
  PROVE  DeployInv'
<1> USE ReleaseNumbers
<1>1. CASE Abort
  BY <1>1, AbortStep DEF CheckSchema
<1>2. CASE ~Abort
  <2>1. ~Refused /\ rollout' = [rollout EXCEPT !.phase = "up"] /\ rollout.phase = "schema"
        /\ Ended(rollout.from, rollout.next)
        /\ UNCHANGED <<latest, pulled, container, databaseVars, applying>>
    BY <1>2 DEF CheckSchema
  <2>0. rollout \in Rollout(latest)
    BY DEF DeployInv, DeployTypes, Rollout
  <2>2. rollout.from \in Releases /\ ~rollout.failed
    BY <2>0, <2>1 DEF DeployInv, DeployTypes, Applied, Refused, Rollout
  <2>3. \A i \in DOMAIN Scripts[rollout.from] : Scripts[rollout.from][i] \in objects
    <3>1. rollout.next > Len(Scripts[rollout.from]) + 1 /\ rollout.next \in Nat
      BY <2>1 DEF Ended, DeployInv, DeployTypes, Rollout
    <3>2. \A i \in 1..Len(Scripts[rollout.from]) : i < rollout.next
      BY <2>2, <3>1
    <3>3. QED
      BY <2>1, <2>2, <3>2 DEF DeployInv, Applied
  <2>4. Objects(rollout.from) \subseteq objects
    BY <2>3 DEF Objects
  <2>5. DeployTypes' /\ rollout'.from = rollout.from /\ rollout'.phase = "up"
    BY <2>0, <2>1 DEF DeployInv, DeployTypes, databaseVars, Rollout
  <2>6. QED
    BY <2>1, <2>4, <2>5 DEF DeployInv, Applied, Grounded, databaseVars
<1>3. QED
  BY <1>1, <1>2

LEMMA UpPollStep ==
  ASSUME DeployInv, ComposeUp \/ Poll
  PROVE  DeployInv'
<1> USE ReleaseNumbers
<1>1. CASE ComposeUp
  <2>1. CASE Abort /\ UNCHANGED <<pulled, container>>
    BY <1>1, <2>1, AbortStep DEF ComposeUp
  <2>2. CASE pulled' = latest /\ container' = Recreated(latest) /\ rollout' = [rollout EXCEPT !.phase = "wait"]
    <3>0. rollout \in Rollout(latest)
      BY DEF DeployInv, DeployTypes, Rollout
    <3>1. /\ container' \in [image : 1..latest, phase : {"starting", "healthy"}]
          /\ container'.image = latest /\ latest >= rollout.from
      BY <2>2, <3>0 DEF Recreated, DeployInv, DeployTypes, Rollout
    <3>2. DeployTypes' /\ rollout'.from = rollout.from /\ rollout'.phase = "wait"
      BY <1>1, <2>2, <3>0, <3>1 DEF ComposeUp, DeployInv, DeployTypes, databaseVars, Rollout
    <3>3. QED
      BY <1>1, <3>1, <3>2 DEF ComposeUp, DeployInv, Applied, Grounded, databaseVars
  <2>3. QED
    BY <1>1, <2>1, <2>2 DEF ComposeUp
<1>2. CASE Poll
  <2>1. /\ rollout'.phase \in {"done", "wait", "failed"} /\ rollout.phase = "wait"
        /\ rollout'.from = rollout.from /\ rollout' \in Rollout(latest)
    <3>1. rollout \in Rollout(latest) /\ MaxPolls \in Nat
      BY DeployAssumption DEF DeployInv, DeployTypes
    <3>2. CASE container.phase = "healthy"
      BY <1>2, <3>1, <3>2 DEF Poll, Rollout
    <3>3. CASE container.phase # "healthy" /\ rollout.polls < MaxPolls
      BY <1>2, <3>1, <3>3 DEF Poll, Rollout
    <3>4. CASE container.phase # "healthy" /\ ~(rollout.polls < MaxPolls)
      BY <1>2, <3>1, <3>4 DEF Poll, Rollout
    <3>5. QED
      BY <3>2, <3>3, <3>4
  <2>2. DeployTypes'
    BY <1>2, <2>1 DEF Poll, DeployInv, DeployTypes, databaseVars
  <2>3. QED
    BY <1>2, <2>1, <2>2 DEF Poll, DeployInv, Applied, Grounded, databaseVars
<1>3. QED
  BY <1>1, <1>2

LEMMA DeployStep == DeployInv /\ [DeployNext]_deployVars => DeployInv'
<1> SUFFICES ASSUME DeployInv, [DeployNext]_deployVars PROVE DeployInv'
  OBVIOUS
<1>1. CASE UNCHANGED deployVars
  BY <1>1 DEF deployVars, DeployInv, DeployTypes, Grounded, Applied
<1>2. CASE DeployNext
  BY <1>2, OtherStep, StartPullStep, ApplyStep, CheckStep, UpPollStep DEF DeployNext
<1>3. QED
  BY <1>1, <1>2

LEMMA DeployInvariant == DeploySpec => []DeployInv
<1>1. QED
  BY InitDeploy, DeployStep, PTL DEF DeploySpec

-----------------------------------------------------------------------------
(* The theorems *)

(* No object without those it refers to, and no version that was not published. *)
THEOREM DeployTypeCorrect == DeploySpec => []DeployTypeOK
<1>1. DeployInv => DeployTypeOK
  BY DEF DeployInv, DeployTypes, Grounded, DeployTypeOK, Rollout
<1>2. QED
  BY <1>1, DeployInvariant, PTL

(* A rollout starts a version whose schema it applied only when all of it is there. *)
THEOREM SchemaComesFirst == DeploySpec => SchemaBeforeCode
<1> DEFINE First ==
      rollout.phase = "up" /\ container' # container /\ rollout'.phase = "wait"
         /\ rollout.schema /\ container'.image = rollout.from
      => Objects(container'.image) \subseteq objects
<1>1. DeployInv /\ [DeployNext]_deployVars => [First]_deployVars
  BY DEF DeployInv, Applied
<1>2. QED
  BY <1>1, DeployInvariant, PTL DEF DeploySpec, SchemaBeforeCode

(* A rollout that reports success serves the version it applied, or a later one. *)
THEOREM SuccessIsServed == DeploySpec => DoneIsServed
<1> DEFINE Served ==
      rollout.phase # "done" /\ rollout'.phase = "done" =>
         container.phase = "healthy" /\ container.image >= rollout.from
<1>1. ASSUME DeployInv, DeployNext, rollout.phase # "done", rollout'.phase = "done"
      PROVE  container.phase = "healthy" /\ container.image >= rollout.from
  <2>1. ~Abort
    BY <1>1 DEF Abort, NoRollout
  <2>2. rollout \in Rollout(latest)
    BY <1>1 DEF DeployInv, DeployTypes
  <2>3. ~Publish /\ ~Answers /\ ~Watchtower /\ ~Pull /\ ~CheckSchema /\ ~ComposeUp
    BY <1>1, <2>1, <2>2 DEF Publish, Answers, Watchtower, Pull, CheckSchema, ComposeUp, Rollout
  <2>4. /\ \A v \in Releases : ~ApplyByHand(v)
        /\ \A lost \in BOOLEAN : ~StatementByHand(lost) /\ ~ApplyStatement(lost)
        /\ \A schema \in BOOLEAN : ~StartRollout(schema)
    BY <1>1, <2>2 DEF ApplyByHand, StatementByHand, ApplyStatement, StartRollout, NoRollout, Rollout
  <2>5. Poll
    BY <1>1, <2>3, <2>4, Zenon DEF DeployNext
  <2>6. rollout.phase = "wait" /\ container.phase = "healthy"
    BY <1>1, <2>2, <2>5 DEF Poll, Rollout
  <2>7. QED
    BY <1>1, <2>6 DEF DeployInv, Applied
<1>2. DeployInv /\ [DeployNext]_deployVars => [Served]_deployVars
  BY <1>1 DEF deployVars
<1>3. QED
  BY <1>2, DeployInvariant, PTL DEF DeploySpec, DoneIsServed

(* All of it together: the schema comes before the code that needs it, and "done" is said
   of what is served. *)
THEOREM RolloutsAreSafe == DeploySpec => RolloutIsSafe
  BY DeployTypeCorrect, SchemaComesFirst, SuccessIsServed, PTL DEF RolloutIsSafe

-----------------------------------------------------------------------------
(* Accounts *)

Handed == 1..(fresh - 1) \cup {Legacy}

Calls == {Out, [phase |-> "adopting"]} \cup [phase : {"in"}, id : UserIds]
            \cup [phase : {"claiming", "inserting", "in"}, id : UserIds, among : SUBSET UserIds]

AccountShapes ==
    /\ users \subseteq [id : UserIds, email : Emails, pass : Emails]
    /\ step \in [Clients -> Calls]
    /\ browser \in [People -> {NoToken} \cup [id : UserIds, email : Emails, key : Nat]]
    /\ secret \in Nat

(* Whoever is in has the bot's row, and an id that is being claimed was handed out *)
Based(c) ==
    /\ step[c].phase = "in" => \E u \in RowsOf(BotEmail) : u.id = step[c].id
    /\ step[c].phase \in {"claiming", "inserting"} =>
          step[c].id \in Handed /\ (step[c].among # {} => step[c].id \in step[c].among)
    /\ c \in opening => step[c].phase = "in"

AccountsInv ==
    /\ AccountShapes /\ AccountsTypeOK /\ TokensHaveRows
    /\ owners \subseteq Handed /\ IdsThere \subseteq Handed
    /\ \A c \in Clients : Based(c)

LEMMA AccountConstants ==
  /\ MaxUsers \in Nat /\ Legacy \notin 1..MaxUsers /\ BotEmail \in Emails /\ BotEmail \notin People
  /\ Legacy \in UserIds /\ People \subseteq Emails /\ 1..MaxUsers \subseteq UserIds
  BY AccountsAssumption DEF Emails, UserIds

LEMMA HandedIds ==
  ASSUME AccountsInv
  PROVE  /\ fresh \in 1..(MaxUsers + 1) /\ Handed \subseteq UserIds /\ Legacy \in Handed
         /\ fresh <= MaxUsers => fresh \notin Handed /\ fresh \in UserIds
         /\ fresh' \in {fresh, fresh + 1} => Handed \subseteq Handed'
         /\ fresh' = fresh + 1 => fresh \in Handed'
<1>1. fresh \in 1..(MaxUsers + 1)
  BY DEF AccountsInv, AccountsTypeOK
<1> QED BY <1>1, AccountConstants DEF Handed, UserIds

(* The shapes of a sign-in *)
LEMMA CallShapes ==
  /\ \A x \in Calls : x.phase \in {"out", "adopting", "claiming", "inserting", "in"}
  /\ \A x \in Calls : x.phase \in {"claiming", "inserting"} =>
        /\ x \in [phase : {"claiming", "inserting", "in"}, id : UserIds, among : SUBSET UserIds]
        /\ x.id \in UserIds /\ x.among \subseteq UserIds
  /\ \A x \in Calls : x.phase = "in" => x.id \in UserIds
  /\ Out \in Calls /\ Out.phase = "out" /\ [phase |-> "adopting"] \in Calls
  /\ \A id \in UserIds : [phase |-> "in", id |-> id] \in Calls
  /\ \A p \in {"claiming", "inserting", "in"}, id \in UserIds, A \in SUBSET UserIds :
        [phase |-> p, id |-> id, among |-> A] \in Calls
  BY DEF Calls, Out

(* What the writers of app_users keep: a row's id, and which id has the bot's address *)
RowsKept ==
    /\ users' \subseteq [id : UserIds, email : Emails, pass : Emails]
    /\ \A u, v \in users' : u.id = v.id \/ u.email = v.email => u = v
    /\ IdsThere \subseteq {u.id : u \in users'}
    /\ \A u \in users, v \in users' : u.email = v.email => u.id = v.id
    /\ \A u \in users : u.email = BotEmail => \E v \in users' : v.email = BotEmail /\ v.id = u.id

LEMMA RowsSame ==
  ASSUME AccountsInv, users' = users
  PROVE  RowsKept
  BY DEF AccountsInv, AccountShapes, AccountsTypeOK, RowsKept, IdsThere

LEMMA RowJoins ==
  ASSUME AccountsInv, NEW id \in UserIds, NEW email \in Emails, NEW pass \in Emails,
         id \notin IdsThere, RowsOf(email) = {}, users' = users \cup {[id |-> id, email |-> email, pass |-> pass]}
  PROVE  RowsKept /\ IdsThere' = IdsThere \cup {id}
<1> DEFINE r == [id |-> id, email |-> email, pass |-> pass]
<1>1. r \in [id : UserIds, email : Emails, pass : Emails] /\ r.id = id /\ r.email = email
  OBVIOUS
<1>2. users' = users \cup {r}
  OBVIOUS
<1> HIDE DEF r
<1>3. \A u \in users : u.id # id /\ u.email # email
  BY DEF IdsThere, RowsOf
<1>4. /\ users \subseteq [id : UserIds, email : Emails, pass : Emails]
      /\ \A u, v \in users : u.id = v.id \/ u.email = v.email => u = v
  BY DEF AccountsInv, AccountShapes, AccountsTypeOK
<1>5. IdsThere' = IdsThere \cup {id}
  BY <1>1, <1>2 DEF IdsThere
<1>6. RowsKept
  BY <1>1, <1>2, <1>3, <1>4 DEF RowsKept, IdsThere
<1> QED BY <1>5, <1>6

(* One row is rewritten under its id *)
LEMMA RowChanges ==
  ASSUME AccountsInv, NEW r \in users, NEW q \in [id : UserIds, email : Emails, pass : Emails],
         q.id = r.id, users' = (users \ {r}) \cup {q},
         q.email = r.email \/ (q.email = BotEmail /\ \A u \in users : u.email = BotEmail => u.id = r.id)
  PROVE  RowsKept /\ IdsThere' = IdsThere
<1>1. /\ users \subseteq [id : UserIds, email : Emails, pass : Emails]
      /\ \A u, v \in users : u.id = v.id \/ u.email = v.email => u = v
  BY DEF AccountsInv, AccountShapes, AccountsTypeOK
<1>2. \A u \in users \ {r} : u.id # q.id /\ u.email # q.email
  BY <1>1
<1>3. IdsThere' = IdsThere
  <2>1. \A u \in users' : \E v \in users : u.id = v.id
    OBVIOUS
  <2>2. \A v \in users : \E u \in users' : u.id = v.id
    OBVIOUS
  <2> QED BY <2>1, <2>2 DEF IdsThere
<1>4. /\ users' \subseteq [id : UserIds, email : Emails, pass : Emails]
      /\ \A u, v \in users' : u.id = v.id \/ u.email = v.email => u = v
  BY <1>1, <1>2
<1>5. \A u \in users, v \in users' : u.email = v.email => u.id = v.id
  BY <1>1, <1>2
<1>6. \A u \in users : u.email = BotEmail => \E v \in users' : v.email = BotEmail /\ v.id = u.id
  BY <1>1
<1>7. IdsThere \subseteq {u.id : u \in users'}
  BY <1>3 DEF IdsThere
<1> QED BY <1>3, <1>4, <1>5, <1>6, <1>7 DEF RowsKept

(* Who did nothing is where he was *)
LEMMA OthersStand ==
  ASSUME AccountsInv, RowsKept, NEW c \in Clients, step'[c] = step[c], c \in opening' => c \in opening,
         fresh' \in {fresh, fresh + 1}
  PROVE  Based(c)'
<1>1. Based(c) /\ Handed \subseteq Handed'
  BY HandedIds DEF AccountsInv
<1>2. \A u \in RowsOf(BotEmail) : \E v \in RowsOf(BotEmail)' : v.id = u.id
  BY DEF RowsKept, RowsOf
<1> QED BY <1>1, <1>2 DEF Based

LEMMA PersonKeeps ==
  ASSUME AccountsInv, RowsKept, UNCHANGED <<step, opening>>, fresh' \in {fresh, fresh + 1}, fresh' <= MaxUsers + 1,
         secret' \in {secret, secret + 1}, owners' \subseteq Handed', IdsThere' \subseteq Handed',
         browser' \in [People -> {NoToken} \cup [id : UserIds, email : Emails, key : Nat]],
         \A p \in People : browser'[p] = NoToken \/ browser'[p].key \in 0..secret',
         \A p \in People : browser'[p] # NoToken => browser'[p].id \in IdsThere'
  PROVE  AccountsInv'
<1>1. \A c \in Clients : Based(c)'
  BY OthersStand
<1>2. fresh' \in 1..(MaxUsers + 1) /\ secret' \in Nat
  BY AccountConstants DEF AccountsInv, AccountShapes, AccountsTypeOK
<1>3. AccountShapes'
  BY <1>2 DEF AccountsInv, AccountShapes, RowsKept
<1>4. Handed' \subseteq UserIds
  BY <1>2, AccountConstants DEF Handed, UserIds
<1>5. AccountsTypeOK'
  BY <1>2, <1>4 DEF AccountsInv, AccountsTypeOK, RowsKept
<1>6. \A c \in Clients : step'[c].phase = "in" => step'[c].id \in IdsThere'
  BY <1>1 DEF Based, RowsOf, IdsThere
<1>7. TokensHaveRows'
  BY <1>6 DEF TokensHaveRows
<1> QED BY <1>1, <1>3, <1>5, <1>7 DEF AccountsInv

LEMMA ClientKeeps ==
  ASSUME AccountsInv, RowsKept, UNCHANGED <<browser, secret>>, fresh' \in {fresh, fresh + 1}, fresh' <= MaxUsers + 1,
         owners' \subseteq Handed', IdsThere' \subseteq Handed',
         NEW c \in Clients, NEW call \in Calls, step' = [step EXCEPT ![c] = call],
         opening' \subseteq opening \cup {c}, Based(c)'
  PROVE  AccountsInv'
<1>1. step' \in [Clients -> Calls] /\ \A d \in Clients \ {c} : step'[d] = step[d]
  BY DEF AccountsInv, AccountShapes
<1>2. \A d \in Clients : Based(d)'
  BY <1>1, OthersStand
<1>3. fresh' \in 1..(MaxUsers + 1) /\ secret' \in Nat
  BY AccountConstants DEF AccountsInv, AccountShapes, AccountsTypeOK
<1>4. AccountShapes'
  BY <1>1, <1>3 DEF AccountsInv, AccountShapes, RowsKept
<1>5. Handed' \subseteq UserIds
  BY <1>3, AccountConstants DEF Handed, UserIds
<1>6. AccountsTypeOK'
  BY <1>3, <1>5 DEF AccountsInv, AccountsTypeOK, RowsKept
<1>7. \A d \in Clients : step'[d].phase = "in" => step'[d].id \in IdsThere'
  BY <1>2 DEF Based, RowsOf, IdsThere
<1>8. \A p \in People : browser'[p] # NoToken => browser'[p].id \in IdsThere'
  BY DEF AccountsInv, TokensHaveRows, RowsKept, IdsThere
<1>9. TokensHaveRows'
  BY <1>7, <1>8 DEF TokensHaveRows
<1> QED BY <1>2, <1>4, <1>6, <1>9 DEF AccountsInv

LEMMA AccountsStart ==
  ASSUME AccountsInit
  PROVE  AccountsInv
<1>1. /\ users = {} /\ fresh = 1 /\ secret = 0 /\ owners \subseteq {Legacy}
      /\ step = [c \in Clients |-> Out] /\ browser = [p \in People |-> NoToken] /\ opening = {}
  BY DEF AccountsInit
<1>2. AccountShapes
  BY <1>1, CallShapes DEF AccountShapes
<1>3. IdsThere = {} /\ Legacy \in Handed /\ fresh \in 1..(MaxUsers + 1)
  BY <1>1, AccountConstants DEF IdsThere, Handed
<1>4. AccountsTypeOK
  BY <1>1, <1>3, AccountConstants DEF AccountsTypeOK
<1>5. \A c \in Clients : step[c].phase = "out"
  BY <1>1, CallShapes
<1>6. TokensHaveRows /\ \A c \in Clients : Based(c)
  BY <1>1, <1>5 DEF TokensHaveRows, Based
<1> QED BY <1>1, <1>2, <1>3, <1>4, <1>6 DEF AccountsInv

LEMMA PersonSteps ==
  ASSUME AccountsInv,
         \/ \E e \in Emails : SignUp(e)
         \/ \E p \in People : SignIn(p) \/ MirrorUser(p) \/ OpenDashboard(p) \/ Forget(p)
         \/ Rotate
  PROVE  AccountsInv' /\ RowsKept
<1> DEFINE Tokens == {NoToken} \cup [id : UserIds, email : Emails, key : Nat]
<1>1. /\ users \subseteq [id : UserIds, email : Emails, pass : Emails]
      /\ \A u, v \in users : u.id = v.id \/ u.email = v.email => u = v
      /\ browser \in [People -> Tokens] /\ secret \in Nat /\ owners \subseteq Handed /\ IdsThere \subseteq Handed
      /\ \A p \in People : /\ browser[p] = NoToken \/ browser[p].key \in 0..secret
                           /\ browser[p] # NoToken => browser[p].id \in IdsThere
      /\ \A u \in users : u.id \in IdsThere
  BY DEF AccountsInv, AccountShapes, AccountsTypeOK, TokensHaveRows, IdsThere
<1>2. /\ fresh \in 1..(MaxUsers + 1) /\ Handed \subseteq UserIds /\ Legacy \in Handed /\ MaxUsers \in Nat
      /\ fresh <= MaxUsers => fresh \notin Handed /\ fresh \in UserIds
      /\ fresh' \in {fresh, fresh + 1} => Handed \subseteq Handed'
      /\ fresh' = fresh + 1 => fresh \in Handed'
  BY HandedIds, AccountConstants
<1>3. ASSUME NEW id \in UserIds, NEW email \in Emails
      PROVE  /\ Token(id, email) \in Tokens
             /\ Token(id, email).key = secret /\ Token(id, email).id = id
  BY <1>1 DEF Token
<1> HIDE DEF Tokens
<1>4. ASSUME NEW e \in Emails, SignUp(e) PROVE AccountsInv' /\ RowsKept
  <2>1. /\ RowsOf(e) = {} /\ fresh <= MaxUsers /\ fresh' = fresh + 1
        /\ users' = users \cup {[id |-> fresh, email |-> e, pass |-> e]}
        /\ browser' = IF e \in People THEN [browser EXCEPT ![e] = Token(fresh, e)] ELSE browser
        /\ UNCHANGED <<owners, step, secret, opening>>
    BY <1>4 DEF SignUp
  <2>2. fresh \in UserIds /\ fresh \notin IdsThere
    BY <1>1, <1>2, <2>1
  <2>3. RowsKept /\ IdsThere' = IdsThere \cup {fresh}
    BY <2>1, <2>2, RowJoins
  <2>4. browser' \in [People -> Tokens]
    BY <1>1, <1>3, <2>1, <2>2
  <2>5. \A p \in People : /\ browser'[p] = NoToken \/ browser'[p].key \in 0..secret'
                          /\ browser'[p] # NoToken => browser'[p].id \in IdsThere'
    <3>1. \A p \in People : browser'[p] = browser[p] \/ browser'[p] = Token(fresh, e)
      BY <1>1, <2>1
    <3> QED BY <1>1, <1>3, <2>1, <2>2, <2>3, <3>1
  <2>6. owners' \subseteq Handed' /\ IdsThere' \subseteq Handed' /\ fresh' <= MaxUsers + 1
    BY <1>1, <1>2, <2>1, <2>3
  <2>7. AccountsInv'
    BY <2>1, <2>3, <2>4, <2>5, <2>6, PersonKeeps DEF Tokens
  <2> QED BY <2>3, <2>7
<1>5. ASSUME NEW p \in People, SignIn(p) PROVE AccountsInv' /\ RowsKept
  <2>1. PICK u \in RowsOf(p) : browser' = [browser EXCEPT ![p] = Token(u.id, u.email)]
    BY <1>5 DEF SignIn
  <2>2. UNCHANGED <<users, owners, fresh, step, secret, opening>>
    BY <1>5 DEF SignIn
  <2>3. u.id \in UserIds /\ u.email \in Emails /\ u.id \in IdsThere
    BY <1>1 DEF RowsOf
  <2>4. RowsKept /\ IdsThere' = IdsThere /\ Handed' = Handed /\ fresh' <= MaxUsers + 1
    BY <1>2, <2>2, RowsSame DEF IdsThere, Handed
  <2>5. browser' \in [People -> Tokens]
    BY <1>1, <1>3, <2>1, <2>3
  <2>6. \A q \in People : /\ browser'[q] = NoToken \/ browser'[q].key \in 0..secret'
                          /\ browser'[q] # NoToken => browser'[q].id \in IdsThere'
    <3>1. \A q \in People : browser'[q] = browser[q] \/ browser'[q] = Token(u.id, u.email)
      BY <1>1, <2>1
    <3> QED BY <1>1, <1>3, <2>2, <2>3, <2>4, <3>1
  <2>7. AccountsInv'
    BY <1>1, <2>2, <2>4, <2>5, <2>6, PersonKeeps DEF Tokens
  <2> QED BY <2>4, <2>7
<1>6. ASSUME NEW p \in People, MirrorUser(p) PROVE AccountsInv' /\ RowsKept
  <2>1. /\ users' = IF RowsOf(p) # {} THEN {IF u.email = p THEN [u EXCEPT !.pass = p] ELSE u : u \in users}
                    ELSE IF Legacy \in IdsThere THEN users
                    ELSE users \cup {[id |-> Legacy, email |-> p, pass |-> p]}
        /\ UNCHANGED <<owners, fresh, step, browser, secret, opening>>
    BY <1>6 DEF MirrorUser
  <2>2. p \in Emails
    BY AccountConstants
  <2>3. RowsKept /\ IdsThere \subseteq IdsThere' /\ IdsThere' \subseteq IdsThere \cup {Legacy}
    <3>1. CASE RowsOf(p) # {}
      <4>1. PICK r \in users : r.email = p
        BY <3>1 DEF RowsOf
      <4> DEFINE q == [r EXCEPT !.pass = p]
      <4>2. q \in [id : UserIds, email : Emails, pass : Emails] /\ q.id = r.id /\ q.email = r.email
        BY <1>1, <2>2
      <4>3. users' = (users \ {r}) \cup {q}
        BY <1>1, <2>1, <3>1, <4>1
      <4> HIDE DEF q
      <4> QED BY <4>2, <4>3, RowChanges
    <3>2. CASE RowsOf(p) = {} /\ Legacy \in IdsThere
      BY <2>1, <3>2, RowsSame DEF IdsThere
    <3>3. CASE RowsOf(p) = {} /\ Legacy \notin IdsThere
      BY <2>1, <2>2, <3>3, RowJoins, AccountConstants
    <3> QED BY <3>1, <3>2, <3>3
  <2>4. Handed' = Handed /\ fresh' <= MaxUsers + 1 /\ browser' \in [People -> Tokens]
    BY <1>1, <1>2, <2>1 DEF Handed
  <2>5. AccountsInv'
    BY <1>1, <1>2, <2>1, <2>3, <2>4, PersonKeeps DEF Tokens
  <2> QED BY <2>3, <2>5
<1>7. ASSUME NEW p \in People, OpenDashboard(p) \/ Forget(p) PROVE AccountsInv' /\ RowsKept
  <2>1. /\ UNCHANGED <<users, fresh, step, secret, opening>>
        /\ browser' = browser \/ browser' = [browser EXCEPT ![p] = NoToken]
        /\ owners' = owners \/ (owners' = owners \cup {browser[p].id} /\ browser[p] # NoToken)
    BY <1>7 DEF OpenDashboard, Forget
  <2>2. RowsKept /\ IdsThere' = IdsThere /\ Handed' = Handed /\ fresh' <= MaxUsers + 1
    BY <1>2, <2>1, RowsSame DEF IdsThere, Handed
  <2>3. \A q \in People : browser'[q] = browser[q] \/ browser'[q] = NoToken
    BY <1>1, <2>1
  <2>4. browser' \in [People -> Tokens]
    BY <1>1, <2>1 DEF Tokens
  <2>5. owners' \subseteq Handed'
    BY <1>1, <2>1, <2>2
  <2>6. AccountsInv'
    BY <1>1, <2>1, <2>2, <2>3, <2>4, <2>5, PersonKeeps DEF Tokens
  <2> QED BY <2>2, <2>6
<1>8. ASSUME Rotate PROVE AccountsInv' /\ RowsKept
  <2>1. UNCHANGED <<users, owners, fresh, step, browser, opening>> /\ secret' = secret + 1
    BY <1>8 DEF Rotate
  <2>2. RowsKept /\ IdsThere' = IdsThere /\ Handed' = Handed /\ fresh' <= MaxUsers + 1
    BY <1>2, <2>1, RowsSame DEF IdsThere, Handed
  <2>3. \A q \in People : browser'[q] = NoToken \/ browser'[q].key \in 0..secret'
    BY <1>1, <2>1
  <2>4. AccountsInv'
    BY <1>1, <2>1, <2>2, <2>3, PersonKeeps DEF Tokens
  <2> QED BY <2>2, <2>4
<1> QED BY <1>4, <1>5, <1>6, <1>7, <1>8

(* One query of a client's sign-in, or of its boot *)
LEMMA ClientSteps ==
  ASSUME AccountsInv, NEW c \in Clients,
         Select(c) \/ Adopt(c) \/ Claim(c) \/ Insert(c) \/ ReadAccount(c) \/ InsertAccount(c) \/ Leave(c)
  PROVE  AccountsInv' /\ RowsKept
<1>1. /\ users \subseteq [id : UserIds, email : Emails, pass : Emails]
      /\ \A u, v \in users : u.id = v.id \/ u.email = v.email => u = v
      /\ step \in [Clients -> Calls] /\ owners \subseteq Handed /\ IdsThere \subseteq Handed
      /\ \A u \in users : u.id \in IdsThere /\ u.id \in UserIds
      /\ Based(c) /\ step[c] \in Calls /\ owners \subseteq UserIds /\ opening \subseteq Clients
  BY DEF AccountsInv, AccountShapes, AccountsTypeOK, IdsThere
<1>2. /\ fresh \in 1..(MaxUsers + 1) /\ Handed \subseteq UserIds /\ Legacy \in Handed /\ MaxUsers \in Nat
      /\ fresh <= MaxUsers => fresh \notin Handed /\ fresh \in UserIds
      /\ fresh' \in {fresh, fresh + 1} => Handed \subseteq Handed'
      /\ fresh' = fresh + 1 => fresh \in Handed'
  BY HandedIds, AccountConstants
<1>3. users' = users => RowsKept /\ IdsThere' = IdsThere /\ RowsOf(BotEmail)' = RowsOf(BotEmail)
  BY RowsSame DEF IdsThere, RowsOf
<1>4. fresh' = fresh => Handed' = Handed /\ fresh' \in {fresh, fresh + 1} /\ fresh' <= MaxUsers + 1
  BY <1>2 DEF Handed
<1>5. ASSUME Select(c) PROVE AccountsInv' /\ RowsKept
  <2>1. UNCHANGED <<users, owners, fresh, browser, secret, opening>> /\ step[c].phase = "out"
    BY <1>5 DEF Select
  <2>2. PICK call \in Calls : /\ step' = [step EXCEPT ![c] = call]
                              /\ call.phase \in {"in", "adopting"}
                              /\ call.phase = "in" => \E u \in RowsOf(BotEmail) : u.id = call.id
    <3>1. CASE RowsOf(BotEmail) # {}
      <4>1. PICK u \in RowsOf(BotEmail) : step' = [step EXCEPT ![c] = [phase |-> "in", id |-> u.id]]
        BY <1>5, <3>1 DEF Select
      <4>2. [phase |-> "in", id |-> u.id] \in Calls
        BY <1>1, CallShapes DEF RowsOf
      <4> QED BY <4>1, <4>2
    <3>2. CASE RowsOf(BotEmail) = {}
      BY <1>5, <3>2, CallShapes DEF Select
    <3> QED BY <3>1, <3>2
  <2>3. step'[c] = call /\ c \notin opening
    BY <1>1, <2>1, <2>2 DEF Based
  <2>4. Based(c)'
    BY <1>3, <2>1, <2>2, <2>3 DEF Based
  <2>5. AccountsInv'
    BY <1>1, <1>3, <1>4, <2>1, <2>2, <2>4, ClientKeeps
  <2> QED BY <1>3, <2>1, <2>5
<1>6. ASSUME Adopt(c) PROVE AccountsInv' /\ RowsKept
  <2>1. UNCHANGED <<users, owners, browser, secret, opening>> /\ step[c].phase = "adopting"
    BY <1>6 DEF Adopt
  <2>2. PICK id \in UserIds : /\ step' = [step EXCEPT ![c] = [phase |-> "claiming", id |-> id, among |-> owners]]
                              /\ fresh' \in {fresh, fresh + 1} /\ fresh' <= MaxUsers + 1 /\ id \in Handed'
                              /\ owners # {} => id \in owners
    <3>1. CASE owners # {}
      <4>1. PICK id \in owners : step' = [step EXCEPT ![c] = [phase |-> "claiming", id |-> id, among |-> owners]]
        BY <1>6, <3>1 DEF Adopt
      <4>2. fresh' = fresh
        BY <1>6, <3>1 DEF Adopt
      <4> QED BY <1>1, <1>4, <4>1, <4>2
    <3>2. CASE owners = {}
      <4>1. /\ fresh <= MaxUsers /\ fresh' = fresh + 1
            /\ step' = [step EXCEPT ![c] = [phase |-> "claiming", id |-> fresh, among |-> owners]]
        BY <1>6, <3>2 DEF Adopt
      <4>2. fresh \in UserIds /\ fresh \in Handed'
        BY <1>2, <4>1
      <4>3. fresh' \in {fresh, fresh + 1} /\ fresh' <= MaxUsers + 1
        BY <1>2, <4>1
      <4> QED BY <3>2, <4>1, <4>2, <4>3
    <3> QED BY <3>1, <3>2
  <2> DEFINE call == [phase |-> "claiming", id |-> id, among |-> owners]
  <2>3. call \in Calls /\ call.phase = "claiming" /\ call.id = id /\ call.among = owners
    BY <1>1, CallShapes
  <2>4. step' = [step EXCEPT ![c] = call]
    BY <2>2
  <2> HIDE DEF call
  <2>5. step'[c] = call /\ c \notin opening /\ opening' = opening
    BY <1>1, <2>1, <2>4 DEF Based
  <2>6. Based(c)'
    BY <2>2, <2>3, <2>5 DEF Based
  <2>7. owners' \subseteq Handed' /\ IdsThere' \subseteq Handed'
    BY <1>1, <1>2, <1>3, <2>1, <2>2
  <2>8. AccountsInv'
    BY <1>3, <2>1, <2>2, <2>3, <2>4, <2>6, <2>7, ClientKeeps
  <2> QED BY <1>3, <2>1, <2>8
<1>7. ASSUME Claim(c) PROVE AccountsInv' /\ RowsKept
  <2> DEFINE id == step[c].id
             taken == \E u \in RowsOf(BotEmail) : u.id # id
  <2>1. UNCHANGED <<owners, fresh, browser, secret, opening>> /\ step[c].phase = "claiming"
    BY <1>7 DEF Claim
  <2>2. /\ step[c] \in [phase : {"claiming", "inserting", "in"}, id : UserIds, among : SUBSET UserIds]
        /\ id \in Handed /\ (step[c].among # {} => id \in step[c].among) /\ c \notin opening
    BY <1>1, <2>1, CallShapes DEF Based
  <2>3. CASE id \notin IdsThere
    <3> DEFINE call == [step[c] EXCEPT !.phase = "inserting"]
    <3>1. users' = users /\ step' = [step EXCEPT ![c] = call]
      BY <1>1, <1>7, <2>3 DEF Claim
    <3>2. call \in Calls /\ call.phase = "inserting" /\ call.id = id /\ call.among = step[c].among
      BY <2>2 DEF Calls
    <3> HIDE DEF call
    <3>3. step'[c] = call
      BY <1>1, <3>1
    <3>4. Based(c)'
      BY <1>4, <2>1, <2>2, <3>2, <3>3 DEF Based
    <3>5. AccountsInv'
      BY <1>1, <1>3, <1>4, <2>1, <3>1, <3>2, <3>4, ClientKeeps
    <3> QED BY <1>3, <3>1, <3>5
  <2>4. CASE id \in IdsThere /\ taken
    <3>1. users' = users /\ step' = [step EXCEPT ![c] = Out]
      BY <1>7, <2>4 DEF Claim
    <3>2. step'[c] = Out /\ Out \in Calls /\ Out.phase = "out"
      BY <1>1, <3>1, CallShapes
    <3>3. Based(c)'
      BY <2>1, <2>2, <3>2 DEF Based
    <3>4. AccountsInv'
      BY <1>1, <1>3, <1>4, <2>1, <3>1, <3>2, <3>3, ClientKeeps
    <3> QED BY <1>3, <3>1, <3>4
  <2>5. CASE id \in IdsThere /\ ~taken
    <3> DEFINE call == [step[c] EXCEPT !.phase = "in"]
    <3>1. /\ users' = {IF u.id = id THEN [u EXCEPT !.email = BotEmail, !.pass = BotEmail] ELSE u : u \in users}
          /\ step' = [step EXCEPT ![c] = call]
      BY <1>1, <1>7, <2>5 DEF Claim
    <3>2. call \in Calls /\ call.phase = "in" /\ call.id = id
      BY <2>2 DEF Calls
    <3> HIDE DEF call
    <3>3. PICK r \in users : r.id = id
      BY <2>5 DEF IdsThere
    <3> DEFINE q == [r EXCEPT !.email = BotEmail, !.pass = BotEmail]
    <3>4. q \in [id : UserIds, email : Emails, pass : Emails] /\ q.id = r.id /\ q.email = BotEmail
      BY <1>1, AccountConstants
    <3>5. users' = (users \ {r}) \cup {q}
      BY <1>1, <3>1, <3>3
    <3> HIDE DEF q
    <3>6. \A u \in users : u.email = BotEmail => u.id = r.id
      BY <2>5, <3>3 DEF RowsOf
    <3>7. RowsKept /\ IdsThere' = IdsThere
      BY <3>4, <3>5, <3>6, RowChanges
    <3>8. step'[c] = call
      BY <1>1, <3>1
    <3>9. Based(c)'
      BY <2>1, <2>2, <3>2, <3>3, <3>4, <3>5, <3>8 DEF Based, RowsOf
    <3>10. AccountsInv'
      BY <1>1, <1>4, <2>1, <3>1, <3>2, <3>7, <3>9, ClientKeeps
    <3> QED BY <3>7, <3>10
  <2> QED BY <2>3, <2>4, <2>5
<1>8. ASSUME Insert(c) PROVE AccountsInv' /\ RowsKept
  <2> DEFINE id == step[c].id
  <2>1. UNCHANGED <<owners, fresh, browser, secret, opening>> /\ step[c].phase = "inserting"
    BY <1>8 DEF Insert
  <2>2. /\ step[c] \in [phase : {"claiming", "inserting", "in"}, id : UserIds, among : SUBSET UserIds]
        /\ id \in Handed /\ id \in UserIds /\ step[c].among \in SUBSET UserIds /\ c \notin opening
    BY <1>1, <2>1, CallShapes DEF Based
  <2>3. CASE RowsOf(BotEmail) # {}
    <3>1. PICK r \in RowsOf(BotEmail) :
             /\ users' = (users \ {r}) \cup {[r EXCEPT !.pass = BotEmail]}
             /\ step' = [step EXCEPT ![c] = [phase |-> "in", id |-> r.id, among |-> step[c].among]]
      BY <1>8, <2>3 DEF Insert
    <3> DEFINE q == [r EXCEPT !.pass = BotEmail]
               call == [phase |-> "in", id |-> r.id, among |-> step[c].among]
    <3>2. r \in users /\ r.email = BotEmail
      BY DEF RowsOf
    <3>3. q \in [id : UserIds, email : Emails, pass : Emails] /\ q.id = r.id /\ q.email = r.email
      BY <1>1, <3>2, AccountConstants
    <3>4. call \in Calls /\ call.phase = "in" /\ call.id = r.id
      BY <1>1, <2>2, <3>2, CallShapes
    <3>5. users' = (users \ {r}) \cup {q} /\ step' = [step EXCEPT ![c] = call]
      BY <3>1
    <3> HIDE DEF q, call
    <3>6. RowsKept /\ IdsThere' = IdsThere
      BY <3>2, <3>3, <3>5, RowChanges
    <3>7. step'[c] = call
      BY <1>1, <3>5
    <3>8. Based(c)'
      BY <2>1, <2>2, <3>2, <3>3, <3>4, <3>5, <3>7 DEF Based, RowsOf
    <3>9. AccountsInv'
      BY <1>1, <1>4, <2>1, <3>4, <3>5, <3>6, <3>8, ClientKeeps
    <3> QED BY <3>6, <3>9
  <2>4. CASE RowsOf(BotEmail) = {} /\ id \in IdsThere
    <3>1. users' = users /\ step' = [step EXCEPT ![c] = Out]
      BY <1>8, <2>4 DEF Insert
    <3>2. step'[c] = Out /\ Out \in Calls /\ Out.phase = "out"
      BY <1>1, <3>1, CallShapes
    <3>3. Based(c)'
      BY <2>1, <2>2, <3>2 DEF Based
    <3>4. AccountsInv'
      BY <1>1, <1>3, <1>4, <2>1, <3>1, <3>2, <3>3, ClientKeeps
    <3> QED BY <1>3, <3>1, <3>4
  <2>5. CASE RowsOf(BotEmail) = {} /\ id \notin IdsThere
    <3> DEFINE call == [step[c] EXCEPT !.phase = "in"]
    <3>1. /\ users' = users \cup {[id |-> id, email |-> BotEmail, pass |-> BotEmail]}
          /\ step' = [step EXCEPT ![c] = call]
      BY <1>1, <1>8, <2>5 DEF Insert
    <3>2. call \in Calls /\ call.phase = "in" /\ call.id = id
      BY <2>2 DEF Calls
    <3> HIDE DEF call
    <3>3. RowsKept /\ IdsThere' = IdsThere \cup {id}
      BY <2>2, <2>5, <3>1, RowJoins, AccountConstants
    <3>4. step'[c] = call
      BY <1>1, <3>1
    <3>5. Based(c)'
      <4> DEFINE new == [id |-> id, email |-> BotEmail, pass |-> BotEmail]
      <4>1. new \in users' /\ new.email = BotEmail /\ new.id = id
        BY <3>1
      <4> HIDE DEF new
      <4>2. call.phase = "in" /\ \E u \in RowsOf(BotEmail)' : u.id = call.id
        BY <3>2, <4>1 DEF RowsOf
      <4> QED BY <2>1, <2>2, <3>4, <4>2 DEF Based
    <3>6. AccountsInv'
      BY <1>1, <1>4, <2>1, <2>2, <3>1, <3>2, <3>3, <3>5, ClientKeeps
    <3> QED BY <3>3, <3>6
  <2> QED BY <2>3, <2>4, <2>5
<1>9. ASSUME ReadAccount(c) \/ InsertAccount(c) \/ Leave(c) PROVE AccountsInv' /\ RowsKept
  <2>1. UNCHANGED <<users, fresh, browser, secret>>
    BY <1>9 DEF ReadAccount, InsertAccount, Leave
  <2>2. PICK call \in {step[c], Out} : /\ step' = [step EXCEPT ![c] = call]
                                       /\ c \in opening' => call = step[c] /\ step[c].phase = "in"
    <3>1. step = [step EXCEPT ![c] = step[c]]
      BY <1>1
    <3>2. ReadAccount(c) => step' = step /\ step[c].phase = "in"
      BY DEF ReadAccount
    <3>3. InsertAccount(c) => step' \in {step, [step EXCEPT ![c] = Out]} /\ c \notin opening'
      BY DEF InsertAccount
    <3>4. Leave(c) => step' = [step EXCEPT ![c] = Out] /\ c \notin opening'
      BY DEF Leave
    <3> QED BY <1>9, <3>1, <3>2, <3>3, <3>4
  <2>3. opening' \subseteq opening \cup {c}
    BY <1>9 DEF ReadAccount, InsertAccount, Leave
  <2>4. owners' \subseteq Handed
    <3>1. ReadAccount(c) \/ Leave(c) => owners' = owners
      BY DEF ReadAccount, Leave
    <3>2. InsertAccount(c) => step[c].id \in IdsThere /\ owners' = owners \cup {step[c].id}
      BY <1>1 DEF InsertAccount, Based, RowsOf, IdsThere
    <3> QED BY <1>1, <1>9, <3>1, <3>2
  <2>5. step'[c] = call /\ call \in Calls /\ (call = Out => call.phase = "out")
    BY <1>1, <2>2, CallShapes
  <2>6. Based(c)'
    BY <1>1, <1>3, <1>4, <2>1, <2>2, <2>5 DEF Based
  <2>7. AccountsInv'
    BY <1>1, <1>3, <1>4, <2>1, <2>2, <2>3, <2>4, <2>5, <2>6, ClientKeeps
  <2> QED BY <1>3, <2>1, <2>7
<1> QED BY <1>5, <1>6, <1>7, <1>8, <1>9

(* The bot's row decides which id a client gets: the one it claimed when there was none *)
LEMMA AdoptsClaimed ==
  ASSUME AccountsInv, [AccountsNext]_accountVars, NEW c \in Clients, step[c].phase \in {"claiming", "inserting"},
         step'[c].phase = "in", step[c].among = {Legacy}, RowsOf(BotEmail) = {}
  PROVE  step'[c].id = Legacy
<1>1. step \in [Clients -> Calls] /\ step[c] \in Calls /\ step[c].id = Legacy
  BY DEF AccountsInv, AccountShapes, Based
<1>2. step[c] \in [phase : {"claiming", "inserting", "in"}, id : UserIds, among : SUBSET UserIds]
  BY <1>1, CallShapes
<1>3. step'[c] # step[c] /\ step'[c] # Out
  BY <1>1, CallShapes
<1>4. Claim(c) \/ Insert(c)
  <2>1. PICK d \in Clients : \/ Select(d) \/ Adopt(d) \/ Claim(d) \/ Insert(d)
                             \/ ReadAccount(d) \/ InsertAccount(d) \/ Leave(d)
    BY <1>3 DEF AccountsNext, accountVars, SignUp, SignIn, MirrorUser, OpenDashboard, Forget, Rotate
  <2>2. d = c
    BY <1>1, <1>3, <2>1 DEF Select, Adopt, Claim, Insert, ReadAccount, InsertAccount, Leave
  <2>3. ~Select(c) /\ ~Adopt(c)
    BY DEF Select, Adopt
  <2>4. ~ReadAccount(c) /\ ~InsertAccount(c) /\ ~Leave(c)
    BY <1>1, <1>3 DEF ReadAccount, InsertAccount, Leave
  <2> QED BY <2>1, <2>2, <2>3, <2>4
<1>5. step' = [step EXCEPT ![c].phase = "in"]
  <2>1. CASE Claim(c)
    <3>1. step' \in {[step EXCEPT ![c].phase = "inserting"], [step EXCEPT ![c] = Out], [step EXCEPT ![c].phase = "in"]}
      BY <2>1 DEF Claim
    <3>2. step' # [step EXCEPT ![c] = Out]
      BY <1>1, <1>3
    <3>3. step' # [step EXCEPT ![c].phase = "inserting"]
      BY <1>1, <1>2
    <3> QED BY <3>1, <3>2, <3>3
  <2>2. CASE Insert(c)
    <3>1. step' \in {[step EXCEPT ![c] = Out], [step EXCEPT ![c].phase = "in"]}
      BY <2>2 DEF Insert
    <3>2. step' # [step EXCEPT ![c] = Out]
      BY <1>1, <1>3
    <3> QED BY <3>1, <3>2
  <2> QED BY <1>4, <2>1, <2>2
<1> QED BY <1>1, <1>2, <1>5

LEMMA AccountsStep ==
  AccountsInv /\ [AccountsNext]_accountVars => AccountsInv' /\ RowsKept
<1> SUFFICES ASSUME AccountsInv, [AccountsNext]_accountVars PROVE AccountsInv' /\ RowsKept
  OBVIOUS
<1>1. CASE UNCHANGED accountVars
  <2>1. RowsKept
    BY <1>1, RowsSame DEF accountVars
  <2>2. AccountsInv'
    BY <1>1 DEF accountVars, AccountsInv, AccountShapes, AccountsTypeOK, TokensHaveRows, Handed, IdsThere, Based, RowsOf
  <2> QED BY <2>1, <2>2
<1>2. CASE AccountsNext
  BY <1>2, PersonSteps, ClientSteps DEF AccountsNext
<1> QED BY <1>1, <1>2

(* Who is in as the bot has the bot's row, and there is one *)
LEMMA AccountsSafe == AccountsInv => AccountsTypeOK /\ OneBot /\ TokensHaveRows
<1> SUFFICES ASSUME AccountsInv PROVE OneBot
  BY DEF AccountsInv
<1>1. \A c \in Clients : step[c].phase = "in" => \E u \in users : u.email = BotEmail /\ u.id = step[c].id
  BY DEF AccountsInv, Based, RowsOf
<1>2. \A u, v \in users : u.email = v.email => u = v
  BY DEF AccountsInv, AccountsTypeOK
<1> QED BY <1>1, <1>2 DEF OneBot

(* Whoever signs in, in whatever order their queries interleave, there is one bot with the
   data that was there, every token has its row, and an id keeps its address. *)
THEOREM AccountsHold == AccountsSpec => AccountsKeep
<1>1. RowsKept => /\ IdsThere \subseteq {u.id : u \in users'}
                  /\ \A u \in users, v \in users' : u.email = v.email => u.id = v.id
  BY DEF RowsKept
<1>2. AccountsInv /\ [AccountsNext]_accountVars =>
         \A c \in Clients :
            step[c].phase \in {"claiming", "inserting"} /\ step'[c].phase = "in"
               /\ step[c].among = {Legacy} /\ RowsOf(BotEmail) = {} => step'[c].id = Legacy
  BY AdoptsClaimed
<1>3. AccountsInit => AccountsInv
  BY AccountsStart
<1>4. AccountsSpec => []AccountsInv
  BY <1>3, AccountsStep, PTL DEF AccountsSpec
<1>5. AccountsSpec => [](AccountsTypeOK /\ OneBot /\ TokensHaveRows)
  BY <1>4, AccountsSafe, PTL
<1>6. AccountsSpec => BindingsHold
  BY <1>1, <1>4, AccountsStep, PTL DEF AccountsSpec, BindingsHold
<1>7. AccountsSpec => OwnerAdopted
  BY <1>2, <1>4, PTL DEF AccountsSpec, OwnerAdopted
<1> QED BY <1>5, <1>6, <1>7 DEF AccountsKeep

-----------------------------------------------------------------------------
(* The feed of signals *)

(* The maps of the ingester cover what it has handed over. *)
Remembers ==
    \A s \in Signs : sinceOffer[s] # Never =>
        /\ sinceOffer[s] <= Retention => seenAt[s] = sinceOffer[s]
        /\ lastBySymbol[MarketOf[s]] # Never /\ lastBySymbol[MarketOf[s]] <= sinceOffer[s]

Docketed == \A s \in Signs : observed[s] # Never => evidence[s] # "none" \/ s \in lostWrites

FeedInv ==
    /\ FeedTypeOK /\ TradedIsDocketed
    /\ listed \subseteq Signs
    /\ Remembers /\ Docketed
    /\ polling => offers = {}

LEMMA AgesGrow ==
  ASSUME FeedAssumption
  PROVE  /\ Never \in Ages /\ 0 \in Ages /\ 0 # Never /\ 0 <= Retention
         /\ \A x \in Ages : Older(x) \in Ages /\ Kept(x) \in Ages
         /\ \A x \in Ages : (Older(x) = Never <=> x = Never) /\ (x = Never => Kept(x) = Never)
         /\ \A x \in Ages : x # Never => /\ x \in Int /\ 0 <= x
                                         /\ Older(x) <= Retention => Older(x) = x + 1 /\ x <= Retention
                                         /\ x <= Retention => Older(x) = x + 1 /\ Kept(x) = x
         /\ \A x, y \in Ages : x # Never /\ y # Never /\ x <= y => Older(x) <= Older(y)
BY DEF FeedAssumption, Ages, Older, Kept

LEMMA FeedStarts ==
  ASSUME FeedAssumption, FeedInit
  PROVE  FeedInv
<1>1. \A S : \A s \in S : Forgotten(S)[s] = Never
  BY DEF Forgotten
<1>2. Never \in Ages
  BY AgesGrow
<1>3. seenAt \in [Signs -> Ages] /\ observed \in [Signs -> Ages] /\ lastBySymbol \in [FeedSymbols -> Ages]
      /\ sinceOffer \in [Signs -> Ages]
  BY <1>2 DEF FeedInit, Forgotten
<1>4. \A s \in Signs : sinceOffer[s] = Never /\ observed[s] = Never /\ evidence[s] = "none"
  BY <1>1 DEF FeedInit
<1>5. FeedTypeOK
  BY <1>3 DEF FeedInit, FeedTypeOK
<1> QED
  BY <1>4, <1>5 DEF FeedInit, FeedInv, TradedIsDocketed, Remembers, Docketed

(* What is offered was not offered in 24 h, nor was its symbol within the spacing. *)
LEMMA OffersAreNew ==
  ASSUME FeedAssumption, FeedInv, NEW heard \in SUBSET listed, NEW S \in SUBSET heard,
         FirstOfEach(heard, S), NEW s \in S
  PROVE  /\ s \in Signs /\ s \notin Invalid /\ MarketOf[s] \in TrackedSymbols
         /\ sinceOffer[s] = Never \/ sinceOffer[s] > Retention
         /\ \A q \in Signs \ {s} : MarketOf[q] = MarketOf[s] =>
               q \notin S /\ (sinceOffer[q] = Never \/ sinceOffer[q] >= Spacing)
<1>1. s \in Signs /\ s \in Admissible(heard)
  BY DEF FirstOfEach, FeedInv
<1>2. s \notin Invalid /\ Kept(seenAt[s]) = Never /\ MarketOf[s] \in TrackedSymbols /\ ~CoolingDown(s)
  BY <1>1 DEF Admissible, Unoffered
<1>3. seenAt[s] \in Ages /\ sinceOffer[s] \in Ages
  BY <1>1 DEF FeedInv, FeedTypeOK
<1>4. ASSUME sinceOffer[s] # Never, ~(sinceOffer[s] > Retention) PROVE FALSE
  <2>1. sinceOffer[s] \in Int /\ Retention \in Int
    BY <1>3, <1>4, AgesGrow DEF FeedAssumption
  <2>2. sinceOffer[s] <= Retention /\ seenAt[s] = sinceOffer[s]
    BY <1>1, <1>4, <2>1 DEF FeedInv, Remembers
  <2>3. Kept(seenAt[s]) = seenAt[s]
    BY <1>3, <1>4, <2>2, AgesGrow
  <2> QED
    BY <1>2, <1>4, <2>2, <2>3
<1>5. ASSUME NEW q \in Signs, q # s, MarketOf[q] = MarketOf[s]
      PROVE  q \notin S /\ (sinceOffer[q] = Never \/ sinceOffer[q] >= Spacing)
  <2>1. q \notin S
    BY <1>5 DEF FirstOfEach
  <2>2. ASSUME sinceOffer[q] # Never PROVE sinceOffer[q] >= Spacing
    <3> DEFINE l == lastBySymbol[MarketOf[s]]  x == sinceOffer[q]
    <3>1. l # Never /\ l <= x
      BY <1>5, <2>2 DEF FeedInv, Remembers
    <3>2. MarketOf[s] \in FeedSymbols
      BY <1>1 DEF FeedSymbols
    <3>3. l \in Ages /\ x \in Ages
      BY <3>2 DEF FeedInv, FeedTypeOK
    <3>4. l \in Int /\ x \in Int /\ Spacing \in Int
      BY <2>2, <3>1, <3>3, AgesGrow DEF FeedAssumption
    <3>5. ~(l < Spacing)
      BY <1>2, <3>1 DEF CoolingDown
    <3> HIDE DEF l, x
    <3>6. x >= Spacing
      BY <3>1, <3>4, <3>5
    <3> QED
      BY <3>6 DEF x
  <2> QED
    BY <2>1, <2>2
<1> QED
  BY <1>1, <1>2, <1>4, <1>5

LEMMA HearKeeps ==
  ASSUME FeedAssumption, FeedInv, NEW heard \in SUBSET listed, NEW S \in SUBSET heard,
         NEW lost \in SUBSET heard, Hear(heard, S, lost)
  PROVE  FeedInv'
<1>1. /\ S \subseteq Signs /\ lost \subseteq Signs
      /\ \A s \in S : s \in heard /\ s \notin Invalid /\ Unoffered(s) /\ MarketOf[s] \in TrackedSymbols
  BY DEF Hear, FirstOfEach, Admissible, Unoffered, FeedInv
<1>2. /\ seenAt' = [s \in Signs |-> IF s \in S THEN 0 ELSE Kept(seenAt[s])]
      /\ observed' = [s \in Signs |-> IF s \in Observed(heard) THEN 0 ELSE Kept(observed[s])]
      /\ lastBySymbol' = [y \in FeedSymbols |-> IF \E s \in S : MarketOf[s] = y THEN 0 ELSE lastBySymbol[y]]
      /\ evidence' = Recorded(heard, S, lost) /\ lostWrites' = lostWrites \cup lost
      /\ offers' = S
      /\ sinceOffer' = [s \in Signs |-> IF s \in S THEN 0 ELSE sinceOffer[s]]
      /\ polling' = FALSE /\ listed' = listed /\ pollTimer' = pollTimer
  BY DEF Hear
<1>3. /\ seenAt \in [Signs -> Ages] /\ observed \in [Signs -> Ages] /\ lastBySymbol \in [FeedSymbols -> Ages]
      /\ sinceOffer \in [Signs -> Ages] /\ evidence \in [Signs -> {"none", "admitted", "rejected"}]
  BY DEF FeedInv, FeedTypeOK
<1>4. \A s \in Signs : MarketOf[s] \in FeedSymbols
  BY DEF FeedSymbols
<1>5. /\ evidence' \in [Signs -> {"none", "admitted", "rejected"}]
      /\ \A s \in Signs : evidence[s] # "none" => evidence'[s] = evidence[s]
      /\ \A s \in Signs : evidence'[s] = "admitted" => evidence[s] = "admitted" \/ s \in S
      /\ \A s \in Signs : s \in Observed(heard) => evidence'[s] # "none" \/ s \in lostWrites'
  BY <1>2, <1>3 DEF Recorded
<1>6. seenAt' \in [Signs -> Ages] /\ observed' \in [Signs -> Ages] /\ lastBySymbol' \in [FeedSymbols -> Ages]
      /\ sinceOffer' \in [Signs -> Ages]
  BY <1>2, <1>3, AgesGrow
<1>7. FeedTypeOK'
  <2>1. listed \in Listings \cup {{}} /\ pollTimer \in BOOLEAN
    BY DEF FeedInv, FeedTypeOK
  <2> QED
    BY <1>1, <1>2, <1>5, <1>6, <2>1 DEF FeedTypeOK
<1>8. Docketed'
  <2> SUFFICES ASSUME NEW s \in Signs, observed'[s] # Never
               PROVE  evidence'[s] # "none" \/ s \in lostWrites'
    BY DEF Docketed
  <2>1. CASE s \in Observed(heard)
    BY <1>5, <2>1
  <2>2. CASE s \notin Observed(heard)
    <3>1. observed[s] # Never
      BY <1>2, <1>3, <2>2, AgesGrow
    <3> QED
      BY <1>2, <1>5, <3>1 DEF FeedInv, Docketed
  <2> QED
    BY <2>1, <2>2
<1>9. TradedIsDocketed'
  <2> SUFFICES ASSUME NEW s \in Signs
               PROVE  /\ sinceOffer'[s] # Never => evidence'[s] # "none" \/ s \in lostWrites'
                      /\ evidence'[s] = "admitted" => s \notin Invalid /\ MarketOf[s] \in TrackedSymbols
    BY DEF TradedIsDocketed
  <2>1. CASE s \in S
    <3>1. ASSUME s \notin Observed(heard) PROVE observed[s] # Never
      <4>1. FactsOf[s].side # NoSide
        BY <1>1, <2>1 DEF Invalid, ValidSignal
      <4>2. Kept(observed[s]) # Never
        BY <1>1, <2>1, <3>1, <4>1 DEF Observed
      <4> QED
        BY <1>3, <4>2, AgesGrow
    <3>2. evidence'[s] # "none" \/ s \in lostWrites'
      BY <1>2, <1>5, <3>1 DEF FeedInv, Docketed
    <3> QED
      BY <1>1, <2>1, <3>2
  <2>2. CASE s \notin S
    <3>1. sinceOffer'[s] = sinceOffer[s]
      BY <1>2, <2>2
    <3> QED
      BY <1>2, <1>5, <2>2, <3>1 DEF FeedInv, TradedIsDocketed
  <2> QED
    BY <2>1, <2>2
<1>10. Remembers'
  <2> SUFFICES ASSUME NEW s \in Signs, sinceOffer'[s] # Never
               PROVE  /\ sinceOffer'[s] <= Retention => seenAt'[s] = sinceOffer'[s]
                      /\ lastBySymbol'[MarketOf[s]] # Never /\ lastBySymbol'[MarketOf[s]] <= sinceOffer'[s]
    BY DEF Remembers
  <2>1. CASE s \in S
    <3>1. seenAt'[s] = 0 /\ sinceOffer'[s] = 0 /\ lastBySymbol'[MarketOf[s]] = 0
      BY <1>2, <1>4, <2>1
    <3> QED
      BY <3>1, AgesGrow
  <2>2. CASE s \notin S
    <3>1. sinceOffer'[s] = sinceOffer[s] /\ sinceOffer[s] # Never /\ seenAt'[s] = Kept(seenAt[s])
      BY <1>2, <2>2
    <3>2. /\ sinceOffer[s] <= Retention => seenAt[s] = sinceOffer[s]
          /\ lastBySymbol[MarketOf[s]] # Never /\ lastBySymbol[MarketOf[s]] <= sinceOffer[s]
      BY <3>1 DEF FeedInv, Remembers
    <3>3. sinceOffer[s] \in Ages /\ seenAt[s] \in Ages
      BY <1>3
    <3>4. sinceOffer'[s] <= Retention => seenAt'[s] = sinceOffer'[s]
      BY <3>1, <3>2, <3>3, AgesGrow
    <3>5. lastBySymbol'[MarketOf[s]] \in {0, lastBySymbol[MarketOf[s]]}
      BY <1>2, <1>4
    <3>6. sinceOffer[s] \in Int /\ 0 <= sinceOffer[s]
      BY <3>1, <3>3, AgesGrow
    <3> QED
      BY <3>1, <3>2, <3>4, <3>5, <3>6, AgesGrow
  <2> QED
    BY <2>1, <2>2
<1>11. listed' \subseteq Signs /\ ~polling'
  BY <1>2 DEF FeedInv
<1> QED
  BY <1>7, <1>8, <1>9, <1>10, <1>11 DEF FeedInv

LEMMA HourKeeps ==
  ASSUME FeedAssumption, FeedInv, HourPasses
  PROVE  FeedInv'
<1>1. /\ seenAt' = [s \in Signs |-> Older(seenAt[s])]
      /\ observed' = [s \in Signs |-> Older(observed[s])]
      /\ lastBySymbol' = [y \in FeedSymbols |-> Older(lastBySymbol[y])]
      /\ sinceOffer' = [s \in Signs |-> Older(sinceOffer[s])]
      /\ UNCHANGED <<listed, polling, pollTimer, evidence, offers, lostWrites>>
  BY DEF HourPasses
<1>2. /\ seenAt \in [Signs -> Ages] /\ observed \in [Signs -> Ages] /\ lastBySymbol \in [FeedSymbols -> Ages]
      /\ sinceOffer \in [Signs -> Ages]
  BY DEF FeedInv, FeedTypeOK
<1>3. seenAt' \in [Signs -> Ages] /\ observed' \in [Signs -> Ages] /\ lastBySymbol' \in [FeedSymbols -> Ages]
      /\ sinceOffer' \in [Signs -> Ages]
  BY <1>1, <1>2, AgesGrow
<1>4. FeedTypeOK'
  BY <1>1, <1>3 DEF FeedInv, FeedTypeOK
<1>5. \A s \in Signs : (sinceOffer'[s] # Never => sinceOffer[s] # Never) /\ (observed'[s] # Never => observed[s] # Never)
  BY <1>1, <1>2, AgesGrow
<1>6. TradedIsDocketed' /\ Docketed'
  BY <1>1, <1>5 DEF FeedInv, TradedIsDocketed, Docketed
<1>7. Remembers'
  <2> SUFFICES ASSUME NEW s \in Signs, sinceOffer'[s] # Never
               PROVE  /\ sinceOffer'[s] <= Retention => seenAt'[s] = sinceOffer'[s]
                      /\ lastBySymbol'[MarketOf[s]] # Never /\ lastBySymbol'[MarketOf[s]] <= sinceOffer'[s]
    BY DEF Remembers
  <2> DEFINE x == sinceOffer[s]  z == seenAt[s]  l == lastBySymbol[MarketOf[s]]
  <2>1. MarketOf[s] \in FeedSymbols
    BY DEF FeedSymbols
  <2>2. x \in Ages /\ z \in Ages /\ l \in Ages /\ x # Never
    BY <1>2, <1>5, <2>1
  <2>3. sinceOffer'[s] = Older(x) /\ seenAt'[s] = Older(z) /\ lastBySymbol'[MarketOf[s]] = Older(l)
    BY <1>1, <2>1
  <2>4. (x <= Retention => z = x) /\ l # Never /\ l <= x
    BY <2>2 DEF FeedInv, Remembers
  <2> HIDE DEF x, z, l
  <2>5. Older(x) <= Retention => Older(z) = Older(x)
    BY <2>2, <2>4, AgesGrow
  <2>6. Older(l) # Never /\ Older(l) <= Older(x)
    BY <2>2, <2>4, AgesGrow
  <2> QED
    BY <2>3, <2>5, <2>6
<1> QED
  BY <1>1, <1>4, <1>6, <1>7 DEF FeedInv

LEMMA FeedSteps == FeedAssumption /\ FeedInv /\ [FeedNext]_feedVars => FeedInv'
<1> SUFFICES ASSUME FeedAssumption, FeedInv, [FeedNext]_feedVars PROVE FeedInv'
  OBVIOUS
<1> USE DEF mapVars, FeedTypeOK, TradedIsDocketed, Remembers, Docketed
<1>1. ASSUME NEW S \in Listings, Relist(S) PROVE FeedInv'
  BY <1>1 DEF Relist, FeedInv, FeedAssumption
<1>2. CASE StartPoll
  BY <1>2 DEF StartPoll, FeedInv
<1>3. CASE PollFails
  BY <1>3 DEF PollFails, FeedInv
<1>4. CASE HourPasses
  BY <1>4, HourKeeps
<1>5. CASE StopFeed
  BY <1>5 DEF StopFeed, FeedInv
<1>6. CASE Reboot
  <2>1. \A s \in Signs : Forgotten(Signs)[s] = Never
    BY DEF Forgotten
  <2>2. Forgotten(Signs) \in [Signs -> Ages] /\ Forgotten(FeedSymbols) \in [FeedSymbols -> Ages]
    BY AgesGrow DEF Forgotten
  <2>3. /\ seenAt' = Forgotten(Signs) /\ observed' = Forgotten(Signs) /\ lastBySymbol' = Forgotten(FeedSymbols)
        /\ offers' = {} /\ sinceOffer' = Forgotten(Signs) /\ polling' = FALSE /\ pollTimer' = TRUE
        /\ UNCHANGED <<listed, evidence, lostWrites>>
    BY <1>6 DEF Reboot
  <2> QED
    BY <2>1, <2>2, <2>3 DEF FeedInv
<1>7. ASSUME NEW heard \in SUBSET listed, NEW S \in SUBSET heard, NEW lost \in SUBSET heard,
             Hear(heard, S, lost)
      PROVE  FeedInv'
  BY <1>7, HearKeeps
<1>8. CASE UNCHANGED feedVars
  BY <1>8 DEF feedVars, FeedInv
<1> QED
  BY <1>1, <1>2, <1>3, <1>4, <1>5, <1>6, <1>7, <1>8 DEF FeedNext, Answer, PollBreaks

LEMMA SpacedSteps ==
  ASSUME FeedAssumption, FeedInv, [FeedNext]_feedVars, polling, ~polling', NEW s \in offers'
  PROVE  /\ s \notin Invalid /\ MarketOf[s] \in TrackedSymbols
         /\ sinceOffer[s] = Never \/ sinceOffer[s] > Retention
         /\ \A q \in Signs \ {s} : MarketOf[q] = MarketOf[s] =>
               q \notin offers' /\ (sinceOffer[q] = Never \/ sinceOffer[q] >= Spacing)
<1>1. offers = {}
  BY DEF FeedInv
<1>2. offers' # {}
  OBVIOUS
<1>3. PICK heard \in SUBSET listed : \E S \in SUBSET heard, lost \in SUBSET heard : Hear(heard, S, lost)
  BY <1>1, <1>2 DEF Answer, PollBreaks, FeedNext, feedVars, mapVars, Relist, StartPoll, PollFails, HourPasses, StopFeed, Reboot
<1>4. PICK S \in SUBSET heard : offers' = S /\ FirstOfEach(heard, S)
  BY <1>3 DEF Hear
<1> QED
  BY <1>4, OffersAreNew

(* The broker is handed a signal at most once in a retention and a symbol at most once in its *)
(* spacing, and what it is handed is on record unless a write was lost, for any feed.         *)
THEOREM OffersHold == FeedSpec => [](FeedTypeOK /\ TradedIsDocketed) /\ OffersSpaced
<1>1. FeedInit => FeedInv
  BY FeedStarts, FeedAssumption
<1>2. FeedInv /\ [FeedNext]_feedVars => FeedInv'
  BY FeedSteps, FeedAssumption
<1>3. FeedInv => FeedTypeOK /\ TradedIsDocketed
  BY DEF FeedInv
<1>4. FeedInv /\ [FeedNext]_feedVars =>
        [polling /\ ~polling' =>
          \A s \in offers' :
             /\ s \notin Invalid /\ MarketOf[s] \in TrackedSymbols
             /\ sinceOffer[s] = Never \/ sinceOffer[s] > Retention
             /\ \A q \in Signs \ {s} : MarketOf[q] = MarketOf[s] =>
                   q \notin offers' /\ (sinceOffer[q] = Never \/ sinceOffer[q] >= Spacing)]_feedVars
  BY SpacedSteps, FeedAssumption
<1> QED
  BY <1>1, <1>2, <1>3, <1>4, PTL DEF FeedSpec, OffersSpaced

-----------------------------------------------------------------------------
(* The archive of signals *)

Passed(cursor, r) == cursor # NoSignal /\ Upto(r, cursor)
Before(rows, r) == {q \in rows : Upto(q, r)}
After(rows, r) == {q \in rows : Upto(r, q)}

BatchRows == [status : {"ARCHIVING", "VERIFIED", "FAILED"}, mark : Signals, frozen : SUBSET Signals]
Working == [phase : {"paging", "digest", "verify"}, batch : Batches, cursor : Signals \cup {NoSignal},
            streamed : BOOLEAN, staged : Nat, seen : SUBSET Signals]
Dumps == [phase : {"dumped", "accepted"}, batch : Batches, rows : SUBSET Signals]

(* What a run has streamed: one row for each it has counted, none left out before its cursor *)
Streamed(run, batch, source, there) ==
    \E T \in SUBSET there :
       /\ Cardinality(T) = run.staged
       /\ \A t \in T : Upto(t, batch.mark) /\ (run.phase = "paging" => Passed(run.cursor, t))
       /\ \A r \in batch.frozen \cap source : (run.phase = "paging" => Passed(run.cursor, r)) => r \in T

Progress(run, batch, source, there, ever) ==
    /\ run.seen \subseteq ever /\ \A r \in run.seen : Upto(r, batch.mark)
    /\ run.phase = "paging" => run.seen = {} /\ run.streamed
    /\ run.phase = "digest" => \A r \in batch.frozen \cap source : Passed(run.cursor, r) => r \in run.seen
    /\ run.phase = "verify" => batch.frozen \cap source \subseteq run.seen
    /\ run.staged <= Cardinality(batch.frozen) + PageSize
    /\ run.streamed => Streamed(run, batch, source, there)

ArchiveTypes ==
    /\ neon \subseteq written /\ written \subseteq Signals /\ archived \subseteq written
    /\ batches \in [Batches -> BatchRows \cup {NoBatch}]
    /\ scriptRun \in Working \cup [phase : {"frozen"}, mark : Signals] \cup {NoSession}
    /\ backup \in Dumps \cup {NoDump}
    /\ neonResets \in Nat /\ archiveCrashes \in Nat

Frozen ==
    \A b \in Batches : batches[b] # NoBatch =>
        /\ batches[b].frozen # {} /\ batches[b].frozen \subseteq written
        /\ \A r \in batches[b].frozen : Upto(r, batches[b].mark)

RunSound ==
    /\ scriptRun.phase = "frozen" => \E b \in Batches : batches[b] = NoBatch
    /\ scriptRun \in Working =>
          /\ batches[scriptRun.batch] # NoBatch
          /\ Progress(scriptRun, batches[scriptRun.batch], neon, archived, written)

DumpSound ==
    backup # NoDump =>
       /\ batches[backup.batch] # NoBatch
       /\ batches[backup.batch].frozen \cap neon \subseteq backup.rows

ArchiveInv ==
    /\ ArchiveTypes /\ Frozen /\ RunSound /\ DumpSound /\ VerifiedCovers
    /\ neonResets = 0 => neon = written

(* created_at and then id order the signals. *)
LEMMA UptoOrders ==
  ASSUME ArchiveAssumption, NEW p \in Signals, NEW q \in Signals, NEW r \in Signals
  PROVE  /\ Upto(p, p) /\ (Upto(p, q) \/ Upto(q, p))
         /\ Upto(p, q) /\ Upto(q, r) => Upto(p, r)
         /\ Upto(p, q) /\ Upto(q, p) => p = q
         /\ Upto(p, q) => p[1] <= q[1]
<1>1. p \in Nat \X Nat /\ q \in Nat \X Nat /\ r \in Nat \X Nat
  BY DEF ArchiveAssumption
<1>2. p[1] \in Nat /\ p[2] \in Nat /\ q[1] \in Nat /\ q[2] \in Nat /\ r[1] \in Nat /\ r[2] \in Nat
  BY <1>1
<1>3. p = <<p[1], p[2]>> /\ q = <<q[1], q[2]>>
  BY <1>1
<1>4. /\ Upto(p, p) /\ (Upto(p, q) \/ Upto(q, p))
      /\ Upto(p, q) /\ Upto(q, r) => Upto(p, r)
      /\ Upto(p, q) => p[1] <= q[1]
  BY <1>2 DEF Upto
<1>5. Upto(p, q) /\ Upto(q, p) => p[1] = q[1] /\ p[2] = q[2]
  BY <1>2 DEF Upto
<1> QED
  BY <1>3, <1>4, <1>5

LEMMA RowsFinite ==
  ASSUME ArchiveAssumption, NEW rows \in SUBSET Signals
  PROVE  IsFiniteSet(rows) /\ Cardinality(rows) \in Nat
BY FS_Subset, FS_CardinalityType DEF ArchiveAssumption

(* Fewer rows before a row that lies earlier, fewer after one that lies later *)
LEMMA Ordered ==
  ASSUME ArchiveAssumption, NEW rows \in SUBSET Signals, NEW p \in rows, NEW q \in rows, ~Upto(p, q)
  PROVE  Cardinality(Before(rows, q)) < Cardinality(Before(rows, p)) /\ Cardinality(After(rows, p)) < Cardinality(After(rows, q))
<1>1. Upto(q, p) /\ Upto(p, p) /\ Upto(q, q)
  BY UptoOrders
<1>2. Before(rows, q) \subseteq Before(rows, p) /\ p \in Before(rows, p) /\ p \notin Before(rows, q)
  BY <1>1, UptoOrders DEF Before
<1>3. After(rows, p) \subseteq After(rows, q) /\ q \in After(rows, q) /\ q \notin After(rows, p)
  BY <1>1, UptoOrders DEF After
<1>4. /\ Before(rows, p) \in SUBSET Signals /\ Before(rows, q) \in SUBSET Signals
      /\ After(rows, p) \in SUBSET Signals /\ After(rows, q) \in SUBSET Signals
  BY DEF Before, After
<1>5. ASSUME NEW S \in SUBSET Signals, NEW U \in SUBSET S, S # U PROVE Cardinality(U) < Cardinality(S)
  BY <1>5, RowsFinite, FS_Subset
<1> QED
  BY <1>2, <1>3, <1>4, <1>5

LEMMA EndRows ==
  ASSUME ArchiveAssumption, NEW rows \in SUBSET Signals, rows # {}
  PROVE  /\ NewestOf(rows) \in rows /\ \A q \in rows : Upto(q, NewestOf(rows))
         /\ \E r \in rows : \A q \in rows : Upto(r, q)
<1>1. ASSUME NEW r \in rows PROVE Cardinality(Before(rows, r)) \in Nat /\ Cardinality(After(rows, r)) \in Nat
  BY <1>1, RowsFinite DEF Before, After
<1>2. \E r \in rows : \A q \in rows : Upto(r, q)
  <2> DEFINE Counts == {Cardinality(Before(rows, r)) : r \in rows}
  <2>1. PICK n \in Counts : \A m \in Counts : n <= m
    <3>1. Counts \subseteq Nat /\ Counts # {}
      BY <1>1
    <3> QED
      BY <3>1, LeastNatural
  <2>2. PICK r \in rows : n = Cardinality(Before(rows, r))
    OBVIOUS
  <2>3. ASSUME NEW q \in rows, ~Upto(r, q) PROVE FALSE
    BY <1>1, <2>1, <2>2, <2>3, Ordered
  <2> QED
    BY <2>3
<1>3. \E r \in rows : \A q \in rows : Upto(q, r)
  <2> DEFINE Counts == {Cardinality(After(rows, r)) : r \in rows}
  <2>1. PICK n \in Counts : \A m \in Counts : n <= m
    <3>1. Counts \subseteq Nat /\ Counts # {}
      BY <1>1
    <3> QED
      BY <3>1, LeastNatural
  <2>2. PICK r \in rows : n = Cardinality(After(rows, r))
    OBVIOUS
  <2>3. ASSUME NEW q \in rows, ~Upto(q, r) PROVE FALSE
    BY <1>1, <2>1, <2>2, <2>3, Ordered
  <2> QED
    BY <2>3
<1> QED
  BY <1>2, <1>3 DEF NewestOf

(* A page misses nothing between the cursor and its newest row; an empty one is the end. *)
LEMMA PageCovers ==
  ASSUME ArchiveAssumption, neon \subseteq Signals, NEW cursor \in Signals \cup {NoSignal}, NEW mark \in Signals
  PROVE  LET rows == NextPage(cursor, mark)
         IN  /\ rows \subseteq neon /\ \A r \in rows : Upto(r, mark) /\ ~Passed(cursor, r)
             /\ rows = {} => \A r \in neon : Upto(r, mark) => Passed(cursor, r)
             /\ rows # {} =>
                   /\ NewestOf(rows) \in rows
                   /\ \A r \in rows : Passed(NewestOf(rows), r)
                   /\ \A r \in Signals : Passed(cursor, r) => Passed(NewestOf(rows), r)
                   /\ \A r \in neon : Upto(r, mark) /\ Passed(NewestOf(rows), r) => Passed(cursor, r) \/ r \in rows
<1> DEFINE rest == {r \in neon : Upto(r, mark) /\ Behind(cursor, r)}
           rows == NextPage(cursor, mark)
<1>1. rows = {r \in rest : Cardinality(Before(rest, r)) <= PageSize}
  BY DEF NextPage, Before
<1>2. rest \in SUBSET Signals /\ rows \in SUBSET Signals /\ rows \subseteq rest
  BY <1>1
<1>3. \A r \in Signals : (Behind(cursor, r) <=> ~Passed(cursor, r))
  BY DEF Behind, Passed
<1>4. rows \subseteq neon /\ \A r \in rows : Upto(r, mark) /\ ~Passed(cursor, r)
  BY <1>2, <1>3
<1>5. ASSUME rest # {} PROVE rows # {}
  <2>1. PICK r \in rest : \A q \in rest : Upto(r, q)
    BY <1>2, <1>5, EndRows
  <2>2. Before(rest, r) = {r}
    BY <1>2, <2>1, UptoOrders DEF Before
  <2>3. Cardinality(Before(rest, r)) <= PageSize
    BY <2>2, FS_Singleton DEF ArchiveAssumption
  <2> QED
    BY <1>1, <2>1, <2>3
<1>6. rows = {} => \A r \in neon : Upto(r, mark) => Passed(cursor, r)
  BY <1>3, <1>5
<1>7. ASSUME rows # {}
      PROVE  /\ NewestOf(rows) \in rows
             /\ \A r \in rows : Passed(NewestOf(rows), r)
             /\ \A r \in Signals : Passed(cursor, r) => Passed(NewestOf(rows), r)
             /\ \A r \in neon : Upto(r, mark) /\ Passed(NewestOf(rows), r) => Passed(cursor, r) \/ r \in rows
  <2> DEFINE n == NewestOf(rows)
  <2>1. n \in rows /\ \A q \in rows : Upto(q, n)
    BY <1>2, <1>7, EndRows
  <2> HIDE DEF n
  <2>2. n \in Signals /\ n # NoSignal /\ n \in rest
    BY <1>2, <2>1 DEF ArchiveAssumption
  <2>3. \A r \in rows : Passed(n, r)
    BY <2>1, <2>2 DEF Passed
  <2>4. ASSUME NEW r \in Signals, Passed(cursor, r) PROVE Passed(n, r)
    <3>1. cursor \in Signals /\ Upto(r, cursor) /\ ~Upto(n, cursor)
      BY <1>3, <2>2, <2>4 DEF Passed
    <3> QED
      BY <2>2, <3>1, UptoOrders DEF Passed
  <2>5. ASSUME NEW r \in neon, Upto(r, mark), Passed(n, r), ~Passed(cursor, r) PROVE r \in rows
    <3>1. r \in rest /\ Upto(r, n)
      BY <1>3, <2>5 DEF Passed
    <3>2. Before(rest, r) \subseteq Before(rest, n)
      BY <1>2, <2>2, <3>1, UptoOrders DEF Before
    <3>3. Cardinality(Before(rest, r)) <= Cardinality(Before(rest, n)) /\ Cardinality(Before(rest, n)) <= PageSize
      <4>1. Before(rest, n) \in SUBSET Signals
        BY <1>2 DEF Before
      <4> QED
        BY <1>1, <2>1, <3>2, <4>1, RowsFinite, FS_Subset
    <3>4. Cardinality(Before(rest, r)) \in Nat /\ Cardinality(Before(rest, n)) \in Nat
      BY <1>2, RowsFinite DEF Before
    <3>5. Cardinality(Before(rest, r)) <= PageSize
      BY <3>3, <3>4 DEF ArchiveAssumption
    <3> QED
      BY <1>1, <3>1, <3>5
  <2> QED
    BY <2>1, <2>3, <2>4, <2>5 DEF n
<1> QED
  BY <1>4, <1>6, <1>7

LEMMA ProgressStands ==
  ASSUME NEW run, NEW batch, NEW source, NEW source2, NEW there, NEW there2, NEW ever, NEW ever2,
         Progress(run, batch, source, there, ever),
         batch.frozen \cap source2 \subseteq source, there \subseteq there2, ever \subseteq ever2
  PROVE  Progress(run, batch, source2, there2, ever2)
<1>1. ASSUME Streamed(run, batch, source, there) PROVE Streamed(run, batch, source2, there2)
  <2>1. PICK T \in SUBSET there :
           /\ Cardinality(T) = run.staged
           /\ \A t \in T : Upto(t, batch.mark) /\ (run.phase = "paging" => Passed(run.cursor, t))
           /\ \A r \in batch.frozen \cap source : (run.phase = "paging" => Passed(run.cursor, r)) => r \in T
    BY <1>1 DEF Streamed
  <2>2. T \in SUBSET there2
    OBVIOUS
  <2> QED
    BY <2>1, <2>2 DEF Streamed
<1> QED
  BY <1>1 DEF Progress

LEMMA ArchiveStarts == ArchiveAssumption /\ ArchiveInit => ArchiveInv
<1> SUFFICES ASSUME ArchiveAssumption, ArchiveInit PROVE ArchiveInv
  OBVIOUS
<1>1. NoBatch.status = "none" /\ scriptRun.phase = "idle" /\ scriptRun = NoSession /\ backup = NoDump
  BY DEF ArchiveInit, NoBatch, NoSession
<1>2. \A b \in Batches : batches[b] = NoBatch
  BY DEF ArchiveInit
<1>3. scriptRun \notin Working
  BY <1>1 DEF Working
<1>4. batches \in [Batches -> BatchRows \cup {NoBatch}]
  BY DEF ArchiveInit
<1>5. ArchiveTypes
  BY <1>1, <1>4 DEF ArchiveInit, ArchiveTypes
<1> QED
  BY <1>1, <1>2, <1>3, <1>5 DEF ArchiveInit, ArchiveInv, Frozen, RunSound, DumpSound, VerifiedCovers

(* The writes of the engine and the reset touch the source only. *)
LEMMA SourceMoves ==
  ASSUME ArchiveInv, UNCHANGED <<archived, batches, scriptRun, backup, archiveCrashes>>,
         written \subseteq written', written' \subseteq Signals, neon' \subseteq written',
         neon' \cap written \subseteq neon, neonResets' \in Nat, neonResets' = 0 => neon' = written'
  PROVE  ArchiveInv'
<1>1. \A b \in Batches : batches[b] # NoBatch => batches[b].frozen \cap neon' \subseteq neon
  BY DEF ArchiveInv, Frozen
<1>2. ArchiveTypes' /\ Frozen'
  BY DEF ArchiveInv, ArchiveTypes, Frozen
<1>3. ASSUME scriptRun \in Working
      PROVE  Progress(scriptRun, batches[scriptRun.batch], neon', archived, written')
  <2>1. scriptRun.batch \in Batches /\ batches[scriptRun.batch] # NoBatch
    BY <1>3 DEF ArchiveInv, RunSound, Working
  <2>2. batches[scriptRun.batch].frozen \cap neon' \subseteq neon
    BY <1>1, <2>1
  <2>3. Progress(scriptRun, batches[scriptRun.batch], neon, archived, written)
    BY <1>3 DEF ArchiveInv, RunSound
  <2> QED
    BY <2>2, <2>3, ProgressStands
<1>4. RunSound'
  BY <1>3 DEF ArchiveInv, RunSound
<1>5. DumpSound'
  <2>1. ASSUME backup # NoDump PROVE backup.batch \in Batches
    BY <2>1 DEF ArchiveInv, ArchiveTypes, Dumps
  <2> QED
    BY <1>1, <2>1 DEF ArchiveInv, DumpSound
<1>6. VerifiedCovers'
  <2>1. \A b \in Batches : batches[b].status = "VERIFIED" => batches[b] # NoBatch
    BY DEF NoBatch
  <2> QED
    BY <1>1, <2>1 DEF ArchiveInv, VerifiedCovers
<1> QED
  BY <1>2, <1>4, <1>5, <1>6 DEF ArchiveInv

LEMMA FreezeKeeps ==
  ASSUME ArchiveAssumption, ArchiveInv, Freeze
  PROVE  ArchiveInv'
<1>1. neon # {} /\ neon \in SUBSET Signals
  BY DEF Freeze, ArchiveInv, ArchiveTypes
<1>2. NewestOf(neon) \in Signals
  BY <1>1, EndRows
<1>3. /\ scriptRun' = [phase |-> "frozen", mark |-> NewestOf(neon)]
      /\ UNCHANGED <<neon, written, archived, batches, backup, neonResets, archiveCrashes>>
      /\ \E b \in Batches : batches[b] = NoBatch
  BY DEF Freeze
<1>4. scriptRun' \in [phase : {"frozen"}, mark : Signals] /\ scriptRun' \notin Working
  BY <1>2, <1>3 DEF Working
<1> QED
  BY <1>3, <1>4 DEF ArchiveInv, ArchiveTypes, Frozen, RunSound, DumpSound, VerifiedCovers

(* Whatever ends a run leaves nothing to say of it. *)
LEMMA EndKeeps ==
  ASSUME ArchiveInv, scriptRun' = NoSession, archiveCrashes' \in Nat,
         UNCHANGED <<neon, written, batches, backup, neonResets>>,
         archived \subseteq archived', archived' \subseteq written
  PROVE  ArchiveInv'
<1>1. scriptRun' \notin Working /\ scriptRun'.phase # "frozen"
  BY DEF Working, NoSession
<1> QED
  BY <1>1 DEF ArchiveInv, ArchiveTypes, Frozen, RunSound, DumpSound, VerifiedCovers

LEMMA ManifestKeeps ==
  ASSUME ArchiveAssumption, ArchiveInv, Manifest
  PROVE  ArchiveInv'
<1> DEFINE rows == {r \in neon : Upto(r, scriptRun.mark)}
           b == CHOOSE c \in Batches : batches[c] = NoBatch /\ \A d \in Batches : d < c => batches[d] # NoBatch
           new == [status |-> "ARCHIVING", mark |-> scriptRun.mark, frozen |-> rows]
           run == [phase |-> "paging", batch |-> b, cursor |-> NoSignal,
                   streamed |-> TRUE, staged |-> 0, seen |-> {}]
<1>1. scriptRun \in [phase : {"frozen"}, mark : Signals] /\ rows \in SUBSET Signals
  BY DEF Manifest, ArchiveInv, ArchiveTypes, Working, NoSession
<1>2. b \in Batches /\ batches[b] = NoBatch
  <2> DEFINE Free == {c \in Batches : batches[c] = NoBatch}
  <2>1. Free # {} /\ Free \subseteq Nat
    BY <1>1 DEF Manifest, ArchiveInv, RunSound, Batches, ArchiveAssumption
  <2>2. PICK c \in Free : \A d \in Free : c <= d
    BY <2>1, LeastNatural
  <2>3. \A d \in Batches : d < c => batches[d] # NoBatch
    BY <2>1, <2>2 DEF Batches, ArchiveAssumption
  <2> QED
    BY <2>2, <2>3
<1> HIDE DEF b
<1>3. CASE rows = {}
  BY <1>3, EndKeeps DEF Manifest, ArchiveInv, ArchiveTypes
<1>4. CASE rows # {}
  <2>1. /\ batches' = [batches EXCEPT ![b] = new] /\ scriptRun' = run
        /\ UNCHANGED <<neon, written, archived, backup, neonResets, archiveCrashes>>
    BY <1>4 DEF Manifest, b
  <2>2. new \in BatchRows /\ new # NoBatch /\ new.status # "VERIFIED" /\ run \in Working
    BY <1>1, <1>2 DEF BatchRows, NoBatch, Working
  <2>3. batches'[b] = new /\ \A c \in Batches \ {b} : batches'[c] = batches[c]
    BY <1>2, <2>1 DEF ArchiveInv, ArchiveTypes
  <2>4. ArchiveTypes'
    BY <2>1, <2>2 DEF ArchiveInv, ArchiveTypes
  <2>5. new.frozen # {} /\ new.frozen \subseteq written /\ \A r \in new.frozen : Upto(r, new.mark)
    BY <1>4 DEF ArchiveInv, ArchiveTypes
  <2>6. Frozen'
    BY <2>1, <2>3, <2>5 DEF ArchiveInv, Frozen
  <2>7. Cardinality({}) = 0 /\ Cardinality(new.frozen) \in Nat /\ PageSize \in Nat
    BY <1>1, FS_EmptySet, RowsFinite DEF ArchiveAssumption
  <2>8. Streamed(run, new, neon, archived)
    <3>1. {} \in SUBSET archived /\ Cardinality({}) = run.staged
          /\ \A r \in new.frozen \cap neon : (run.phase = "paging" => Passed(run.cursor, r)) => r \in {}
      BY <2>7 DEF Passed
    <3> QED
      BY <3>1 DEF Streamed
  <2>9. run.staged <= Cardinality(new.frozen) + PageSize
    BY <2>7
  <2>10. Progress(run, new, neon, archived, written)
    BY <2>8, <2>9 DEF Progress
  <2>11. RunSound'
    BY <1>2, <2>1, <2>2, <2>3, <2>10 DEF RunSound, Working
  <2>12. DumpSound'
    <3>1. ASSUME backup # NoDump PROVE backup.batch \in Batches \ {b}
      BY <1>2, <3>1 DEF ArchiveInv, ArchiveTypes, Dumps, DumpSound
    <3> QED
      BY <2>1, <2>3, <3>1 DEF ArchiveInv, DumpSound
  <2>13. VerifiedCovers'
    BY <2>1, <2>2, <2>3 DEF ArchiveInv, VerifiedCovers
  <2> QED
    BY <2>1, <2>4, <2>6, <2>11, <2>12, <2>13 DEF ArchiveInv
<1> QED
  BY <1>3, <1>4

LEMMA FinishKeeps ==
  ASSUME ArchiveAssumption, ArchiveInv, NEW b \in Batches, Finish(b)
  PROVE  ArchiveInv'
<1> DEFINE run == [phase |-> "digest", batch |-> b, cursor |-> NoSignal,
                   streamed |-> FALSE, staged |-> 0, seen |-> {}]
<1>1. /\ batches[b] # NoBatch /\ scriptRun' = run
      /\ UNCHANGED <<neon, written, archived, batches, backup, neonResets, archiveCrashes>>
  BY DEF Finish
<1>2. run \in Working /\ run.phase # "frozen"
  BY DEF Working
<1>3. batches[b] \in BatchRows
  BY <1>1 DEF ArchiveInv, ArchiveTypes
<1>4. Cardinality(batches[b].frozen) \in Nat /\ PageSize \in Nat
  BY <1>3, RowsFinite DEF BatchRows, ArchiveAssumption
<1>5. Progress(run, batches[b], neon, archived, written)
  <2>1. run.staged <= Cardinality(batches[b].frozen) + PageSize
    BY <1>4
  <2> QED
    BY <2>1 DEF Progress, Passed
<1>6. RunSound'
  BY <1>1, <1>2, <1>5 DEF RunSound
<1> QED
  BY <1>1, <1>2, <1>6 DEF ArchiveInv, ArchiveTypes, Frozen, DumpSound, VerifiedCovers

(* What a page knows of the batch it belongs to *)
LEMMA AtWork ==
  ASSUME ArchiveAssumption, ArchiveInv, scriptRun.phase \in {"paging", "digest", "verify"}
  PROVE  /\ scriptRun \in Working /\ scriptRun.batch \in Batches /\ batches[scriptRun.batch] \in BatchRows
         /\ batches[scriptRun.batch].frozen \subseteq written
         /\ \A r \in batches[scriptRun.batch].frozen : Upto(r, batches[scriptRun.batch].mark)
         /\ Progress(scriptRun, batches[scriptRun.batch], neon, archived, written)
         /\ Cardinality(batches[scriptRun.batch].frozen) \in Nat /\ PageSize \in Nat
<1>1. scriptRun \in Working
  BY DEF ArchiveInv, ArchiveTypes, NoSession
<1>2. scriptRun.batch \in Batches /\ batches[scriptRun.batch] # NoBatch
  BY <1>1 DEF ArchiveInv, RunSound, Working
<1>3. batches[scriptRun.batch] \in BatchRows
  BY <1>2 DEF ArchiveInv, ArchiveTypes
<1>4. Cardinality(batches[scriptRun.batch].frozen) \in Nat
  BY <1>3, RowsFinite DEF BatchRows
<1> QED
  BY <1>1, <1>2, <1>3, <1>4 DEF ArchiveInv, Frozen, RunSound, ArchiveAssumption

(* A page is staged: what was streamed grows by it. *)
LEMMA PageKeeps ==
  ASSUME ArchiveAssumption, ArchiveInv, Page
  PROVE  ArchiveInv'
<1> DEFINE batch == batches[scriptRun.batch]
           rows == NextPage(scriptRun.cursor, batch.mark)
           staged == scriptRun.staged + Cardinality(rows)
           n == NewestOf(rows)
<1>1. scriptRun.phase = "paging"
  BY DEF Page
<1>2. /\ scriptRun \in Working /\ scriptRun.batch \in Batches /\ batch \in BatchRows
      /\ batch.frozen \subseteq written
      /\ \A r \in batch.frozen : Upto(r, batch.mark)
      /\ Progress(scriptRun, batch, neon, archived, written)
      /\ Cardinality(batch.frozen) \in Nat /\ PageSize \in Nat
  BY <1>1, AtWork
<1>3. neon \subseteq written /\ written \subseteq Signals /\ archived \subseteq written
  BY DEF ArchiveInv, ArchiveTypes
<1>4. /\ scriptRun.cursor \in Signals \cup {NoSignal} /\ batch.mark \in Signals /\ scriptRun.staged \in Nat
      /\ scriptRun.seen = {} /\ scriptRun.streamed
  BY <1>1, <1>2 DEF Working, BatchRows, Progress
<1>5. /\ rows \subseteq neon /\ \A r \in rows : Upto(r, batch.mark) /\ ~Passed(scriptRun.cursor, r)
      /\ rows = {} => \A r \in neon : Upto(r, batch.mark) => Passed(scriptRun.cursor, r)
      /\ rows # {} =>
            /\ n \in rows
            /\ \A r \in rows : Passed(n, r)
            /\ \A r \in Signals : Passed(scriptRun.cursor, r) => Passed(n, r)
            /\ \A r \in neon : Upto(r, batch.mark) /\ Passed(n, r) => Passed(scriptRun.cursor, r) \/ r \in rows
  BY <1>3, <1>4, PageCovers
<1>6. PICK T \in SUBSET archived :
         /\ Cardinality(T) = scriptRun.staged
         /\ \A t \in T : Upto(t, batch.mark) /\ Passed(scriptRun.cursor, t)
         /\ \A r \in batch.frozen \cap neon : Passed(scriptRun.cursor, r) => r \in T
  <2>1. Streamed(scriptRun, batch, neon, archived)
    BY <1>2, <1>4 DEF Progress
  <2> QED
    BY <1>1, <2>1 DEF Streamed
<1>7. /\ archived' = archived \cup rows
      /\ UNCHANGED <<neon, written, batches, backup, neonResets, archiveCrashes>>
      /\ scriptRun' = IF rows = {} THEN [scriptRun EXCEPT !.phase = "digest", !.cursor = NoSignal]
                      ELSE IF staged > Cardinality(batch.frozen) + PageSize THEN NoSession
                      ELSE [scriptRun EXCEPT !.cursor = n, !.staged = staged]
  BY DEF Page
<1> HIDE DEF batch, rows, n, staged
<1>8. archived \subseteq archived' /\ archived' \subseteq written
  BY <1>3, <1>5, <1>7
<1>9. CASE rows # {} /\ staged > Cardinality(batch.frozen) + PageSize
  <2>1. scriptRun' = NoSession
    BY <1>7, <1>9
  <2> QED
    BY <1>7, <1>8, <2>1, EndKeeps DEF ArchiveInv, ArchiveTypes
<1>10. ASSUME scriptRun' \in Working, scriptRun'.batch = scriptRun.batch, scriptRun'.phase \in {"paging", "digest"},
              Progress(scriptRun', batch, neon, archived', written)
       PROVE  ArchiveInv'
  <2>1. batches[scriptRun.batch] # NoBatch
    BY <1>2 DEF ArchiveInv, RunSound
  <2>2. RunSound'
    BY <1>7, <1>10, <2>1 DEF RunSound, batch
  <2> QED
    BY <1>7, <1>8, <1>10, <2>2 DEF ArchiveInv, ArchiveTypes, Frozen, DumpSound, VerifiedCovers
<1>11. CASE rows = {}
  <2>1. /\ scriptRun' \in Working /\ scriptRun'.batch = scriptRun.batch /\ scriptRun'.phase = "digest"
        /\ scriptRun'.cursor = NoSignal /\ scriptRun'.streamed /\ scriptRun'.seen = {}
        /\ scriptRun'.staged = scriptRun.staged
    BY <1>2, <1>4, <1>7, <1>11 DEF Working
  <2>2. Streamed(scriptRun', batch, neon, archived')
    <3>1. /\ T \in SUBSET archived' /\ Cardinality(T) = scriptRun'.staged
          /\ \A t \in T : Upto(t, batch.mark)
          /\ \A r \in batch.frozen \cap neon : r \in T
      BY <1>2, <1>5, <1>6, <1>8, <1>11, <2>1
    <3> QED
      BY <2>1, <3>1 DEF Streamed
  <2>3. Progress(scriptRun', batch, neon, archived', written)
    BY <1>2, <2>1, <2>2 DEF Progress, Passed
  <2> QED
    BY <1>10, <2>1, <2>3
<1>12. CASE rows # {} /\ ~(staged > Cardinality(batch.frozen) + PageSize)
  <2>1. IsFiniteSet(T) /\ IsFiniteSet(rows) /\ Cardinality(rows) \in Nat
    BY <1>3, <1>5, RowsFinite
  <2>2. staged \in Nat /\ staged <= Cardinality(batch.frozen) + PageSize
    BY <1>2, <1>4, <1>12, <2>1 DEF staged
  <2>3. n \in Signals
    BY <1>3, <1>5, <1>12
  <2>4. /\ scriptRun' \in Working /\ scriptRun'.batch = scriptRun.batch /\ scriptRun'.phase = "paging"
        /\ scriptRun'.cursor = n /\ scriptRun'.streamed /\ scriptRun'.seen = {}
        /\ scriptRun'.staged = staged
    BY <1>1, <1>2, <1>4, <1>7, <1>12, <2>2, <2>3 DEF Working
  <2>5. Cardinality(T \cup rows) = staged
    <3>1. T \cap rows = {}
      BY <1>5, <1>6
    <3>2. Cardinality(T \cup rows) = Cardinality(T) + Cardinality(rows) - Cardinality(T \cap rows)
      BY <2>1, FS_Union
    <3>3. Cardinality(T \cap rows) = 0
      BY <3>1, FS_EmptySet
    <3> QED
      BY <1>4, <1>6, <2>1, <3>2, <3>3 DEF staged
  <2>6. T \cup rows \in SUBSET archived'
    BY <1>7
  <2>7. \A t \in T \cup rows : Upto(t, batch.mark) /\ Passed(n, t)
    BY <1>3, <1>5, <1>6, <1>12
  <2>8. \A r \in batch.frozen \cap neon : Passed(n, r) => r \in T \cup rows
    BY <1>2, <1>5, <1>6, <1>12
  <2>9. Streamed(scriptRun', batch, neon, archived')
    BY <2>4, <2>5, <2>6, <2>7, <2>8 DEF Streamed
  <2>10. Progress(scriptRun', batch, neon, archived', written)
    BY <2>2, <2>4, <2>9 DEF Progress
  <2> QED
    BY <1>10, <2>4, <2>10
<1> QED
  BY <1>9, <1>11, <1>12

(* The digest has seen what lies before its cursor. *)
LEMMA DigestKeeps ==
  ASSUME ArchiveAssumption, ArchiveInv, DigestPage
  PROVE  ArchiveInv'
<1> DEFINE batch == batches[scriptRun.batch]
           rows == NextPage(scriptRun.cursor, batch.mark)
           n == NewestOf(rows)
<1>1. scriptRun.phase = "digest"
  BY DEF DigestPage
<1>2. /\ scriptRun \in Working /\ scriptRun.batch \in Batches /\ batch \in BatchRows
      /\ batch.frozen \subseteq written
      /\ \A r \in batch.frozen : Upto(r, batch.mark)
      /\ Progress(scriptRun, batch, neon, archived, written)
  BY <1>1, AtWork
<1>3. neon \subseteq written /\ written \subseteq Signals /\ archived \subseteq written
  BY DEF ArchiveInv, ArchiveTypes
<1>4. scriptRun.cursor \in Signals \cup {NoSignal} /\ batch.mark \in Signals
  BY <1>1, <1>2 DEF Working, BatchRows
<1>5. /\ rows \subseteq neon /\ \A r \in rows : Upto(r, batch.mark) /\ ~Passed(scriptRun.cursor, r)
      /\ rows = {} => \A r \in neon : Upto(r, batch.mark) => Passed(scriptRun.cursor, r)
      /\ rows # {} =>
            /\ n \in rows
            /\ \A r \in rows : Passed(n, r)
            /\ \A r \in Signals : Passed(scriptRun.cursor, r) => Passed(n, r)
            /\ \A r \in neon : Upto(r, batch.mark) /\ Passed(n, r) => Passed(scriptRun.cursor, r) \/ r \in rows
  BY <1>3, <1>4, PageCovers
<1>6. /\ UNCHANGED <<neon, written, archived, batches, backup, neonResets, archiveCrashes>>
      /\ scriptRun' = IF rows = {} THEN [scriptRun EXCEPT !.phase = "verify"]
                      ELSE [scriptRun EXCEPT !.cursor = n, !.seen = @ \cup rows]
  BY DEF DigestPage
<1>7. /\ scriptRun.seen \subseteq written /\ \A r \in scriptRun.seen : Upto(r, batch.mark)
      /\ \A r \in batch.frozen \cap neon : Passed(scriptRun.cursor, r) => r \in scriptRun.seen
      /\ scriptRun.staged <= Cardinality(batch.frozen) + PageSize
      /\ scriptRun.streamed => Streamed(scriptRun, batch, neon, archived)
  BY <1>1, <1>2 DEF Progress
<1> HIDE DEF batch, rows, n
<1>8. /\ scriptRun' \in Working /\ scriptRun'.batch = scriptRun.batch /\ scriptRun'.phase \in {"digest", "verify"}
      /\ scriptRun'.streamed = scriptRun.streamed /\ scriptRun'.staged = scriptRun.staged
  <2>1. rows # {} => n \in Signals
    BY <1>3, <1>5
  <2>2. scriptRun.seen \cup rows \in SUBSET Signals
    BY <1>3, <1>5, <1>7
  <2>3. CASE rows = {}
    BY <1>2, <1>6, <2>3 DEF Working
  <2>4. CASE rows # {}
    BY <1>1, <1>2, <1>6, <2>1, <2>2, <2>4 DEF Working
  <2> QED
    BY <2>3, <2>4
<1>9. scriptRun'.streamed => Streamed(scriptRun', batch, neon, archived)
  BY <1>1, <1>7, <1>8 DEF Streamed
<1>10. /\ scriptRun'.seen \subseteq written /\ \A r \in scriptRun'.seen : Upto(r, batch.mark)
       /\ scriptRun'.phase = "digest" =>
             \A r \in batch.frozen \cap neon : Passed(scriptRun'.cursor, r) => r \in scriptRun'.seen
       /\ scriptRun'.phase = "verify" => batch.frozen \cap neon \subseteq scriptRun'.seen
  <2>1. CASE rows = {}
    <3>1. scriptRun'.phase = "verify" /\ scriptRun'.seen = scriptRun.seen
      BY <1>2, <1>6, <2>1 DEF Working
    <3> QED
      BY <1>2, <1>5, <1>7, <2>1, <3>1
  <2>2. CASE rows # {}
    <3>1. scriptRun'.phase = "digest" /\ scriptRun'.seen = scriptRun.seen \cup rows /\ scriptRun'.cursor = n
      BY <1>1, <1>2, <1>6, <2>2 DEF Working
    <3>2. \A r \in batch.frozen \cap neon : Passed(n, r) => r \in scriptRun.seen \cup rows
      BY <1>2, <1>5, <1>7, <2>2
    <3> QED
      BY <1>3, <1>5, <1>7, <3>1, <3>2
  <2> QED
    BY <2>1, <2>2
<1>11. Progress(scriptRun', batch, neon, archived, written)
  BY <1>7, <1>8, <1>9, <1>10 DEF Progress
<1>12. RunSound'
  <2>1. batches[scriptRun.batch] # NoBatch
    BY <1>2 DEF ArchiveInv, RunSound
  <2> QED
    BY <1>6, <1>8, <1>11, <2>1 DEF RunSound, batch
<1> QED
  BY <1>6, <1>8, <1>12 DEF ArchiveInv, ArchiveTypes, Frozen, DumpSound, VerifiedCovers

(* A verdict rests on what the digest saw and what the archive holds. *)
LEMMA VerifyKeeps ==
  ASSUME ArchiveAssumption, ArchiveInv, Verify
  PROVE  ArchiveInv'
<1> DEFINE b == scriptRun.batch
           batch == batches[b]
<1>1. /\ scriptRun.phase = "verify" /\ scriptRun' = NoSession
      /\ UNCHANGED <<neon, written, archived, backup, neonResets, archiveCrashes>>
  BY DEF Verify
<1>2. /\ b \in Batches /\ batch \in BatchRows /\ scriptRun \in Working
      /\ Progress(scriptRun, batch, neon, archived, written)
  BY <1>1, AtWork
<1>3. CASE batches' = batches
  BY <1>1, <1>3, EndKeeps DEF ArchiveInv, ArchiveTypes
<1>4. ASSUME NEW status \in {"VERIFIED", "FAILED"}, batches' = [batches EXCEPT ![b].status = status],
             status = "VERIFIED" => Agrees(batch)
      PROVE  ArchiveInv'
  <2>1. batch # NoBatch
    BY <1>2 DEF ArchiveInv, RunSound
  <2>2. /\ batches'[b] \in BatchRows /\ batches'[b].status = status
        /\ batches'[b].mark = batch.mark /\ batches'[b].frozen = batch.frozen
        /\ \A c \in Batches \ {b} : batches'[c] = batches[c]
    BY <1>2, <1>4 DEF ArchiveInv, ArchiveTypes, BatchRows
  <2>3. batches'[b] # NoBatch
    BY <2>2 DEF NoBatch
  <2>4. batches' \in [Batches -> BatchRows \cup {NoBatch}]
    <3>1. \A c \in Batches : batches'[c] \in BatchRows \cup {NoBatch}
      BY <2>2 DEF ArchiveInv, ArchiveTypes
    <3>2. batches' = [c \in Batches |-> batches'[c]]
      BY <1>4 DEF ArchiveInv, ArchiveTypes
    <3> QED
      BY <3>1, <3>2
  <2>5. ArchiveTypes'
    BY <1>1, <2>4 DEF ArchiveInv, ArchiveTypes
  <2>6. Frozen'
    BY <1>1, <2>1, <2>2 DEF ArchiveInv, Frozen
  <2>7. RunSound'
    BY <1>1 DEF RunSound, Working, NoSession
  <2>8. DumpSound'
    <3>1. ASSUME backup # NoDump PROVE backup.batch \in Batches
      BY <3>1 DEF ArchiveInv, ArchiveTypes, Dumps
    <3> QED
      BY <1>1, <2>2, <2>3, <3>1 DEF ArchiveInv, DumpSound
  <2>9. status = "VERIFIED" => batch.frozen \cap neon \subseteq archived
    BY <1>1, <1>2, <1>4 DEF Progress, Agrees, Received
  <2>10. VerifiedCovers'
    BY <1>1, <2>2, <2>9 DEF ArchiveInv, VerifiedCovers
  <2> QED
    BY <1>1, <2>5, <2>6, <2>7, <2>8, <2>10 DEF ArchiveInv
<1>5. \/ batches' = batches
      \/ batches' = [batches EXCEPT ![b].status = "VERIFIED"] /\ Agrees(batch)
      \/ batches' = [batches EXCEPT ![b].status = "FAILED"]
  BY DEF Verify
<1> QED
  BY <1>3, <1>4, <1>5

LEMMA BackupKeeps ==
  ASSUME ArchiveAssumption, ArchiveInv, RestoreCheck \/ \E b \in Batches : Dump(b)
  PROVE  ArchiveInv'
<1>1. UNCHANGED <<neon, written, archived, batches, scriptRun, neonResets, archiveCrashes>>
  BY DEF RestoreCheck, Dump
<1>2. ASSUME backup' \in Dumps \cup {NoDump}, DumpSound' PROVE ArchiveInv'
  BY <1>1, <1>2 DEF ArchiveInv, ArchiveTypes, Frozen, RunSound, VerifiedCovers
<1>3. ASSUME NEW b \in Batches, Dump(b) PROVE ArchiveInv'
  <2>1. batches[b].status = "VERIFIED" /\ backup' = [phase |-> "dumped", batch |-> b, rows |-> archived]
    BY <1>3 DEF Dump
  <2>2. batches[b] # NoBatch /\ batches[b].frozen \cap neon \subseteq archived
    BY <2>1 DEF ArchiveInv, VerifiedCovers, NoBatch
  <2>3. backup' \in Dumps
    BY <2>1 DEF ArchiveInv, ArchiveTypes, Dumps
  <2> QED
    BY <1>1, <1>2, <2>1, <2>2, <2>3 DEF DumpSound
<1>4. CASE RestoreCheck
  <2>1. backup.phase = "dumped" /\ (backup' = [backup EXCEPT !.phase = "accepted"] \/ backup' = NoDump)
    BY <1>4 DEF RestoreCheck
  <2>2. backup \in Dumps /\ backup # NoDump
    BY <2>1 DEF ArchiveInv, ArchiveTypes, NoDump
  <2>3. CASE backup' = NoDump
    BY <1>2, <2>3 DEF DumpSound
  <2>4. CASE backup' = [backup EXCEPT !.phase = "accepted"]
    <3>1. backup' \in Dumps /\ backup'.batch = backup.batch /\ backup'.rows = backup.rows
      BY <2>2, <2>4 DEF Dumps
    <3>2. DumpSound'
      BY <1>1, <2>2, <3>1 DEF ArchiveInv, DumpSound
    <3> QED
      BY <1>2, <3>1, <3>2
  <2> QED
    BY <2>1, <2>3, <2>4
<1> QED
  BY <1>3, <1>4

LEMMA ArchiveSteps == ArchiveAssumption /\ ArchiveInv /\ [ArchiveNext]_archiveVars => ArchiveInv'
<1> SUFFICES ASSUME ArchiveAssumption, ArchiveInv, [ArchiveNext]_archiveVars PROVE ArchiveInv'
  OBVIOUS
<1>1. ASSUME NEW r \in Signals, SignalWritten(r) PROVE ArchiveInv'
  <2>1. neon \subseteq written /\ written \subseteq Signals /\ neonResets \in Nat /\ (neonResets = 0 => neon = written)
    BY DEF ArchiveInv, ArchiveTypes
  <2> QED
    BY <1>1, <2>1, SourceMoves DEF SignalWritten
<1>2. CASE AccountReset
  <2>1. written \subseteq Signals /\ neonResets + 1 \in Nat /\ neonResets + 1 # 0
    BY DEF ArchiveInv, ArchiveTypes
  <2> QED
    BY <1>2, <2>1, SourceMoves DEF AccountReset
<1>3. CASE ScriptDies
  BY <1>3, EndKeeps DEF ScriptDies, ArchiveInv, ArchiveTypes
<1>4. CASE UNCHANGED archiveVars
  BY <1>4 DEF archiveVars, ArchiveInv, ArchiveTypes, Frozen, RunSound, DumpSound, VerifiedCovers
<1> QED
  BY <1>1, <1>2, <1>3, <1>4, FreezeKeeps, ManifestKeeps, FinishKeeps, PageKeeps, DigestKeeps, VerifyKeeps, BackupKeeps
     DEF ArchiveNext

(* What the invariant comes to *)
LEMMA ArchiveIsSound == ArchiveAssumption /\ ArchiveInv => ArchiveTypeOK /\ VerifiedCovers /\ BackupCovers
<1> SUFFICES ASSUME ArchiveAssumption, ArchiveInv PROVE ArchiveTypeOK /\ BackupCovers
  BY DEF ArchiveInv
<1>1. \A b \in Batches : batches[b].status \in {"none", "ARCHIVING", "VERIFIED", "FAILED"}
  BY DEF ArchiveInv, ArchiveTypes, BatchRows, NoBatch
<1>2. scriptRun.phase \in {"idle", "frozen", "paging", "digest", "verify"}
  BY DEF ArchiveInv, ArchiveTypes, Working, NoSession
<1>3. backup.phase \in {"none", "dumped", "accepted"} /\ (backup.phase = "accepted" => backup # NoDump)
  BY DEF ArchiveInv, ArchiveTypes, Dumps, NoDump
<1>4. scriptRun.phase \in {"paging", "digest", "verify"} =>
          scriptRun.staged <= Cardinality(batches[scriptRun.batch].frozen) + PageSize
  BY AtWork DEF Progress
<1> QED
  BY <1>1, <1>2, <1>3, <1>4 DEF ArchiveInv, ArchiveTypes, ArchiveTypeOK, BackupCovers, DumpSound

(* An undisturbed run has seen, staged and archived exactly what was frozen. *)
LEMMA CleanSteps ==
  ASSUME ArchiveAssumption, ArchiveInv, [ArchiveNext]_archiveVars, NEW b \in Batches,
         scriptRun.phase = "verify", scriptRun'.phase = "idle", archiveCrashes' = archiveCrashes,
         scriptRun.streamed, scriptRun.batch = b,
         {r \in neon : Upto(r, batches[b].mark)} = batches[b].frozen,
         Received(batches[b].mark) \subseteq batches[b].frozen, neonResets = 0
  PROVE  batches'[b].status = "VERIFIED"
<1> DEFINE batch == batches[b]
           there == Received(batch.mark)
<1>1. Verify
  <2>1. archiveCrashes \in Nat
    BY DEF ArchiveInv, ArchiveTypes
  <2>2. ~ScriptDies /\ ~UNCHANGED archiveVars
    BY <2>1 DEF ScriptDies, archiveVars
  <2> QED
    BY <2>2 DEF ArchiveNext, SignalWritten, AccountReset, Freeze, Manifest, Page, DigestPage, RestoreCheck, Finish,
                Dump, NoSession
<1>2. /\ batch \in BatchRows /\ batch.frozen \subseteq written
      /\ \A r \in batch.frozen : Upto(r, batch.mark)
      /\ Progress(scriptRun, batch, neon, archived, written)
  BY AtWork
<1>3. batch.frozen # {} /\ neon = written /\ archived \subseteq written /\ written \subseteq Signals
      /\ batches \in [Batches -> BatchRows \cup {NoBatch}]
  BY AtWork DEF ArchiveInv, ArchiveTypes, RunSound, Frozen
<1>4. scriptRun.seen = batch.frozen
  BY <1>2, <1>3 DEF Progress
<1>5. PICK T \in SUBSET archived :
         /\ Cardinality(T) = scriptRun.staged
         /\ \A t \in T : Upto(t, batch.mark)
         /\ \A r \in batch.frozen \cap neon : r \in T
  BY <1>2 DEF Progress, Streamed
<1>6. T = batch.frozen
  BY <1>2, <1>3, <1>5
<1>7. there = batch.frozen
  <2>1. \A r \in batch.frozen : r[1] <= batch.mark[1]
    BY <1>2, <1>3, UptoOrders DEF BatchRows
  <2> QED
    BY <1>5, <1>6, <2>1 DEF Received
<1>8. Agrees(batch)
  BY <1>4, <1>5, <1>6, <1>7 DEF Agrees
<1> QED
  BY <1>1, <1>3, <1>7, <1>8 DEF Verify

(* Whatever is written, reset or cut off meanwhile, a batch that is called verified, and a backup that *)
(* was accepted, hold all that was frozen and is still in the source; and an undisturbed run verifies, *)
(* whatever the size of a page.                                                                        *)
THEOREM ArchiveHolds == ArchiveSpec => [](ArchiveTypeOK /\ VerifiedCovers /\ BackupCovers) /\ CleanRunVerifies
<1>1. ArchiveInit => ArchiveInv
  BY ArchiveStarts, ArchiveAssumption
<1>2. ArchiveInv /\ [ArchiveNext]_archiveVars => ArchiveInv'
  BY ArchiveSteps, ArchiveAssumption
<1>3. ArchiveInv => ArchiveTypeOK /\ VerifiedCovers /\ BackupCovers
  BY ArchiveIsSound, ArchiveAssumption
<1>4. ArchiveInv /\ [ArchiveNext]_archiveVars =>
        [\A b \in Batches :
          /\ scriptRun.phase = "verify" /\ scriptRun'.phase = "idle" /\ archiveCrashes' = archiveCrashes
          /\ scriptRun.streamed /\ scriptRun.batch = b
          /\ {r \in neon : Upto(r, batches[b].mark)} = batches[b].frozen
          /\ Received(batches[b].mark) \subseteq batches[b].frozen
          /\ neonResets = 0
          => batches'[b].status = "VERIFIED"]_archiveVars
  BY CleanSteps, ArchiveAssumption
<1> QED
  BY <1>1, <1>2, <1>3, <1>4, PTL DEF ArchiveSpec, CleanRunVerifies

=============================================================================
