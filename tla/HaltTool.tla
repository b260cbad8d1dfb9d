------------------------------ MODULE HaltTool ------------------------------
(***************************************************************************)
(* The operator's switch (scripts/halt-trading.mjs) against everything     *)
(* else that writes or reads paper_accounts.halted: an engine that closes  *)
(* trades (persistCloseTrade), hits its drawdown limit and boots in two    *)
(* steps (loadBootState, hydrate), a reset of the account, another         *)
(* operator, and the Signal Court, whose latest verdict gates a resume.    *)
(*                                                                         *)
(* One hypothesis is asked about, the epoch that the engines trade, and    *)
(* one engine at a time drives an account (HandOver has the others).       *)
(***************************************************************************)
EXTENDS Naturals, FiniteSets

CONSTANTS
    Traders,       \* accounts
    Operators,     \* people who run the script
    Verdicts,      \* what the court may say, "CONVICTED" among it
    Unjudged,      \* no verdict, no run, no value
    MaxToolRuns,   \* bound: runs of the script by each operator
    MaxEngineRuns, \* bound: boots
    MaxVerdicts,   \* bound: verdicts
    MaxHaltResets  \* bound: resets

ASSUME HaltToolAssumption ==
    /\ "CONVICTED" \in Verdicts /\ Unjudged \notin Verdicts /\ Unjudged \notin Traders
    /\ Unjudged \notin BOOLEAN /\ IsFiniteSet(Traders)
    /\ {MaxToolRuns, MaxEngineRuns, MaxVerdicts, MaxHaltResets} \subseteq Nat

VARIABLES haltRow,    \* paper_accounts.halted; Unjudged where the account has no row
          engine,     \* per account: [phase, flag, late]; late is history
          verdict,    \* the latest in court_verdicts
          toolRun,    \* per operator: the run of the script
          everConvicted, \* history: CONVICTED has been the latest
          toolRuns, engineRuns, verdictsSaid, haltResets

courtVars == <<verdict, everConvicted, verdictsSaid>>
haltVars == <<haltRow, engine, courtVars, toolRun, toolRuns, engineRuns, haltResets>>

Down == [phase |-> "down", flag |-> FALSE, late |-> FALSE]
Idle == [phase |-> "idle", mode |-> "halt", named |-> Unjudged, override |-> "absent",
         gate |-> "shut", seen |-> [t \in Traders |-> Unjudged], exit |-> 0]

(* What follows --override-court: one more flag, or a reason.  Where nothing follows the
   script ends as without it. *)
Overrides == {"absent", "flag", "reason"}

HaltInit ==
    /\ haltRow \in [Traders -> {FALSE, Unjudged}]
    /\ engine = [t \in Traders |-> Down]
    /\ verdict = Unjudged /\ everConvicted = FALSE
    /\ toolRun = [o \in Operators |-> Idle]
    /\ toolRuns = [o \in Operators |-> 0]
    /\ engineRuns = 0 /\ verdictsSaid = 0 /\ haltResets = 0

Rows(row) == {t \in Traders : row[t] # Unjudged}

----------------------------------------------------------------------------
(* The engine and the court *)

(* A boot reads the row, or inserts it, and hydrates from it later *)
BeginBoot(t) ==
    /\ engine[t].phase = "down" /\ engineRuns < MaxEngineRuns
    /\ LET stored == IF haltRow[t] = Unjudged THEN FALSE ELSE haltRow[t]
       IN  /\ engine' = [engine EXCEPT ![t] = [phase |-> "booting", flag |-> stored, late |-> FALSE]]
           /\ haltRow' = [haltRow EXCEPT ![t] = stored]
    /\ engineRuns' = engineRuns + 1
    /\ UNCHANGED <<courtVars, toolRun, toolRuns, haltResets>>
Hydrated(t) ==
    /\ engine[t].phase = "booting"
    /\ engine' = [engine EXCEPT ![t].phase = "up"]
    /\ UNCHANGED <<haltRow, courtVars, toolRun, toolRuns, engineRuns, haltResets>>
StopEngine(t) ==
    /\ engine[t].phase # "down"
    /\ engine' = [engine EXCEPT ![t] = Down]
    /\ UNCHANGED <<haltRow, courtVars, toolRun, toolRuns, engineRuns, haltResets>>

Closed(stored, flag) == stored \/ flag

(* closePosition and persistCloseTrade, which carries the flag from before the drawdown
   limit is compared *)
EngineCloses(t, breach) ==
    /\ engine[t].phase = "up"
    /\ haltRow' = [haltRow EXCEPT ![t] = Closed(@, engine[t].flag)]
    /\ engine' = [engine EXCEPT ![t].flag = @ \/ breach]
    /\ UNCHANGED <<courtVars, toolRun, toolRuns, engineRuns, haltResets>>

(* resetAccount and the broker's reset, by hand *)
ResetHalt(t) ==
    /\ engine[t].phase = "up" /\ haltResets < MaxHaltResets
    /\ haltRow' = [haltRow EXCEPT ![t] = FALSE]
    /\ engine' = [engine EXCEPT ![t].flag = FALSE, ![t].late = FALSE]
    /\ haltResets' = haltResets + 1
    /\ UNCHANGED <<courtVars, toolRun, toolRuns, engineRuns>>

Judge(v) ==
    /\ verdictsSaid < MaxVerdicts
    /\ verdict' = v /\ verdict' # verdict
    /\ everConvicted' = (everConvicted \/ v = "CONVICTED")
    /\ verdictsSaid' = verdictsSaid + 1
    /\ UNCHANGED <<haltRow, engine, toolRun, toolRuns, engineRuns, haltResets>>

----------------------------------------------------------------------------
(* The script *)

Convicts(v) == v = "CONVICTED"

Ends(o, code) == toolRun' = [toolRun EXCEPT ![o] = [Idle EXCEPT !.phase = "ended", !.exit = code]]

(* The account that is meant: the one that is named, else the only one there was *)
TargetOf(run) ==
    IF run.named # Unjudged THEN run.named
    ELSE IF Cardinality(Rows(run.seen)) = 1 THEN CHOOSE t \in Rows(run.seen) : TRUE ELSE Unjudged

(* The rows are read, after which --status does nothing more *)
StartTool(o, mode, named, override) ==
    /\ toolRun[o].phase \in {"idle", "ended"} /\ toolRuns[o] < MaxToolRuns
    /\ toolRuns' = [toolRuns EXCEPT ![o] = @ + 1]
    /\ IF Rows(haltRow) = {} THEN Ends(o, 1)
       ELSE toolRun' = [toolRun EXCEPT ![o] =
               [phase |-> IF mode = "resume" THEN "gate" ELSE "scope", mode |-> mode, named |-> named,
                override |-> override, gate |-> "shut", seen |-> haltRow, exit |-> 0]]
    /\ UNCHANGED <<haltRow, engine, courtVars, engineRuns, haltResets>>

(* The gate of a resume.  A failed query reads as no verdict, and what follows
   --override-court is the reason, whatever it is. *)
AskCourt(o) ==
    /\ toolRun[o].phase = "gate"
    /\ \E answer \in {verdict, Unjudged} :
          IF Convicts(answer)
          THEN toolRun' = [toolRun EXCEPT ![o].phase = "scope", ![o].gate = "convicted"]
          ELSE IF toolRun[o].override \in {"flag", "reason"}
          THEN toolRun' = [toolRun EXCEPT ![o].phase = "scope", ![o].gate = "overridden"]
          ELSE Ends(o, 3)
    /\ UNCHANGED <<haltRow, engine, courtVars, toolRuns, engineRuns, haltResets>>

(* Several accounts and none is named, or the one that is named does not exist *)
NoTarget(o) ==
    /\ toolRun[o].phase = "scope" /\ TargetOf(toolRun[o]) \notin Rows(toolRun[o].seen)
    /\ Ends(o, 1)
    /\ UNCHANGED <<haltRow, engine, courtVars, toolRuns, engineRuns, haltResets>>

Unmoved_Unchecked(t, run) == TRUE
Unmoved(t, run) == haltRow[t] = run.seen[t]

(* UPDATE ... WHERE halted = observed.  `late` marks a flag that was set while an
   engine was up or had read the row. *)
CompareAndSet(o) ==
    /\ toolRun[o].phase = "scope"
    /\ LET t == TargetOf(toolRun[o]) IN
       /\ t \in Rows(toolRun[o].seen)
       /\ IF Unmoved(t, toolRun[o])
          THEN /\ haltRow' = [haltRow EXCEPT ![t] = (toolRun[o].mode = "halt")]
               /\ engine' = [engine EXCEPT ![t].late = @ \/ engine[t].phase # "down"]
               /\ toolRun' = [toolRun EXCEPT ![o].phase = "verify"]
          ELSE /\ toolRun' = [toolRun EXCEPT ![o].phase = "reread"]
               /\ UNCHANGED <<haltRow, engine>>
    /\ UNCHANGED <<courtVars, toolRuns, engineRuns, haltResets>>

(* After an update of no row: somebody did it already, or a concurrent write.  After an
   update: whether it stuck. *)
LookAgain(o) ==
    /\ toolRun[o].phase \in {"reread", "verify"}
    /\ Ends(o, IF haltRow[TargetOf(toolRun[o])] = (toolRun[o].mode = "halt") THEN 0 ELSE 1)
    /\ UNCHANGED <<haltRow, engine, courtVars, toolRuns, engineRuns, haltResets>>

HaltNext ==
    \/ \E t \in Traders :
          \/ BeginBoot(t) \/ Hydrated(t) \/ StopEngine(t) \/ ResetHalt(t)
          \/ \E breach \in BOOLEAN : EngineCloses(t, breach)
    \/ \E v \in Verdicts : Judge(v)
    \/ \E o \in Operators :
          \/ AskCourt(o) \/ NoTarget(o) \/ CompareAndSet(o) \/ LookAgain(o)
          \/ \E named \in Traders \cup {Unjudged} :
                \/ StartTool(o, "halt", named, "absent")
                \/ \E override \in Overrides : StartTool(o, "resume", named, override)

----------------------------------------------------------------------------

(* Every run is somewhere in the script, an engine that has booted has a row, and a run
   that may write has an account and, to resume, has passed the gate (halt-trading.mjs). *)
HaltTypeOK ==
    /\ haltRow \in [Traders -> {TRUE, FALSE, Unjudged}]
    /\ engine \in [Traders -> [phase : {"down", "booting", "up"}, flag : BOOLEAN, late : BOOLEAN]]
    /\ \A t \in Traders : engine[t].phase # "down" => haltRow[t] # Unjudged
    /\ verdict \in Verdicts \cup {Unjudged}
    /\ \A o \in Operators :
          /\ toolRun[o].phase \in {"idle", "gate", "scope", "reread", "verify", "ended"}
          /\ toolRun[o].phase \in {"verify", "reread"} =>
                /\ TargetOf(toolRun[o]) \in Rows(haltRow)
                /\ toolRun[o].mode = "resume" => toolRun[o].gate # "shut"

Lifts(t) == haltRow[t] = TRUE /\ haltRow'[t] = FALSE

(* A halted account is lifted by a reset by hand, or by a resume that named this account
   or knew of no other one, and then only once the court has convicted or the operator
   overrode it: no close, boot or stop lifts it, nor a run about another account
   (persistCloseTrade, loadBootState and halt-trading.mjs). *)
LiftedOnlyThroughTheGate ==
    [][\A t \in Traders : Lifts(t) =>
          \/ haltResets' # haltResets
          \/ \E o \in Operators : LET run == toolRun[o] IN
                /\ run.mode = "resume" /\ toolRun'[o].phase = "verify"
                /\ run.named = t \/ (run.named = Unjudged /\ Rows(run.seen) = {t})
                /\ everConvicted \/ run.override \in {"flag", "reason"}]_haltVars

(* A halt that is raised while a resume is under way, on an account that was trading when
   the resume looked, stands: a drawdown or another operator is not undone by a run that
   never saw it (the compare-and-set on the observed value). *)
LateHaltStands ==
    [][\A t \in Traders : \A o \in Operators :
          Lifts(t) /\ toolRun[o].phase = "scope" /\ toolRun'[o].phase = "verify"
             => toolRun[o].seen[t] = TRUE]_haltVars

(* A run that ends with success has seen the flag at its target after the update, so an
   operator who reads "verified: yes" was not overtaken before the check, and one whose
   update matched no row was not refused either (the two reads at the script's end). *)
SuccessIsTrue ==
    [][\A o \in Operators :
          toolRun[o].phase # "ended" /\ toolRun'[o].phase = "ended" /\ toolRun'[o].exit = 0 =>
             haltRow[TargetOf(toolRun[o])] = (toolRun[o].mode = "halt")]_haltVars

(* Stop, set, start: an engine that trades on while its row says halted was up, or had
   read its row, when the flag was set; any later boot comes up halted. *)
BootHonoursTheHalt ==
    \A t \in Traders :
       engine[t].phase # "down" /\ haltRow[t] = TRUE /\ ~engine[t].flag => engine[t].late

(* "--override-court needs a reason." (the script's refusal): refuted, a flag that
   follows the option is taken for the reason. *)
OverridesHaveAReason ==
    \A o \in Operators : toolRun[o].gate = "overridden" => toolRun[o].override = "reason"

HaltSpec == HaltInit /\ [][HaltNext]_haltVars

(* An operator's halt reaches the next engine, ends only through the gate, is not lost to one
   who lifts an older halt, and success is said only of what was seen. *)
HaltIsKept ==
    [](HaltTypeOK /\ BootHonoursTheHalt) /\ LiftedOnlyThroughTheGate /\ LateHaltStands /\ SuccessIsTrue

=============================================================================
