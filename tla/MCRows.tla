-------------------------------- MODULE MCRows --------------------------------
(* What the rows of the database promise: the trades and the account, the report
   that the edge is learned from, the gate advised from closed trades, the users, the
   grid that was asked for, the halt flag between operators and engines, and the schema
   under a rollout.  They meet only in what is stored, so one of them moves in each
   behaviour. *)
EXTENDS TradeStore, EdgeLoop, Accounts, GridPlan, HaltTool, Deploy, Advice, TLC
CONSTANT s1
VARIABLE focus

rowSystem == <<focus, vars, edgeVars, accountVars, planVars, haltVars, deployVars, adviceVars>>

(* EdgeLoop: a strong and a weak agent, and a regime that shuts the weak one out *)
TwoAgents == {"Trend", "MeanRev"}
SomeWeights == [a \in TwoAgents |-> IF a = "Trend" THEN 1000 ELSE 800]
SomeVotes == {-10, 0, 10}
SomeGates == {[a \in TwoAgents |-> 100], [a \in TwoAgents |-> IF a = "Trend" THEN 130 ELSE 0]}
SomeOutcomes == {[net |-> 2, gross |-> 3], [net |-> -8, gross |-> 1]}

(* Deploy: three versions; each alters what the one before created *)
SomeScripts == <<<<"trades">>, <<"trades", "epoch">>, <<"trades", "epoch", "index">>>>
SomeReferences == "trades" :> {} @@ "epoch" :> {"trades"} @@ "index" :> {"epoch"}

(* Advice: refused below 60, and traded *)
SomeLadder == <<60, 70>>
SomeEarned == {-1, 2}

RowsInit ==
    /\ focus \in {"store", "edge", "accounts", "grid", "halt", "deploy", "advice"}
    /\ Init /\ EdgeInit /\ AccountsInit /\ PlanInit /\ HaltInit /\ DeployInit /\ AdviceInit
    /\ IF focus = "halt" THEN Rows(haltRow) # {"u2"} ELSE Rows(haltRow) = {}  \* accounts are alike
    /\ focus # "store" => ordered
    /\ focus # "accounts" => owners = {}
    /\ focus # "grid" => \A m \in Marks : mark <= m

RowsNext ==
    /\ \/ focus = "store" /\ Next /\ UNCHANGED <<edgeVars, accountVars, planVars, haltVars, deployVars, adviceVars>>
       \/ focus = "edge" /\ EdgeNext /\ UNCHANGED <<vars, accountVars, planVars, haltVars, deployVars, adviceVars>>
       \/ focus = "accounts" /\ AccountsNext /\ UNCHANGED <<vars, edgeVars, planVars, haltVars, deployVars, adviceVars>>
       \/ focus = "grid" /\ PlanNext /\ UNCHANGED <<vars, edgeVars, accountVars, haltVars, deployVars, adviceVars>>
       \/ /\ focus = "halt" /\ HaltNext
          /\ toolRuns'["bob"] <= toolRuns'["ann"]     \* operators are alike
          /\ haltResets' + verdictsSaid' <= 1         \* a verdict has no part in a reset
          /\ UNCHANGED <<vars, edgeVars, accountVars, planVars, deployVars, adviceVars>>
       \/ focus = "deploy" /\ DeployNext /\ UNCHANGED <<vars, edgeVars, accountVars, planVars, haltVars, adviceVars>>
       \/ focus = "advice" /\ AdviceNext /\ UNCHANGED <<vars, edgeVars, accountVars, planVars, haltVars, deployVars>>
    /\ UNCHANGED focus

RowsSpec == RowsInit /\ [][RowsNext]_rowSystem
(* No operator lifts a flag here: what is missing in the row, the engine did not write *)
BreachSpec == RowsInit /\ focus = "store" /\ [][RowsNext /\ ~OperatorHalt /\ ~OperatorResume]_rowSystem
=============================================================================
