------------------------------ MODULE GridPlan ------------------------------
(* The geometry and the economics of a grid (src/src/lib/futures-grid.ts): where its
   levels are, whether a step between two of them pays for itself, and which side of
   the market each order is on.  The form derives a range from the mark the browser
   sees (GridPanel.tsx), or a client sends its own; the server refuses what cannot pay
   (grid.functions.ts); the runner builds the lattice around its own mark
   (grid-runtime.ts).  How the row travels between them is GridControl's subject.

   Prices are integers, Unit to the quoted unit, and a fraction is a number of Units:
   10 000 Units are 10 000 bps.  A level of a geometric grid is irrational, so levels
   are compared by cross-multiplying and never computed. *)
EXTENDS Integers
CONSTANTS
    Unit,
    Marks,      \* quoted prices
    Spreads,    \* rangePct, in Units
    Counts,     \* gridCount
    Needs,      \* expectedRoundTripCostBps + minimumNetEdgeBps, in Units
    Bounds      \* prices a client may send as the ends of a range

GridTypes == {"arithmetic", "geometric"}

ASSUME GridPlanAssumption ==
    /\ Unit \in Nat \ {0}
    /\ Marks \subseteq Nat \ {0} /\ Spreads \subseteq Int /\ Counts \subseteq Int
    /\ Needs \subseteq Nat /\ Bounds \subseteq Int

VARIABLES mark,    \* the mark, as the runner and the browser see it
          plan,    \* the configuration the server stored, or NoPlan
          lattice  \* what the engine runs: [plan, mark, side of each order], or NoLattice
planVars == <<mark, plan, lattice>>

NoPlan == [type |-> "none"]
NoLattice == [plan |-> NoPlan]
Plans == [type : GridTypes, lower : Int, upper : Int, count : Int, need : Nat]

-----------------------------------------------------------------------------
(* validateGridConfig *)
Valid(p) == p.lower > 0 /\ p.upper > p.lower /\ p.count >= 2

(* Math.pow *)
Power(b, n) == LET p[k \in Nat] == IF k = 0 THEN 1 ELSE b * p[k - 1] IN p[n]

(* Is level i, of lower, ..., upper, below the price?  Times count, or to its power *)
Level(p, i) == p.lower * p.count + (p.upper - p.lower) * i
Below(p, i, price) ==
    IF p.type = "arithmetic" THEN Level(p, i) < price * p.count
    ELSE Power(p.lower, p.count - i) * Power(p.upper, i) < Power(price, p.count)

(* netGridEdgeBps of a buy at level i sold at level i + 1 *)
Pays(p, i) ==
    IF p.type = "arithmetic" THEN Unit * (Level(p, i + 1) - Level(p, i)) >= p.need * Level(p, i)
    ELSE Power(Unit + p.need, p.count) * p.lower <= Power(Unit, p.count) * p.upper

Steps(p) == 0..(p.count - 1)
AssertGridEconomics_OneStep(p) == Valid(p) /\ Pays(p, 0)
AssertGridEconomics(p) == Valid(p) /\ \A i \in Steps(p) : Pays(p, i)

(* deriveRangeFromMark *)
Derivable(r) == 0 < r /\ r < Unit
DeriveRange(m, r) == [lower |-> m * (Unit - r), upper |-> m * (Unit + r)]

AssertMarkInsideRange(p, price) == p.lower < price /\ price < p.upper

(* createInitialGridState: one order for every level but the top one *)
CreateOrders(p, price) == [i \in Steps(p) |-> IF Below(p, i, price) THEN "Buy" ELSE "Sell"]

-----------------------------------------------------------------------------
PlanInit == mark \in Marks /\ plan = NoPlan /\ lattice = NoLattice

(* The server function: what it cannot refuse it stores *)
Store(p) ==
    /\ AssertGridEconomics(p)
    /\ plan' = p
    /\ UNCHANGED <<mark, lattice>>

SubmitForm(type, r, n, need) ==
    /\ Derivable(r)
    /\ LET range == DeriveRange(mark, r)
       IN  Store([type |-> type, lower |-> range.lower, upper |-> range.upper,
                  count |-> n, need |-> need])

SubmitDirectly(type, lower, upper, n, need) ==
    Store([type |-> type, lower |-> lower, upper |-> upper, count |-> n, need |-> need])

(* reconcile: the runner's mark, the engine's own check of the economics *)
Configure ==
    /\ plan # NoPlan
    /\ AssertMarkInsideRange(plan, mark * Unit)
    /\ AssertGridEconomics(plan)
    /\ lattice' = [plan |-> plan, mark |-> mark, side |-> CreateOrders(plan, mark * Unit)]
    /\ UNCHANGED <<mark, plan>>

MarkMoves == mark' \in Marks /\ UNCHANGED <<plan, lattice>>

PlanNext ==
    \/ \E type \in GridTypes, r \in Spreads, n \in Counts, need \in Needs : SubmitForm(type, r, n, need)
    \/ \E type \in GridTypes, lower, upper \in Bounds, n \in Counts, need \in Needs :
          SubmitDirectly(type, lower, upper, n, need)
    \/ Configure
    \/ MarkMoves
PlanSpec == PlanInit /\ [][PlanNext]_planVars

-----------------------------------------------------------------------------
Running == lattice # NoLattice
Orders(side) == {i \in DOMAIN lattice.side : lattice.side[i] = side}

PlanTypeOK ==
    /\ mark \in Marks
    /\ plan \in Plans \cup {NoPlan}
    /\ Running => /\ lattice.plan \in Plans /\ lattice.mark \in Marks
                  /\ lattice.side \in [Steps(lattice.plan) -> {"Buy", "Sell"}]

(* The runner never has to refuse a stored plan for what it would earn, only for where
   the market is; and every order of a running lattice earns its cost, at the top of
   the range too, where an arithmetic step is thinnest (futures-grid.ts 270-274). *)
EveryOrderPays ==
    /\ plan # NoPlan => AssertGridEconomics(plan)
    /\ Running => \A i \in DOMAIN lattice.side : Pays(lattice.plan, i)

(* A lattice splits the range at its mark: it buys at the bottom, all of its buys are
   under all of its sells, and it sells unless the mark was in the topmost cell. *)
SplitAtTheMark ==
    Running =>
       /\ 0 \in Orders("Buy")
       /\ \A i \in Orders("Buy"), j \in Orders("Sell") : i < j
       /\ lattice.plan.type = "arithmetic" =>
            (Orders("Sell") = {} <=>
                lattice.mark * Unit * lattice.plan.count > Level(lattice.plan, lattice.plan.count - 1))

(* An arithmetic lattice has both sides when the runner's mark is no higher than the
   middle of the range, which is where the form put it (futures-grid.ts 295-301). *)
MiddleIsTwoSided ==
    Running /\ lattice.plan.type = "arithmetic"
            /\ 2 * lattice.mark * Unit <= lattice.plan.lower + lattice.plan.upper =>
       Orders("Buy") # {} /\ Orders("Sell") # {}

(* Refuted, see README: a mark inside the range is not enough for two sides, not even
   the one the form derived the range from when the grid is geometric; and the panel
   announces the number of buys with floor where the engine rounds up. *)
TwoSided == Running => Orders("Buy") # {} /\ Orders("Sell") # {}

PreviewBuys(p, price) == (p.count * (price - p.lower)) \div (p.upper - p.lower)
PreviewIsTrue ==
    Running =>
       \A i \in DOMAIN lattice.side :
          lattice.side[i] = "Buy" <=> i < PreviewBuys(lattice.plan, lattice.mark * Unit)

(* A grid that passes the checks has only orders that pay for their fees, split at the mark,
   and both sides when the mark is in the middle. *)
LatticeOK == PlanTypeOK /\ EveryOrderPays /\ SplitAtTheMark /\ MiddleIsTwoSided

=============================================================================
