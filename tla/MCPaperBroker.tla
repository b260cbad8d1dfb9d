--------------------------- MODULE MCPaperBroker ---------------------------
(* Values for the constants of PaperBroker in its TLC runs. *)
EXTENDS PaperBroker, TLC

MCSymmetry == Permutations(Symbols)

(* Two prices: an entry at one, a stop-out or a target at the other. *)
TwoPrices == {8, 10}

(* A ladder with room for breakeven, trailing, target and liquidation. *)
Ladder == 8..12

FundingRates == {-1, 2}
=============================================================================
