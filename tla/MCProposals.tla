----------------------------- MODULE MCProposals -----------------------------
(* From the votes of the panel to the slots of the broker: what the panel proposes, and
   how many proposals become positions.  A proposal is all that passes between them, and
   the broker takes any, so one of them moves in each behaviour. *)
EXTENDS MCPaperBroker, Panel
VARIABLE focus

(* Windows that trend, break out, revert and do neither; what the edge model may teach *)
SomeAutocorrs == {-40, -10, 0, 20}
SomeLessons == {[BaseWeights EXCEPT !["MeanRev"] = 140], [BaseWeights EXCEPT !["Trend"] = 15, !["Meme"] = 220]}
SomeSamples == "Meme" :> 1 @@ "MeanRev" :> 2 @@ "Breakout" :> 2 @@ "regime" :> 3 @@ "Trend" :> 4

proposals == <<focus, vars, panelVars>>

ProposalsInit == focus \in {"panel", "broker"} /\ PanelInit /\ Init

ProposalsNext ==
    /\ \/ focus = "panel" /\ PanelNext /\ UNCHANGED vars
       \/ focus = "broker" /\ Next /\ UNCHANGED panelVars
    /\ UNCHANGED focus

ProposalsSpec == ProposalsInit /\ [][ProposalsNext]_proposals
=============================================================================
