----------------------------- MODULE MCEvidence -----------------------------
(* The evidence chain: the shadow book, the candle replay and the court. They
   meet only in the rows, so one of them moves in each behaviour. *)
EXTENDS ShadowBook, Court, Replay, TLC
CONSTANTS a, s1, s2, s3, p1, r1, r2
VARIABLE focus

MCMoves == {-2, 1}
MCPrices == {-6, -2, 2, 5}
MCResults == {2, -1}
MCBuild == s1 :> r1 @@ s2 :> r2 @@ s3 :> r1 @@ p1 :> r1
MCCasts == {{s1}, {s1, s2}, {s1, s3}, {s1, p1}}
MCMaxCloses == [c \in MCCasts |-> IF c = {s1} THEN 5 ELSE 3]

vars == <<focus, bookVars, courtVars, replayVars>>

EvidenceInit ==
    /\ focus \in {"book", "court", "replay"}
    /\ BookInit /\ CourtInit /\ ReplayInit
    /\ focus # "court" => cast = {s1} /\ ~rolling
    /\ focus # "replay" => side = 1

EvidenceNext ==
    /\ \/ focus = "book" /\ BookNext /\ UNCHANGED <<courtVars, replayVars>>
       \/ focus = "court" /\ CourtNext /\ UNCHANGED <<bookVars, replayVars>>
       \/ focus = "replay" /\ ReplayNext /\ UNCHANGED <<bookVars, courtVars>>
    /\ UNCHANGED focus

(* The clock, the sweep of the engine, the restart policy and the writes *)
BookFairness ==
    /\ WF_bookVars(focus = "book" /\ Clock) /\ WF_bookVars(focus = "book" /\ Sweep)
    /\ WF_bookVars(focus = "book" /\ Boot)
    /\ WF_bookVars(focus = "book" /\ \E w \in outbox : Land(w))

(* The timer of the sessions *)
CourtFairness ==
    /\ \A s \in Sessions : WF_courtVars(focus = "court" /\ s \in cast /\ Sit(s))
    /\ WF_courtVars(focus = "court" /\ \E t \in trades : LandClose(t))

(* The market, the shadow book and the timer of the sessions; a download need
   not fail *)
ReplayFairness ==
    /\ WF_replayVars(focus = "replay" /\ \E p \in Prices : Quote(p))
    /\ WF_replayVars(focus = "replay" /\ CloseShadow)
    /\ \A s \in Mirrorers : WF_replayVars(focus = "replay" /\ (Fetch(s) \/ Save(s)) /\ UNCHANGED failures)

Spec ==
    /\ EvidenceInit /\ [][EvidenceNext]_vars
    /\ BookFairness /\ CourtFairness /\ ReplayFairness

=============================================================================
