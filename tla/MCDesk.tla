------------------------------- MODULE MCDesk -------------------------------
(* Real orders: the live traders of the dashboard, and the mirror of the paper book on
   a second exchange.  They share nothing, so one of them moves in each behaviour. *)
EXTENDS LiveTrade, BinanceMirror
CONSTANTS a, b, c1, c2, s1
VARIABLE focus

desk == <<focus, liveVars, vars>>

DeskInit ==
    /\ focus \in {"live", "mirror"}
    /\ LiveInit /\ Init
    /\ focus # "live" => provider = "bybit"

(* Bound: two closes overlap only while nothing fails and neither a poll nor a placement
   is under way; the second click is the one that finds a close under way *)
CloseBound ==
    /\ (\A c \in Closers : clicks'[c] # NoCall) =>
          faults' = 0 /\ poll' = NoPoll /\ \A s \in LiveSymbols : placing'[s] = NoCall
    /\ clicks[c2] = NoCall /\ clicks'[c2] # NoCall => clicks[c1] # NoCall

(* Bound: the broker moves the stop of one paper trade at most *)
MoveBound == Cardinality({id \in Ids : trade'[id] # None /\ trade'[id].stop > 1}) <= 1

DeskNext ==
    /\ \/ focus = "live" /\ LiveNext /\ CloseBound /\ UNCHANGED vars
       \/ focus = "mirror" /\ Next /\ MoveBound /\ UNCHANGED liveVars
    /\ UNCHANGED focus

(* The tab polls for as long as it is open; a poll need not fail *)
LiveFairness ==
    /\ WF_liveVars(focus = "live" /\ PollRows("ready", {}))
    /\ SF_liveVars(focus = "live" /\ PollExits({}))

(* Fairness of BinanceMirror *)
MirrorFairness ==
    /\ \A id \in Ids : /\ WF_vars(focus = "mirror" /\ OpenTask(id))
                       /\ WF_vars(focus = "mirror" /\ CloseTask(id))
    /\ WF_vars(focus = "mirror" /\ ReconcileTask)
    /\ WF_vars(focus = "mirror" /\ RefreshControl)

DeskSpec == DeskInit /\ [][DeskNext]_desk /\ LiveFairness /\ MirrorFairness

LiveSpec == DeskInit /\ focus = "live" /\ [][DeskNext]_desk
=============================================================================
