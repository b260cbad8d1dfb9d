------------------------------- MODULE MCRunner -------------------------------
(* The always-on process: the paper broker with a ladder of prices, the price feed, the
   order-book feed, the signal feed, the supervisor and the fills on the order book.
   They meet only in what they deliver, so one of them moves in each behaviour. *)
EXTENDS MCPaperBroker, Swarm, DepthFeed, SignalFeed, Supervisor, Fills
CONSTANTS s1, k1, k2, x, y, dash, run, none
VARIABLE focus

runnerSystem == <<focus, vars, swarmVars, depthVars, feedVars, supervisorVars, fillVars>>

(* b1 has its target on the wrong side and d1 no direction, and c1 is of a symbol that is
   not tracked *)
SomeSigns == {"a1", "a2", "b1", "c1", "d1"}
Fact(side, stop, target) == [score |-> 94, side |-> side, entry |-> 10, stop |-> stop, target |-> target]
SomeFacts ==
    "a1" :> Fact("BUY", 8, 14) @@ "a2" :> Fact("SELL", 0, 6) @@ "b1" :> Fact("SELL", 12, 14)
    @@ "c1" :> Fact("SELL", 12, 6) @@ "d1" :> Fact(none, 8, 14)
SomeMarkets == [s \in SomeSigns |-> IF s = "c1" THEN "C" ELSE "A"]
SomeListings == {{"a1", "a2"}, {"b1", "c1", "d1"}}

(* Books that are thin and deep, flat and steep, where the signal was and away from it.
   The second tier allows less leverage than the configuration asks for. *)
Book(bid, n, bid2, n2, ask, m, ask2, m2) ==
    [bids |-> <<<<bid, n>>, <<bid2, n2>>>>, asks |-> <<<<ask, m>>, <<ask2, m2>>>>]
SomeBooks ==
    {Book(1999, 10, 1990, 40, 2001, 5, 2010, 40), Book(1998, 30, 1996, 20, 2002, 30, 2010, 10),
     Book(2029, 20, 2020, 10, 2031, 20, 2040, 10), Book(1990, 40, 1980, 10, 2010, 40, 2020, 10)}
SomeTiers == <<[upTo |-> 15000, mmr |-> 50, leverage |-> 100], [upTo |-> 99999, mmr |-> 1000, leverage |-> 4]>>

RunnerInit ==
    /\ focus \in {"broker", "swarm", "depth", "feed", "supervisor", "fills"}
    /\ Init /\ SwarmInit /\ DepthInit /\ FeedInit /\ SupervisorInit /\ FillsInit
    /\ focus # "supervisor" => ~haltStored
    /\ focus # "fills" => depth = (CHOOSE b \in Books : TRUE) /\ last = (CHOOSE p \in Lasts : TRUE)

RunnerNext ==
    /\ \/ focus = "broker" /\ Next /\ UNCHANGED <<swarmVars, depthVars, feedVars, supervisorVars, fillVars>>
       \/ focus = "swarm" /\ SwarmNext /\ UNCHANGED <<vars, depthVars, feedVars, supervisorVars, fillVars>>
       \/ focus = "depth" /\ DepthNext /\ UNCHANGED <<vars, swarmVars, feedVars, supervisorVars, fillVars>>
       \/ focus = "feed" /\ FeedNext /\ UNCHANGED <<vars, swarmVars, depthVars, supervisorVars, fillVars>>
       \/ focus = "supervisor" /\ SupervisorNext /\ UNCHANGED <<vars, swarmVars, depthVars, feedVars, fillVars>>
       \/ focus = "fills" /\ FillsNext /\ UNCHANGED <<vars, swarmVars, depthVars, feedVars, supervisorVars>>
    /\ UNCHANGED focus

(* Fairness of PaperBroker *)
BrokerFairness ==
    /\ WF_vars(focus = "broker" /\ Tick)
    /\ \A s \in Symbols :
          /\ WF_vars(focus = "broker" /\ ProcessTaker(s))
          /\ WF_vars(focus = "broker" /\ ProcessExpired(s))
          /\ WF_vars(focus = "broker" /\ \E exit \in Prices : ManageOpen(s, exit))

(* Handshakes that are not cut end, clocks tick, timers fire, and the exchange
   talks on a socket that stays open for long enough *)
SwarmFairness ==
    /\ WF_swarmVars(focus = "swarm" /\ SweepChunks)
    /\ \A k \in Chunks :
          /\ WF_swarmVars(focus = "swarm" /\ OnOpen(k))
          /\ WF_swarmVars(focus = "swarm" /\ OrphanOpens(k))
          /\ WF_swarmVars(focus = "swarm" /\ ReconnectTimer(k))
          /\ WF_swarmVars(focus = "swarm" /\ Silence(k))
          /\ SF_swarmVars(focus = "swarm" /\ OnMessage(k))

DepthFairness ==
    /\ WF_depthVars(focus = "depth" /\ Watchdog)
    /\ WF_depthVars(focus = "depth" /\ OnOpenDepth)
    /\ WF_depthVars(focus = "depth" /\ ReconnectFires)
    /\ WF_depthVars(focus = "depth" /\ FallsSilent)
    /\ WF_depthVars(focus = "depth" /\ Receive)
    /\ SF_depthVars(focus = "depth" /\ OtherFrame)

(* The interval fires, hours pass, and of the polls that are begun one is answered
   to the end, that is with no malformed entry in it, and recorded *)
FeedFairness ==
    /\ WF_feedVars(focus = "feed" /\ StartPoll)
    /\ WF_feedVars(focus = "feed" /\ HourPasses)
    /\ SF_feedVars(focus = "feed" /\ \E S \in SUBSET listed : Answer(S, {}))

(* Timers fire, Docker restarts what has exited, a dead feed stays silent *)
SupervisorFairness ==
    /\ \A c \in Children : WF_supervisorVars(focus = "supervisor" /\ StartAgain(c))
    /\ WF_supervisorVars(focus = "supervisor" /\ Ends)
    /\ WF_supervisorVars(focus = "supervisor" /\ DockerRestarts)
    /\ WF_supervisorVars(focus = "supervisor" /\ Silent)
    /\ WF_supervisorVars(focus = "supervisor" /\ StallExit)
    /\ WF_supervisorVars(focus = "supervisor" /\ Snapshot)

RunnerSpec ==
    /\ RunnerInit /\ [][RunnerNext]_runnerSystem
    /\ BrokerFairness /\ SwarmFairness /\ DepthFairness /\ FeedFairness /\ SupervisorFairness

(* FeedReturns, in the behaviours in which the price feed moves. *)
PriceFeedReturns == focus = "swarm" => FeedReturns

FillSpec == RunnerInit /\ focus = "fills" /\ [][RunnerNext]_runnerSystem
DepthSpec == RunnerInit /\ focus = "depth" /\ [][RunnerNext]_runnerSystem /\ DepthFairness

(* One socket per chunk, the count of the connected never too high, a feed that returns after
   its cuts, and nothing but hung handshakes left after stop. *)
SwarmHolds ==
    /\ [](SwarmTypeOK /\ OneSocketPerChunk /\ NeverOverReports)
    /\ PriceFeedReturns /\ StopLeavesNothing

=============================================================================
