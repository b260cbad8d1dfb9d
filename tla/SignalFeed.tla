----------------------------- MODULE SignalFeed -----------------------------
(* sigmalui-ingester.ts: the poll of the SigmaLui feed.  A signal that passes the
   checks is offered to the broker, once per retention and not more often than the
   spacing of its symbol allows; every distinct signal is recorded as evidence,
   offered or not.  Times are ages: how long ago something happened. *)
EXTENDS Integers, FiniteSets
CONSTANTS Signs,           \* the signals
          Listings,        \* what the feed may list at one time
          MarketOf,        \* their symbols
          FactsOf,         \* what they say; a price of 0 is missing or no number
          MinScore,
          TrackedSymbols,  \* isTracked
          Retention,       \* 24 h
          Spacing,         \* perSymbolCooldownMs
          MaxLost, MaxBoots, MaxListings, MaxOutages,   \* bounds
          Never, NoSide

Facts == [score : Nat, side : {"BUY", "SELL", NoSide}, entry : Nat, stop : Nat, target : Nat]

ASSUME FeedAssumption ==
    /\ MarketOf \in [Signs -> STRING] /\ FactsOf \in [Signs -> Facts] /\ IsFiniteSet(Signs)
    /\ MinScore \in Nat \ {0} /\ NoSide \notin {"BUY", "SELL"}
    /\ Listings \subseteq SUBSET Signs
    /\ Spacing \in Nat \ {0} /\ Retention \in Nat /\ Spacing <= Retention
    /\ Never \notin 0..(Retention + 1)

VARIABLES listed,     \* what the feed answers, in any order
          polling,    \* inFlight
          pollTimer,  \* the poll interval is set
          seenAt,     \* when a signal was offered
          observed,   \* when a signal was handed to the evidence store
          lastBySymbol,
          evidence,   \* sigmalui_signals: what was recorded of a signal
          offers,     \* what the last poll handed to the broker
          sinceOffer, \* how long ago the broker was last handed a signal by this process
          answered,   \* the feed has answered in this hour
          lostWrites, boots, listings, outages

mapVars == <<seenAt, observed, lastBySymbol>>
feedVars == <<listed, polling, pollTimer, mapVars, evidence, offers, sinceOffer, answered, lostWrites, boots, listings, outages>>

FeedSymbols == {MarketOf[s] : s \in Signs}
Ages == 0..(Retention + 1) \cup {Never}
Older(age) == IF age = Never THEN Never ELSE IF age > Retention THEN age ELSE age + 1
Kept(age) == IF age # Never /\ age > Retention THEN Never ELSE age
Forgotten(S) == [s \in S |-> Never]

FeedInit ==
    /\ listed = {} /\ polling = FALSE /\ pollTimer = TRUE
    /\ seenAt = Forgotten(Signs) /\ observed = Forgotten(Signs) /\ lastBySymbol = Forgotten(FeedSymbols)
    /\ evidence = [s \in Signs |-> "none"]
    /\ offers = {} /\ sinceOffer = Forgotten(Signs)
    /\ answered = FALSE /\ lostWrites = {} /\ boots = 0 /\ listings = 0 /\ outages = 0

(* The feed lists and drops signals as it likes *)
Relist(S) ==
    /\ S # listed /\ listings < MaxListings
    /\ listed' = S /\ listings' = listings + 1
    /\ UNCHANGED <<polling, pollTimer, mapVars, evidence, offers, sinceOffer, answered, lostWrites, boots, outages>>

(* setInterval: poll returns while one is in flight *)
StartPoll ==
    /\ pollTimer /\ ~polling
    /\ polling' = TRUE /\ offers' = {}
    /\ UNCHANGED <<listed, pollTimer, mapVars, evidence, sinceOffer, answered, lostWrites, boots, listings, outages>>

(* No answer within 15 s, an error status or a body that is not JSON *)
PollFails ==
    /\ polling
    /\ polling' = FALSE
    /\ UNCHANGED <<listed, pollTimer, mapVars, evidence, offers, sinceOffer, answered, lostWrites, boots, listings, outages>>

(* validateSignal: brackets are looked at when there are both *)
Between(low, middle, high) == low < middle /\ middle < high
ValidSignal(f) ==
    /\ f.score >= MinScore /\ f.side # NoSide /\ f.entry > 0
    /\ f.stop > 0 /\ f.target > 0 =>
          IF f.side = "BUY" THEN Between(f.stop, f.entry, f.target) ELSE Between(f.target, f.entry, f.stop)
Invalid == {s \in Signs : ~ValidSignal(FactsOf[s])}

CoolingDown_Off(s) == FALSE

(* The loop over the answer, in whatever order it lists the signals.  What passes the
   checks, was not offered in 24 h (older entries are dropped first), and is tracked: *)
CoolingDown(s) == lastBySymbol[MarketOf[s]] # Never /\ lastBySymbol[MarketOf[s]] < Spacing
Unoffered(s) == s \notin Invalid /\ Kept(seenAt[s]) = Never
Admissible(heard) == {s \in heard : Unoffered(s) /\ ~CoolingDown(s) /\ MarketOf[s] \in TrackedSymbols}

(* The first of each symbol is offered, and its symbol cools from there on *)
FirstOfEach(heard, S) ==
    /\ S \subseteq Admissible(heard)
    /\ \A s \in Admissible(heard) : \E q \in S : MarketOf[q] = MarketOf[s]
    /\ \A s, q \in S : MarketOf[q] = MarketOf[s] => q = s

(* observe: a signal of either side is recorded at its first sight, with what
   becomes of it then *)
Observed(heard) ==
    {s \in heard : FactsOf[s].side # NoSide /\ Kept(observed[s]) = Never /\ (s \in Invalid \/ Unoffered(s))}

(* persistSigmaLuiSignal: ON CONFLICT DO NOTHING, and a failed write is only logged *)
Recorded(heard, admitted, lost) ==
    [s \in Signs |->
        IF evidence[s] # "none" \/ s \in lost \/ s \notin Observed(heard) THEN evidence[s]
        ELSE IF s \in admitted THEN "admitted" ELSE "rejected"]

(* What the poll got through of the list has its effect, whatever ends the poll *)
Hear(heard, S, lost) ==
    /\ polling
    /\ FirstOfEach(heard, S)
    /\ lost \subseteq Observed(heard) /\ Cardinality(lostWrites \cup lost) <= MaxLost
    /\ seenAt' = [s \in Signs |-> IF s \in S THEN 0 ELSE Kept(seenAt[s])]
    /\ observed' = [s \in Signs |-> IF s \in Observed(heard) THEN 0 ELSE Kept(observed[s])]
    /\ lastBySymbol' = [y \in FeedSymbols |-> IF \E s \in S : MarketOf[s] = y THEN 0 ELSE lastBySymbol[y]]
    /\ evidence' = Recorded(heard, S, lost) /\ lostWrites' = lostWrites \cup lost
    /\ offers' = S
    /\ sinceOffer' = [s \in Signs |-> IF s \in S THEN 0 ELSE sinceOffer[s]]
    /\ polling' = FALSE
    /\ UNCHANGED <<listed, pollTimer, boots, listings>>

Answer(S, lost) == Hear(listed, S, lost) /\ answered' = TRUE /\ UNCHANGED outages

(* An entry whose fields are not text throws out of the loop: what is listed before it is
   dealt with, what is listed after it is not *)
PollBreaks(heard, S, lost) ==
    /\ Hear(heard, S, lost)
    /\ outages < MaxOutages /\ outages' = outages + 1
    /\ UNCHANGED answered

(* Bound: hours in which a feed that is polled does not answer once, and polls that break *)
HourPasses ==
    /\ IF answered \/ ~pollTimer THEN UNCHANGED outages ELSE outages < MaxOutages /\ outages' = outages + 1
    /\ answered' = FALSE
    /\ seenAt' = [s \in Signs |-> Older(seenAt[s])]
    /\ observed' = [s \in Signs |-> Older(observed[s])]
    /\ lastBySymbol' = [y \in FeedSymbols |-> Older(lastBySymbol[y])]
    /\ sinceOffer' = [s \in Signs |-> Older(sinceOffer[s])]
    /\ UNCHANGED <<listed, polling, pollTimer, evidence, offers, lostWrites, boots, listings>>

(* stop: a poll that is in flight goes on *)
StopFeed ==
    /\ pollTimer /\ boots < MaxBoots
    /\ pollTimer' = FALSE
    /\ UNCHANGED <<listed, polling, mapVars, evidence, offers, sinceOffer, answered, lostWrites, boots, listings, outages>>

(* The runner starts again: the maps are empty, the evidence is not *)
Reboot ==
    /\ boots < MaxBoots
    /\ boots' = boots + 1 /\ pollTimer' = TRUE /\ polling' = FALSE
    /\ seenAt' = Forgotten(Signs) /\ observed' = Forgotten(Signs) /\ lastBySymbol' = Forgotten(FeedSymbols)
    /\ offers' = {} /\ sinceOffer' = Forgotten(Signs)
    /\ UNCHANGED <<listed, evidence, answered, lostWrites, listings, outages>>

FeedNext ==
    \/ \E S \in Listings : Relist(S)
    \/ StartPoll \/ PollFails \/ HourPasses \/ StopFeed \/ Reboot
    \/ \E S \in SUBSET listed, lost \in SUBSET listed : Answer(S, lost)
    \/ \E heard \in SUBSET listed : \E S \in SUBSET heard, lost \in SUBSET heard : PollBreaks(heard, S, lost)

----------------------------------------------------------------------------
FeedTypeOK ==
    /\ listed \in Listings \cup {{}} /\ polling \in BOOLEAN /\ pollTimer \in BOOLEAN
    /\ seenAt \in [Signs -> Ages] /\ observed \in [Signs -> Ages] /\ lastBySymbol \in [FeedSymbols -> Ages]
    /\ evidence \in [Signs -> {"none", "admitted", "rejected"}]
    /\ offers \subseteq Signs /\ sinceOffer \in [Signs -> Ages]

(* The broker is handed a signal at most once in 24 h, and a symbol at most once in
   its spacing, however the feed lists, drops and reorders them. *)
OffersSpaced ==
    [][polling /\ ~polling' =>
          \A s \in offers' :
             /\ s \notin Invalid /\ MarketOf[s] \in TrackedSymbols
             /\ sinceOffer[s] = Never \/ sinceOffer[s] > Retention
             /\ \A q \in Signs \ {s} : MarketOf[q] = MarketOf[s] =>
                   q \notin offers' /\ (sinceOffer[q] = Never \/ sinceOffer[q] >= Spacing)]_feedVars

(* The evidence the Signal Court replays: nothing is offered that is not on record,
   unless the write was lost, and nothing refused by validation is on record as admitted. *)
TradedIsDocketed ==
    \A s \in Signs :
       /\ sinceOffer[s] # Never => evidence[s] # "none" \/ s \in lostWrites
       /\ evidence[s] = "admitted" => s \notin Invalid /\ MarketOf[s] \in TrackedSymbols

(* A valid signal of a tracked symbol that stays listed is offered in the end, whatever
   shares its symbol. *)
StayingSignalOffered ==
    \A s \in Signs : s \notin Invalid /\ MarketOf[s] \in TrackedSymbols =>
       (<>[](s \in listed /\ pollTimer) => <>(sinceOffer[s] # Never))

(* What the Court's group "SigmaLui signals our ingester admits" takes the column for:
   refuted, see README. *)
AdmittedIsOnRecord == \A s \in Signs : sinceOffer[s] # Never /\ s \notin lostWrites => evidence[s] = "admitted"

FeedSpec == FeedInit /\ [][FeedNext]_feedVars

(* What was traded is on the docket, a signal is offered again only after its cooldown, and
   one that stays listed is offered. *)
FeedHolds == [](FeedTypeOK /\ TradedIsDocketed) /\ OffersSpaced /\ StayingSignalOffered

=============================================================================
