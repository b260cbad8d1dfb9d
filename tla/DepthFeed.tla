------------------------------ MODULE DepthFeed ------------------------------
(***************************************************************************)
(* The order-book feed of microstructure.ts: one socket whose              *)
(* subscriptions follow the hot symbols, books assembled from a snapshot   *)
(* and its deltas, a reconnect by onclose and a watchdog.                  *)
(*                                                                         *)
(* Abstractions.  Time and sockets as in Swarm.  A book is the version of  *)
(* the exchange's book it shows.  The exchange acts on a subscription when *)
(* it is sent; what it sends back takes its time, in order.                *)
(***************************************************************************)
EXTENDS Integers, Sequences, FiniteSets, SequencesExt

CONSTANTS
    DepthSymbols, MaxTracked,
    MaxVersions, MaxInFlight, MaxCuts     \* bounds: changes of the books, frames under way, faults

ASSUME DepthAssumption ==
    /\ {MaxTracked, MaxInFlight, MaxCuts} \subseteq Nat /\ MaxVersions \in Nat \ {0}
    /\ IsFiniteSet(DepthSymbols)

VARIABLES
    ws,             \* the socket: none, connecting, hung, open, mute, torn
    flag,           \* connectedFlag
    reconnect,      \* reconnectTimer: null, armed, or fired and never cleared
    lively, spoke,  \* a frame within MICRO_STALL_MS, a frame ever
    tracked, subscribed,
    raw,            \* per symbol the version of its book, 0 without
    whole,          \* history: built from a snapshot and every delta since
    serving, version, inFlight,     \* the exchange
    depthStopped, faultsLeft

socketVars == <<ws, flag, reconnect, lively, spoke>>
depthBooks == <<raw, whole>>
depthVenue == <<serving, version, inFlight>>
depthVars == <<socketVars, tracked, subscribed, depthBooks, depthVenue, depthStopped, faultsLeft>>

NoBooks == [s \in DepthSymbols |-> 0]

DepthInit ==
    /\ ws = "connecting" /\ flag = FALSE /\ reconnect = "null"
    /\ lively = TRUE /\ spoke = FALSE
    /\ tracked = {} /\ subscribed = {}
    /\ raw = NoBooks /\ whole = [s \in DepthSymbols |-> TRUE]
    /\ serving = {} /\ version = [s \in DepthSymbols |-> 1] /\ inFlight = <<>>
    /\ depthStopped = FALSE /\ faultsLeft = MaxCuts

-----------------------------------------------------------------------------
(* The exchange *)

Frame(s, type, n) == [symbol |-> s, type |-> type, version |-> n]

Changes(s) ==
    /\ ws = "open" /\ s \in serving
    /\ version[s] < MaxVersions /\ Len(inFlight) < MaxInFlight
    /\ version' = [version EXCEPT ![s] = @ + 1]
    /\ inFlight' = Append(inFlight, Frame(s, "delta", version'[s]))
    /\ UNCHANGED <<socketVars, tracked, subscribed, depthBooks, serving, depthStopped, faultsLeft>>

(* A service restart: a delta with u = 1, then the book again *)
ServiceRestarts(s) ==
    /\ ws = "open" /\ s \in serving
    /\ faultsLeft > 0 /\ faultsLeft' = faultsLeft - 1
    /\ inFlight' = inFlight \o <<Frame(s, "restart", version[s]), Frame(s, "snapshot", version[s])>>
    /\ UNCHANGED <<socketVars, tracked, subscribed, depthBooks, serving, version, depthStopped>>

Breaks(from, to) ==
    /\ faultsLeft > 0 /\ faultsLeft' = faultsLeft - 1
    /\ ws \in from /\ ws' = to
    /\ UNCHANGED <<flag, reconnect, lively, spoke, tracked, subscribed, depthBooks, depthVenue, depthStopped>>

FallsSilent ==
    /\ lively /\ ws # "open"
    /\ lively' = FALSE
    /\ UNCHANGED <<ws, flag, reconnect, spoke, tracked, subscribed, depthBooks, depthVenue, depthStopped, faultsLeft>>

(* send reaches an open socket only; subscribing brings a snapshot *)
Sends(add, remove) ==
    /\ serving' = IF ws' = "open" THEN (serving \ remove) \cup add ELSE serving
    /\ inFlight' = IF ws' = "open"
                   THEN inFlight \o SetToSeq({Frame(s, "snapshot", version[s]) : s \in add})
                   ELSE inFlight
    /\ UNCHANGED version

Forgets == serving' = {} /\ inFlight' = <<>> /\ UNCHANGED version

-----------------------------------------------------------------------------
(* The hot set: every two seconds, open positions first *)

Dropped(remove) ==
    /\ raw' = [s \in DepthSymbols |-> IF s \in remove THEN 0 ELSE raw[s]]
    /\ UNCHANGED whole

(* track: unsubscribe, then subscribe, each of what changes for it *)
TrackHot(next) ==
    /\ ~depthStopped /\ Cardinality(next) <= MaxTracked /\ next # tracked
    /\ Len(inFlight) < MaxInFlight
    /\ tracked' = next
    /\ UNCHANGED socketVars
    /\ LET remove == (tracked \ next) \cap subscribed
           add == (next \ tracked) \ (subscribed \ remove) IN
       /\ subscribed' = (subscribed \ remove) \cup add
       /\ Dropped(remove)
       /\ Sends(add, remove)
    /\ UNCHANGED <<depthStopped, faultsLeft>>

-----------------------------------------------------------------------------
(* The socket *)

Resubscribes == tracked     \* subscribed is cleared first

OnOpenDepth ==
    /\ ws = "connecting" /\ ~depthStopped
    /\ ws' = "open" /\ flag' = TRUE
    /\ subscribed' = tracked
    /\ Sends(Resubscribes, {})
    /\ UNCHANGED <<reconnect, lively, spoke, tracked, depthBooks, depthStopped, faultsLeft>>

Clears == flag' = FALSE /\ subscribed' = {} /\ raw' = NoBooks /\ UNCHANGED whole

OnCloseDepth ==
    /\ faultsLeft > 0 /\ faultsLeft' = faultsLeft - 1
    /\ ws \in {"connecting", "hung", "open", "mute"}
    /\ ws' = "torn" /\ reconnect' = "armed"
    /\ Clears /\ Forgets
    /\ UNCHANGED <<lively, spoke, tracked, depthStopped>>

(* The callback connects and leaves the timer's handle where it is *)
ReconnectFires ==
    /\ reconnect = "armed"
    /\ reconnect' = "fired"
    /\ ws' = "connecting"
    /\ UNCHANGED <<flag, lively, spoke, tracked, subscribed, depthBooks, depthVenue, depthStopped, faultsLeft>>

Dead ==
    \/ ws = "torn"
    \/ flag /\ spoke /\ ~lively     \* lastMessageAt ?? now
    \/ ~flag /\ ws = "hung"

(* sweep, rebuild *)
Watchdog ==
    /\ ~depthStopped /\ reconnect = "null"
    /\ Dead
    /\ ws' = "connecting"
    /\ Clears /\ Forgets
    /\ UNCHANGED <<reconnect, lively, spoke, tracked, depthStopped, faultsLeft>>

StopDepth ==
    /\ ~depthStopped
    /\ depthStopped' = TRUE
    /\ ws' = "none" /\ flag' = FALSE /\ reconnect' = "null" /\ subscribed' = {}
    /\ Forgets
    /\ UNCHANGED <<lively, spoke, tracked, depthBooks, faultsLeft>>

-----------------------------------------------------------------------------
(* onmessage, handleBook *)

Applies_Any(f) == f.type # "restart"
Applies(f) == f.type = "snapshot" \/ (f.type = "delta" /\ raw[f.symbol] # 0)

Receive ==
    /\ ws = "open" /\ inFlight # <<>>
    /\ lively' = TRUE /\ spoke' = TRUE
    /\ LET f == Head(inFlight) IN
       /\ raw' = [raw EXCEPT ![f.symbol] =
                     IF Applies(f) THEN f.version ELSE IF f.type = "restart" THEN 0 ELSE @]
       /\ whole' = [whole EXCEPT ![f.symbol] =
                       IF f.type = "snapshot" THEN TRUE
                       ELSE IF Applies(f) THEN @ /\ raw[f.symbol] + 1 = f.version ELSE @]
    /\ inFlight' = Tail(inFlight)
    /\ UNCHANGED <<ws, flag, reconnect, tracked, subscribed, serving, version, depthStopped, faultsLeft>>

(* Any other frame: a pong, an acknowledgement, a ticker *)
OtherFrame ==
    /\ ws = "open"
    /\ ~(lively /\ spoke)
    /\ lively' = TRUE /\ spoke' = TRUE
    /\ UNCHANGED <<ws, flag, reconnect, tracked, subscribed, depthBooks, depthVenue, depthStopped, faultsLeft>>

DepthFaults ==
    \/ Breaks({"connecting"}, "hung") \/ Breaks({"open"}, "mute")
    \/ Breaks({"connecting", "hung", "open", "mute"}, "torn")

DepthNext ==
    \/ \E s \in DepthSymbols : Changes(s) \/ ServiceRestarts(s)
    \/ \E next \in SUBSET DepthSymbols : TrackHot(next)
    \/ DepthFaults \/ FallsSilent
    \/ OnOpenDepth \/ OnCloseDepth \/ ReconnectFires \/ Watchdog \/ StopDepth
    \/ Receive \/ OtherFrame

DepthFeedSpec == DepthInit /\ [][DepthNext]_depthVars

-----------------------------------------------------------------------------

DepthTypeOK ==
    /\ ws \in {"none", "connecting", "hung", "open", "mute", "torn"}
    /\ reconnect \in {"null", "armed", "fired"}
    /\ {flag, lively, spoke, depthStopped} \subseteq BOOLEAN
    /\ tracked \subseteq DepthSymbols /\ Cardinality(tracked) <= MaxTracked
    /\ flag => subscribed = tracked
    /\ raw \in [DepthSymbols -> 0..MaxVersions] /\ version \in [DepthSymbols -> 1..MaxVersions]
    /\ inFlight \in Seq([symbol : DepthSymbols, type : {"snapshot", "delta", "restart"},
                         version : 1..MaxVersions])

(* A book is a snapshot and every delta since, also when the symbol leaves and
   re-enters the hot set while deltas are under way. *)
BookWhole == \A s \in DepthSymbols : raw[s] # 0 => whole[s]

(* While a socket is up the exchange sends exactly the hot symbols. *)
ServesTheHotSet == ws = "open" => serving = tracked

Live == ws = "open" /\ lively

(* Until a reconnect has fired, the watchdog brings a feed that ever spoke
   back from anything. *)
WatchdogRecovers == <>(reconnect = "fired" \/ depthStopped) \/ []<>(spoke => Live)

(* A symbol that stays hot has a book, on a feed that lives. *)
BookArrives ==
    \A s \in DepthSymbols :
        []<>(s \notin tracked \/ raw[s] # 0 \/ ~Live)

(* microstructure.ts:296-299: the sweep, not onclose, is the recovery path. *)
DepthReturns == []<>(depthStopped \/ (spoke => Live))

(* A book that is served is whole and of the hot set, a silent socket is recycled, and the
   book of a hot symbol arrives. *)
DepthHolds == [](DepthTypeOK /\ BookWhole /\ ServesTheHotSet) /\ WatchdogRecovers /\ BookArrives

=============================================================================
