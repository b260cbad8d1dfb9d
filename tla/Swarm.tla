-------------------------------- MODULE Swarm --------------------------------
(***************************************************************************)
(* The price feed of swarm.ts: one socket per chunk of symbols, reconnected *)
(* by its onclose, recycled by a watchdog.                                 *)
(*                                                                         *)
(* Abstractions.  Time is what it does to the thresholds: a feed is fresh  *)
(* until it has been silent for STALL_MS, a handshake that hangs passes    *)
(* CONNECT_TIMEOUT_MS.  Symbols, trades and evaluations are left out: a    *)
(* frame is a frame.  A socket is a value of its chunk:                    *)
(*   connecting, hung   the handshake runs, or never ends                  *)
(*   open, mute         open and talking, open and silent                  *)
(*   torn               gone without an onclose                            *)
(***************************************************************************)
EXTENDS Integers, FiniteSets, FiniteSetsExt

CONSTANTS Chunks, MaxDrops     \* bound: what the network does to sockets

ASSUME SwarmAssumption == MaxDrops \in Nat /\ IsFiniteSet(Chunks)

VARIABLES
    socket,     \* chunkSockets: the socket of each chunk, "none" without
    orphans,    \* sockets of a chunk that are no longer its own but live
    seen,       \* feedStats.state: connecting, open, closed
    fresh,      \* a frame, or the opening before any, within STALL_MS
    heard,      \* lastMessageAt is set
    timer,      \* reconnectTimers
    connected,  \* the count shown
    swarmStopped,
    drops

swarmVars == <<socket, orphans, seen, fresh, heard, timer, connected, swarmStopped, drops>>

SwarmInit ==
    /\ socket = [k \in Chunks |-> "connecting"]
    /\ orphans = [k \in Chunks |-> {}]
    /\ seen = [k \in Chunks |-> "connecting"]
    /\ fresh = [k \in Chunks |-> TRUE]
    /\ heard = [k \in Chunks |-> FALSE]
    /\ timer = [k \in Chunks |-> FALSE]
    /\ connected = 0 /\ swarmStopped = FALSE /\ drops = 0

Less(n) == Max({0, connected - n})
InSockets == {k \in Chunks : seen[k] = "open" /\ socket[k] # "none"}

-----------------------------------------------------------------------------
(* The network *)

Fails(k, from, to) ==
    /\ drops < MaxDrops /\ drops' = drops + 1
    /\ socket[k] \in from
    /\ socket' = [socket EXCEPT ![k] = to]
    /\ UNCHANGED <<orphans, seen, fresh, heard, timer, connected, swarmStopped>>

Hangs(k) == Fails(k, {"connecting"}, "hung")
GoesMute(k) == Fails(k, {"open"}, "mute")
TornDown(k) == Fails(k, {"connecting", "hung", "open", "mute"}, "torn")

Silence(k) ==
    /\ fresh[k] /\ socket[k] # "open"
    /\ fresh' = [fresh EXCEPT ![k] = FALSE]
    /\ UNCHANGED <<socket, orphans, seen, heard, timer, connected, swarmStopped, drops>>

-----------------------------------------------------------------------------
(* The callbacks of a socket *)

OnOpen(k) ==
    /\ socket[k] = "connecting"
    /\ socket' = [socket EXCEPT ![k] = "open"]
    /\ seen' = [seen EXCEPT ![k] = "open"]
    /\ connected' = connected + 1
    /\ fresh' = [fresh EXCEPT ![k] = heard[k] => @]     \* lastMessageAt ?? openedAt
    /\ UNCHANGED <<orphans, heard, timer, swarmStopped, drops>>

(* A superseded socket that opens closes itself *)
OrphanOpens(k) ==
    /\ "connecting" \in orphans[k]
    /\ orphans' = [orphans EXCEPT ![k] = @ \ {"connecting"}]
    /\ UNCHANGED <<socket, seen, fresh, heard, timer, connected, swarmStopped, drops>>

(* ... unless its handshake hangs; one that failed closes itself *)
OrphanHangs(k) ==
    /\ drops < MaxDrops /\ drops' = drops + 1
    /\ "connecting" \in orphans[k]
    /\ orphans' = [orphans EXCEPT ![k] = (@ \ {"connecting"}) \cup {"hung"}]
    /\ UNCHANGED <<socket, seen, fresh, heard, timer, connected, swarmStopped>>

OrphanCloses(k) ==
    /\ \E state \in orphans[k] : orphans' = [orphans EXCEPT ![k] = @ \ {state}]
    /\ UNCHANGED <<socket, seen, fresh, heard, timer, connected, swarmStopped, drops>>

OnMessage(k) ==
    /\ socket[k] = "open"
    /\ fresh' = [fresh EXCEPT ![k] = TRUE]
    /\ heard' = [heard EXCEPT ![k] = TRUE]
    /\ UNCHANGED <<socket, orphans, seen, timer, connected, swarmStopped, drops>>

(* onclose of the chunk's own socket, also of one that never opened *)
OnClose(k) ==
    /\ drops < MaxDrops /\ drops' = drops + 1
    /\ socket[k] \in {"connecting", "hung", "open", "mute"}
    /\ socket' = [socket EXCEPT ![k] = "none"]
    /\ seen' = [seen EXCEPT ![k] = "closed"]
    /\ connected' = Less(1)
    /\ timer' = [timer EXCEPT ![k] = TRUE]
    /\ UNCHANGED <<orphans, fresh, heard, swarmStopped>>

(* openSocket: the entry of the chunk is replaced, whatever it held *)
OpenSockets(broken) ==
    /\ socket' = [k \in Chunks |-> IF k \in broken THEN "connecting" ELSE socket[k]]
    /\ seen' = [k \in Chunks |-> IF k \in broken THEN "connecting" ELSE seen[k]]

ReconnectTimer(k) ==
    /\ timer[k]
    /\ timer' = [timer EXCEPT ![k] = FALSE]
    /\ OpenSockets({k})
    /\ orphans' = [orphans EXCEPT ![k] = @ \cup ({socket[k]} \ {"none", "torn"})]
    /\ UNCHANGED <<fresh, heard, connected, swarmStopped, drops>>

-----------------------------------------------------------------------------
(* The watchdog, also on every wake of the page *)

Broken_Timers(k) ==
    \/ socket[k] \in {"none", "torn"}
    \/ seen[k] = "open" /\ ~fresh[k]
    \/ socket[k] = "hung"

Broken(k) ==
    /\ ~timer[k]     \* the reconnect owns the chunk
    /\ \/ socket[k] \in {"none", "torn"}
       \/ seen[k] = "open" /\ ~fresh[k]
       \/ socket[k] = "hung"

Retired(broken) == Less(Cardinality(broken \cap InSockets))

(* sweep, rebuildChunk, retireSocket: the old socket is silenced and closed *)
SweepChunks ==
    LET broken == {k \in Chunks : Broken(k)} IN
    /\ ~swarmStopped /\ broken # {}
    /\ OpenSockets(broken)
    /\ connected' = Retired(broken)
    /\ UNCHANGED <<orphans, fresh, heard, timer, swarmStopped, drops>>

(* stop closes the sockets that opened; one whose handshake still runs or hangs
   is forgotten, and finds itself superseded if it opens *)
StopSwarm ==
    /\ ~swarmStopped
    /\ swarmStopped' = TRUE
    /\ orphans' = [k \in Chunks |-> orphans[k] \cup ({socket[k]} \cap {"connecting", "hung"})]
    /\ socket' = [k \in Chunks |-> "none"]
    /\ timer' = [k \in Chunks |-> FALSE]
    /\ connected' = 0
    /\ UNCHANGED <<seen, fresh, heard, drops>>

Network == \E k \in Chunks : Hangs(k) \/ OrphanHangs(k) \/ GoesMute(k) \/ TornDown(k) \/ Silence(k)

SwarmNext ==
    \/ Network \/ SweepChunks \/ StopSwarm
    \/ \E k \in Chunks :
          OnOpen(k) \/ OrphanOpens(k) \/ OrphanCloses(k) \/ OnMessage(k) \/ OnClose(k) \/ ReconnectTimer(k)

-----------------------------------------------------------------------------

Sockets == {"none", "connecting", "hung", "open", "mute", "torn"}
SwarmTypeOK ==
    /\ socket \in [Chunks -> Sockets] /\ orphans \in [Chunks -> SUBSET Sockets]
    /\ seen \in [Chunks -> {"connecting", "open", "closed"}]
    /\ {fresh, heard, timer} \subseteq [Chunks -> BOOLEAN]
    /\ connected \in 0..Cardinality(Chunks) /\ drops \in 0..MaxDrops
    /\ swarmStopped => connected = 0 /\ \A k \in Chunks : ~timer[k] /\ socket[k] = "none"

(* Reconnect and watchdog never hold two sockets for one chunk. *)
OneSocketPerChunk ==
    \A k \in Chunks : ~swarmStopped => orphans[k] = {}

(* The count shown never includes a feed whose socket was replaced or closed. *)
NeverOverReports == connected <= Cardinality(InSockets)

SwarmSpec == SwarmInit /\ [][SwarmNext]_swarmVars

(* Whatever the network did, every chunk talks again, unless the engine stops. *)
FeedReturns ==
    \A k \in Chunks : []<>(swarmStopped \/ (socket[k] = "open" /\ fresh[k]))

(* A stop leaves no socket behind but a handshake that hangs, which it does not
   close: a socket that was connecting and opens after the stop is closed. *)
StopLeavesNothing ==
    swarmStopped ~> \A k \in Chunks : socket[k] = "none" /\ orphans[k] \subseteq {"hung"}

=============================================================================
