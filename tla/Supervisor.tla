----------------------------- MODULE Supervisor -----------------------------
(***************************************************************************)
(* The container: supervisor.mjs with its children, the dashboard server   *)
(* and the runner (runner/index.ts), the runner's stall watch, health      *)
(* endpoint (runner/health.ts) and shutdown.  Docker restarts a container  *)
(* that has exited.                                                        *)
(*                                                                         *)
(* Abstractions.  The feed is fresh, or silent for a minute, or for        *)
(* TICK_STALL_EXIT_MS.  The back-off delays only.  A restart leaves the    *)
(* window of the crash-loop count some time after it entered it.           *)
(***************************************************************************)
EXTENDS Integers, FiniteSets

CONSTANTS
    Children, Runner,
    MaxRestarts,            \* MAX_RESTARTS
    MaxCrashes, MaxSilences, MaxExpiries    \* bounds

ASSUME SupervisorAssumption ==
    /\ Runner \in Children
    /\ {MaxRestarts, MaxCrashes, MaxSilences, MaxExpiries} \subseteq Nat

VARIABLES
    container,  \* up, or the exit code
    stopping,   \* shutdown, with its exit code, or "no"
    alive, waiting,     \* per child: running, a restart is set
    recent,     \* per child: restarts within the window
    health,     \* the runner's HealthStatus.status
    shutting,   \* the runner's own shutdown has begun
    ticks,      \* the runner's last tick: never, fresh, stale, stalled, mute
                \* (none since the start, as long)
    haltStored,     \* the halt in the database, read at boot
    feedDead,   \* the price feed cannot be rebuilt in this process
    crashes, silences, expiries

runnerVars == <<health, shutting, ticks, haltStored, feedDead>>
countVars == <<crashes, silences, expiries>>
supervisorVars == <<container, stopping, alive, waiting, recent, runnerVars, countVars>>

SupervisorInit ==
    /\ container = "up" /\ stopping = "no"
    /\ alive = Children /\ waiting = {}
    /\ recent = [c \in Children |-> 0]
    /\ health = "starting" /\ shutting = FALSE /\ ticks = "never" /\ haltStored \in BOOLEAN /\ feedDead = FALSE
    /\ crashes = 0 /\ silences = 0 /\ expiries = 0

-----------------------------------------------------------------------------
(* The supervisor *)

(* Its loop is held by its children and by a shutdown's check: the restart
   timers are unref'd *)
LoopHeld(children) == children # {} \/ stopping' # "no"

CrashLooping_Late(n) == n > MaxRestarts + 1
CrashLooping(n) == n > MaxRestarts

(* on exit: restart, or give the container up *)
Exits(c) ==
    /\ c \in alive
    /\ alive' = alive \ {c}
    /\ IF stopping # "no"
       THEN UNCHANGED <<stopping, waiting, recent, container>>
       ELSE /\ recent' = [recent EXCEPT ![c] = @ + 1]
            /\ IF CrashLooping(recent'[c])
               THEN stopping' = "failed" /\ UNCHANGED waiting
               ELSE waiting' = waiting \cup {c} /\ UNCHANGED stopping
            /\ container' = IF LoopHeld(alive') THEN "up" ELSE "exit0"

Fresh == health' = "starting" /\ shutting' = FALSE /\ ticks' = "never"

MayStart_Always == TRUE
MayStart == stopping = "no"

StartAgain(c) ==
    /\ container = "up" /\ c \in waiting
    /\ waiting' = waiting \ {c}
    /\ IF MayStart
       THEN /\ alive' = alive \cup {c}
            /\ IF c = Runner THEN Fresh ELSE UNCHANGED <<health, shutting, ticks>>
       ELSE UNCHANGED <<alive, health, shutting, ticks>>
    /\ UNCHANGED <<container, stopping, recent, haltStored, feedDead, countVars>>

WindowPasses(c) ==
    /\ container = "up" /\ recent[c] > 0
    /\ expiries < MaxExpiries /\ expiries' = expiries + 1
    /\ recent' = [recent EXCEPT ![c] = @ - 1]
    /\ UNCHANGED <<container, stopping, alive, waiting, runnerVars, crashes, silences>>

(* SIGTERM or SIGINT to the container *)
Terminate ==
    /\ container = "up" /\ stopping = "no"
    /\ stopping' = "asked"
    /\ UNCHANGED <<container, alive, waiting, recent, runnerVars, countVars>>

(* Ends when the children have, or kills them at the deadline *)
Ends ==
    /\ container = "up" /\ stopping # "no"
    /\ alive' = {}
    /\ container' = IF stopping = "asked" THEN "exit0" ELSE "exit1"
    /\ UNCHANGED <<stopping, waiting, recent, runnerVars, countVars>>

(* restart: always *)
DockerRestarts ==
    /\ container # "up"
    /\ container' = "up" /\ stopping' = "no"
    /\ alive' = Children /\ waiting' = {}
    /\ recent' = [c \in Children |-> 0]
    /\ Fresh
    /\ UNCHANGED <<haltStored, feedDead, countVars>>

-----------------------------------------------------------------------------
(* The children *)

Crash(c) ==
    /\ container = "up"
    /\ crashes < MaxCrashes /\ crashes' = crashes + 1
    /\ Exits(c)
    /\ UNCHANGED <<runnerVars, silences, expiries>>

Running == container = "up" /\ Runner \in alive
RunnerOnly == UNCHANGED <<container, stopping, alive, waiting, recent>>

PriceTick ==
    /\ Running /\ ~feedDead /\ ~shutting /\ ticks # "fresh"
    /\ ticks' = "fresh"
    /\ RunnerOnly /\ UNCHANGED <<health, shutting, haltStored, feedDead, countVars>>

(* The feed dies, beyond what its own watchdog can rebuild: until a restart *)
FeedDies ==
    /\ silences < MaxSilences /\ silences' = silences + 1
    /\ ~feedDead /\ feedDead' = TRUE
    /\ RunnerOnly /\ UNCHANGED <<health, shutting, ticks, haltStored, crashes, expiries>>

FeedReturnsLater ==
    /\ feedDead /\ feedDead' = FALSE
    /\ RunnerOnly /\ UNCHANGED <<health, shutting, ticks, haltStored, countVars>>

Silent ==
    /\ Running /\ feedDead /\ ticks \notin {"stalled", "mute"}
    /\ ticks' = CASE ticks = "fresh" -> "stale" [] ticks = "stale" -> "stalled" [] OTHER -> "mute"
    /\ RunnerOnly /\ UNCHANGED <<health, shutting, haltStored, feedDead, countVars>>

(* onSnapshot, every second, whatever the halt read at boot *)
Snapshot ==
    /\ Running /\ ~shutting
    /\ health \notin {"halted", "running"}
    /\ health' = "running"
    /\ RunnerOnly /\ UNCHANGED <<shutting, ticks, haltStored, feedDead, countVars>>

(* onHalt: a breach in this process *)
Halts ==
    /\ Running /\ ~shutting /\ ~haltStored
    /\ haltStored' = TRUE /\ health' = "halted"
    /\ RunnerOnly /\ UNCHANGED <<shutting, ticks, feedDead, countVars>>

Stalled == ticks \in {"stalled", "mute"}
Watches == ~shutting /\ health # "halted"

StallExit ==
    /\ Running /\ Watches /\ Stalled
    /\ health' = "stopped"
    /\ Exits(Runner)
    /\ UNCHANGED <<shutting, ticks, haltStored, feedDead, countVars>>

(* SIGTERM: services first, then the last heartbeat, then the exit *)
ShutDown ==
    /\ Running /\ stopping # "no" /\ ~shutting
    /\ shutting' = TRUE /\ health' = "stopped"
    /\ RunnerOnly /\ UNCHANGED <<ticks, haltStored, feedDead, countVars>>

ShutDownEnds ==
    /\ Running /\ shutting
    /\ Exits(Runner)
    /\ UNCHANGED <<runnerVars, countVars>>

SupervisorNext ==
    \/ \E c \in Children : StartAgain(c) \/ WindowPasses(c) \/ Crash(c)
    \/ Terminate \/ Ends \/ DockerRestarts
    \/ PriceTick \/ FeedDies \/ FeedReturnsLater \/ Silent \/ Snapshot \/ Halts
    \/ StallExit \/ ShutDown \/ ShutDownEnds

SupervisorSpec == SupervisorInit /\ [][SupervisorNext]_supervisorVars

-----------------------------------------------------------------------------

SupervisorTypeOK ==
    /\ container \in {"up", "exit0", "exit1"} /\ stopping \in {"no", "asked", "failed"}
    /\ alive \subseteq Children /\ waiting \subseteq Children \ alive
    /\ recent \in [Children -> 0..(MaxRestarts + 1)]
    /\ health \in {"starting", "running", "halted", "stopped"}
    /\ ticks \in {"never", "fresh", "stale", "stalled", "mute"}
    /\ {shutting, haltStored, feedDead} \subseteq BOOLEAN
    /\ container = "up" /\ stopping = "no" => alive # {}

(* More restarts in the window than allowed end the container. *)
CrashLoopEnds ==
    (\E c \in Children : recent[c] > MaxRestarts) ~> container # "up"

(* A container that is going down starts no child again. *)
NoStartWhileStopping ==
    [][container = "up" /\ container' = "up" /\ stopping # "no" => alive' \subseteq alive]_supervisorVars

(* Whatever crashes or is terminated, a runner runs again. *)
RunnerComesBack == []<>Running

(* A runner whose feed stays dead ends its process, so that a new one can
   rebuild the feed: unless it halted in this process. *)
BlindEnds ==
    (Running /\ feedDead /\ health # "halted") ~> (~Running \/ ~feedDead \/ health = "halted")

(* runner/index.ts:376-379: no runner stays alive but blind. *)
BlindNeverStays == (Running /\ feedDead) ~> (~Running \/ ~feedDead)

(* A container that stops starts no child. *)
StopIsRespected == []SupervisorTypeOK /\ NoStartWhileStopping

(* A crash loop ends the container, a runner that exits comes back, and one that is blind exits. *)
SupervisorHolds == CrashLoopEnds /\ RunnerComesBack /\ BlindEnds

=============================================================================
