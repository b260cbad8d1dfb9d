---------------------------- MODULE HealthReport ----------------------------
(* health/checks.server.ts and routes/api/public/health.ts: one GET asks every
   configured component in parallel, four seconds each; the answers are rolled up
   into one status, the alert hook is told, and the caller gets 200 or 503. *)
EXTENDS Naturals, FiniteSets
CONSTANTS Ranked,       \* Bybit time, Redis, NATS: asked with fetch, "down" when they fail
          Neon,         \* the auth store and the trade tables: asked through the driver
          Venue,        \* the signed wallet call
          Mirror,       \* Binance demo
          Configurations, \* the sets of components that have an address and credentials
          MaxRequests   \* bound

Probes == Ranked \cup Neon \cup {Venue, Mirror}

ASSUME HealthAssumption ==
    /\ IsFiniteSet(Probes) /\ Configurations \subseteq SUBSET Probes
    /\ Ranked \cap Neon = {} /\ Venue \notin Ranked \cup Neon /\ Mirror \notin Ranked \cup Neon
    /\ Venue # Mirror /\ MaxRequests \in Nat

VARIABLES configured,  \* the environment of the deployment
          phase,       \* of the request
          reply,       \* what has come of each probe
          elapsed,     \* PROBE_TIMEOUT_MS has passed
          report,      \* the states of the components
          code,        \* the HTTP status of the last answer
          strict,      \* ?strict=1
          unreachable, \* which components did not answer this request at all
          requests

healthVars == <<configured, phase, reply, elapsed, report, code, strict, unreachable, requests>>

Answered == {"ok", "slow", "rejected", "wrong_venue", "failed", "unset"}
Pending == {"asked", "status", "other_venue"}

NothingAsked == [p \in Probes |-> "unset"]
NothingReported == [p \in Probes |-> "skipped"]

HealthInit ==
    /\ configured \in Configurations
    /\ phase = "idle" /\ elapsed = FALSE /\ code = 0 /\ strict = FALSE /\ requests = 0
    /\ reply = NothingAsked /\ report = NothingReported /\ unreachable = {}

(* GET /api/public/health: Promise.all over the checks *)
GetHealth(s) ==
    /\ phase = "idle" /\ requests < MaxRequests
    /\ phase' = "probing" /\ strict' = s /\ requests' = requests + 1 /\ elapsed' = FALSE
    /\ reply' = [p \in Probes |-> IF p \in configured THEN "asked" ELSE "unset"]
    /\ unreachable' = {}
    /\ UNCHANGED <<configured, report, code>>

Hear(p, what) ==
    /\ phase = "probing"
    /\ reply' = [reply EXCEPT ![p] = what]
    /\ UNCHANGED <<configured, phase, elapsed, report, code, strict, requests>>

(* A good answer; only slow when it took longer than the component's threshold *)
Answers(p) ==
    /\ reply[p] = "asked"
    /\ ~elapsed \/ p \in Neon
    /\ Hear(p, IF elapsed THEN "slow" ELSE "ok") \/ Hear(p, "slow")
    /\ UNCHANGED unreachable

(* No connection, an error status, a body that is not what it should be *)
Refuses(p) ==
    /\ reply[p] = "asked"
    /\ Hear(p, "failed") /\ unreachable' = unreachable \cup {p}

(* The wallet call: a rejection is the status 401 or 403, or a retCode in the body *)
RejectedBody ==
    /\ reply[Venue] \in {"asked", "status"} /\ ~elapsed
    /\ Hear(Venue, "other_venue") \/ Hear(Venue, "rejected")
    /\ UNCHANGED unreachable

RejectedStatus ==
    /\ reply[Venue] = "asked" /\ ~elapsed
    /\ Hear(Venue, "status") /\ UNCHANGED unreachable

(* The key is tried on the other venue, without a deadline *)
OtherVenue ==
    /\ reply[Venue] = "other_venue"
    /\ Hear(Venue, "rejected") \/ Hear(Venue, "wrong_venue")
    /\ UNCHANGED unreachable

FourSeconds ==
    /\ phase = "probing" /\ ~elapsed
    /\ elapsed' = TRUE
    /\ UNCHANGED <<configured, phase, reply, report, code, strict, unreachable, requests>>

(* The abort of a fetch that is still open; the Neon driver is given no signal *)
AbortProbe(p) ==
    /\ elapsed /\ p \notin Neon
    /\ \/ /\ reply[p] = "asked" /\ Hear(p, "failed") /\ unreachable' = unreachable \cup {p}
       \/ /\ reply[p] = "status" /\ (Hear(p, "other_venue") \/ Hear(p, "rejected")) /\ UNCHANGED unreachable

(* The state each check returns.  Without an address or credentials: *)
Unconfigured(p) == IF p \in Neon THEN "down" ELSE "skipped"
Slow(p) == IF p = Mirror THEN "ok" ELSE "degraded"
Missed_Alike(p) == "down"
Missed(p) == IF p = Mirror THEN "degraded" ELSE "down"

StateOf(p) ==
    CASE reply[p] = "unset" -> Unconfigured(p)
      [] reply[p] = "ok" -> "ok"
      [] reply[p] = "slow" -> Slow(p)
      [] reply[p] \in {"rejected", "wrong_venue"} -> "degraded"
      [] reply[p] = "failed" -> Missed(p)

Failures(states) == {p \in Probes : states[p] \in {"degraded", "down"}}
Rollup(states) ==
    IF \E p \in Probes : states[p] = "down" THEN "down"
    ELSE IF \E p \in Probes : states[p] = "degraded" THEN "degraded" ELSE "ok"

(* runHealthChecks: the report, and the alert when it is not "ok" and a hook is set *)
Compose(hooked) ==
    /\ phase = "probing" /\ \A p \in Probes : reply[p] \in Answered
    /\ report' = [p \in Probes |-> StateOf(p)]
    /\ phase' = IF hooked /\ Rollup(report') # "ok" THEN "notifying" ELSE "composed"
    /\ UNCHANGED <<configured, reply, elapsed, code, strict, unreachable, requests>>

(* The hook answers, or fails, which is swallowed *)
HookAnswers ==
    /\ phase = "notifying"
    /\ phase' = "composed"
    /\ UNCHANGED <<configured, reply, elapsed, report, code, strict, unreachable, requests>>

Respond ==
    /\ phase = "composed"
    /\ phase' = "idle"
    /\ code' = IF strict /\ Rollup(report) = "down" THEN 503 ELSE 200
    /\ elapsed' = FALSE /\ reply' = NothingAsked /\ report' = NothingReported
    /\ UNCHANGED <<configured, strict, unreachable, requests>>

HealthNext ==
    \/ \E s \in BOOLEAN : GetHealth(s)
    \/ \E p \in Probes : Answers(p) \/ Refuses(p) \/ AbortProbe(p)
    \/ RejectedBody \/ RejectedStatus \/ OtherVenue \/ FourSeconds
    \/ \E hooked \in BOOLEAN : Compose(hooked)
    \/ HookAnswers \/ Respond

----------------------------------------------------------------------------
HealthTypeOK ==
    /\ phase \in {"idle", "probing", "notifying", "composed"}
    /\ reply \in [Probes -> Answered \cup Pending]
    /\ report \in [Probes -> {"ok", "degraded", "down", "skipped"}]
    /\ code \in {0, 200, 503} /\ unreachable \subseteq configured

(* An alarm is 503 exactly when the caller asked for one and a component the engine
   cannot do without is missing or did not answer: rejected keys, a slow answer and
   whatever Binance does never take the deployment out of rotation, and no
   interleaving of late answers and aborts turns an outage into a 200. *)
AlarmsAreReal ==
    phase = "idle" /\ requests > 0 =>
       (code = 503 <=> strict /\ (Neon \ configured) \cup (unreachable \ {Mirror}) # {})

(* All is well is said only of a deployment whose configured components answered in
   time, every one of them. *)
OkIsEarned ==
    phase = "composed" /\ Rollup(report) = "ok" =>
       Neon \subseteq configured /\ \A p \in configured : reply[p] = "ok" \/ (p = Mirror /\ reply[p] = "slow")

(* Every request is answered, if Neon, the other venue and the hook do: nothing else
   can hold the report up. *)
ReportReturns == phase = "probing" ~> phase = "idle"

HealthSpec == HealthInit /\ [][HealthNext]_healthVars

(* The report neither hides an outage nor makes one up, and is given in the end (getHealth). *)
ReportIsHonest == [](HealthTypeOK /\ AlarmsAreReal /\ OkIsEarned) /\ ReportReturns

=============================================================================
