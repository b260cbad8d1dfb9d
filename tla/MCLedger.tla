------------------------------- MODULE MCLedger -------------------------------
(* What is kept: the ledger of the broker, the clock that says which funding
   settlements are charged to it, the local archive of the signals, and the health
   report that asks every component.  The broker takes the amounts as they come, so one
   of them moves in each behaviour. *)
EXTENDS MCPaperBroker, FundingClock, SignalArchive, HealthReport
VARIABLE focus

kept == <<focus, vars, fundingVars, archiveVars, healthVars>>

(* Two instants, one of them shared by two rows *)
SomeSignals == {<<1, 1>>, <<1, 2>>, <<2, 1>>}

(* Nothing configured, the trade tables alone, all of it *)
SomeConfigurations == {{}, {"trades"}, {"trades", "venue", "mirror", "redis"}}

KeptInit ==
    /\ focus \in {"broker", "funding", "archive", "health"}
    /\ Init /\ FundingInit /\ ArchiveInit /\ HealthInit
    /\ focus # "funding" => period = DefaultPeriod /\ due = DefaultPeriod
    /\ focus # "health" => configured = {}

KeptNext ==
    /\ \/ focus = "broker" /\ Next /\ UNCHANGED <<fundingVars, archiveVars, healthVars>>
       \/ focus = "funding" /\ FundingNext /\ UNCHANGED <<vars, archiveVars, healthVars>>
       \/ focus = "archive" /\ ArchiveNext /\ UNCHANGED <<vars, fundingVars, healthVars>>
       \/ focus = "health" /\ HealthNext /\ UNCHANGED <<vars, fundingVars, archiveVars>>
    /\ UNCHANGED focus

(* The start-up runs to its end and the timers fire *)
Boots == RecoverRead \/ \E ok \in BOOLEAN : BootIntervals(ok) \/ BootTickers(ok) \/ RecoverReplay(ok)
FundingFairness ==
    /\ WF_fundingVars(focus = "funding" /\ Boots)
    /\ WF_fundingVars(focus = "funding" /\ PollIntervals)
    /\ WF_fundingVars(focus = "funding" /\ PollTickers)
    /\ WF_fundingVars(focus = "funding" /\ AccrueFunding)
    /\ WF_fundingVars(focus = "funding" /\ ReconcileSettled)

(* The script runs unless it dies *)
ArchiveFairness ==
    /\ WF_archiveVars(focus = "archive" /\ Manifest)
    /\ WF_archiveVars(focus = "archive" /\ Page)
    /\ WF_archiveVars(focus = "archive" /\ DigestPage)
    /\ WF_archiveVars(focus = "archive" /\ Verify)

(* Deadlines are kept, and what has none answers in the end *)
HealthFairness ==
    /\ WF_healthVars(focus = "health" /\ FourSeconds)
    /\ \A p \in Probes : WF_healthVars(focus = "health" /\ AbortProbe(p))
    /\ \A p \in Neon : WF_healthVars(focus = "health" /\ (Answers(p) \/ Refuses(p)))
    /\ WF_healthVars(focus = "health" /\ OtherVenue)
    /\ WF_healthVars(focus = "health" /\ \E hooked \in BOOLEAN : Compose(hooked))
    /\ WF_healthVars(focus = "health" /\ HookAnswers)
    /\ WF_healthVars(focus = "health" /\ Respond)

KeptSpec ==
    /\ KeptInit /\ [][KeptNext]_kept
    /\ FundingFairness /\ ArchiveFairness /\ HealthFairness
=============================================================================
