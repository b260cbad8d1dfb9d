------------------------------- MODULE Deploy -------------------------------
(***************************************************************************)
(* Rolling out an image (scripts/deploy-vps.sh, scripts/apply-schema.mjs,  *)
(* docker-compose.prod.yml): the schema is applied statement by statement  *)
(* from inside the new image while the old one trades, and the stack is    *)
(* restarted only when every statement went through.                       *)
(*                                                                         *)
(* Around it: CI publishes images, Watchtower replaces the container every *)
(* few minutes on its own, and an operator applies the schema of some      *)
(* checkout by hand.  An object is a table, column or index; the function  *)
(* edge_report is replaced by each script, so its version is kept.         *)
(***************************************************************************)
EXTENDS Naturals, FiniteSets, Sequences

CONSTANTS
    Scripts,     \* per version of the image, the objects its script creates in order
    Refers,      \* per object, the objects that its statement refers to
    Watched,     \* Watchtower runs beside the stack
    MaxRollouts, \* bound: runs of deploy-vps.sh
    MaxByHand,   \* bound: runs of apply-schema by hand
    MaxPolls,    \* rounds of the health check
    MaxNetwork   \* bound: statements, pulls and queries that fail

Releases == DOMAIN Scripts
Objects(v) == {Scripts[v][i] : i \in DOMAIN Scripts[v]}

ASSUME DeployAssumption ==
    /\ Scripts \in Seq(Seq(STRING)) /\ Scripts # <<>>
    /\ \A v \in Releases : \A i \in DOMAIN Scripts[v] :      \* schema.sql is ordered
          Refers[Scripts[v][i]] \subseteq {Scripts[v][j] : j \in 1..(i - 1)}
    /\ Watched \in BOOLEAN /\ {MaxRollouts, MaxByHand, MaxPolls, MaxNetwork} \subseteq Nat

VARIABLES latest,     \* :latest in the registry
          pulled,     \* :latest on this host
          container,  \* [image, phase]
          objects,    \* what the database has
          report,     \* the version of edge_report, or 0
          rollout,    \* deploy-vps.sh: [phase, from, next, failed, schema, polls]
          applying,   \* apply-schema by hand: [from, next], or from 0
          deploys, byHand, network

deployVars == <<latest, pulled, container, objects, report, rollout, applying, deploys, byHand, network>>
databaseVars == <<objects, report>>

NoRollout == [phase |-> "idle", from |-> 0, next |-> 1, failed |-> FALSE, schema |-> TRUE, polls |-> 0]

(* A host that runs the first version on its schema *)
DeployInit ==
    /\ latest = 1 /\ pulled = 1
    /\ container = [image |-> 1, phase |-> "healthy"]
    /\ objects = Objects(1) /\ report = 1
    /\ rollout = NoRollout /\ applying = [from |-> 0, next |-> 1]
    /\ deploys = 0 /\ byHand = 0 /\ network = 0

Fails == network < MaxNetwork /\ network' = network + 1
Goes == UNCHANGED network

Publish ==
    /\ latest < Len(Scripts) /\ latest' = latest + 1
    /\ UNCHANGED <<pulled, container, databaseVars, rollout, applying, deploys, byHand, network>>

(* A new container answers once its runner has booted, which asks for edge_report *)
Answers ==
    /\ container.phase = "starting" /\ report > 0
    /\ container' = [container EXCEPT !.phase = "healthy"]
    /\ UNCHANGED <<latest, pulled, databaseVars, rollout, applying, deploys, byHand, network>>

(* Watchtower pulls a digest that is new and replaces the container *)
Watchtower ==
    /\ Watched /\ latest # container.image
    /\ pulled' = latest /\ container' = [image |-> latest, phase |-> "starting"]
    /\ UNCHANGED <<latest, databaseVars, rollout, applying, deploys, byHand, network>>

----------------------------------------------------------------------------
(* apply-schema.mjs *)

(* One statement: the objects it adds, or none when it fails; the function comes last *)
Statement(v, i, lost) ==
    IF i <= Len(Scripts[v])
    THEN [done |-> ~lost /\ Refers[Scripts[v][i]] \subseteq objects,
          adds |-> {Scripts[v][i]}, report |-> report]
    ELSE [done |-> ~lost /\ Objects(v) \subseteq objects, adds |-> {}, report |-> v]

Execute(v, i, lost) ==
    LET s == Statement(v, i, lost)
    IN  /\ objects' = objects \cup IF s.done THEN s.adds ELSE {}
        /\ report' = IF s.done THEN s.report ELSE report
        /\ IF lost THEN Fails ELSE Goes

Ended(v, i) == i > Len(Scripts[v]) + 1

(* By hand, from the checkout of some version *)
ApplyByHand(v) ==
    /\ applying.from = 0 /\ byHand < MaxByHand /\ v <= latest
    /\ applying' = [from |-> v, next |-> 1] /\ byHand' = byHand + 1
    /\ UNCHANGED <<latest, pulled, container, databaseVars, rollout, deploys, network>>
StatementByHand(lost) ==
    /\ applying.from # 0
    /\ Execute(applying.from, applying.next, lost)
    /\ applying' = IF Ended(applying.from, applying.next + 1) THEN [from |-> 0, next |-> 1]
                   ELSE [applying EXCEPT !.next = @ + 1]
    /\ UNCHANGED <<latest, pulled, container, rollout, deploys, byHand>>

----------------------------------------------------------------------------
(* deploy-vps.sh *)

Abort == rollout' = [NoRollout EXCEPT !.phase = "failed"]

StartRollout(schema) ==
    /\ rollout.phase \in {"idle", "failed", "done"} /\ deploys < MaxRollouts
    /\ deploys' = deploys + 1
    /\ rollout' = [NoRollout EXCEPT !.phase = "pull", !.schema = schema]
    /\ UNCHANGED <<latest, pulled, container, databaseVars, applying, byHand, network>>

(* Preflight and pull; under `set -e` a failure ends the script.  The schema is applied
   from the image that is there when `compose run` starts. *)
Pull ==
    /\ rollout.phase = "pull"
    /\ \/ Goes /\ pulled' = latest
          /\ rollout' = [rollout EXCEPT !.phase = IF rollout.schema THEN "schema" ELSE "up", !.from = latest]
       \/ Fails /\ Abort /\ UNCHANGED pulled
    /\ UNCHANGED <<latest, container, databaseVars, applying, deploys, byHand>>

(* A statement that fails is counted, and the script goes on with the next *)
ApplyStatement(lost) ==
    /\ rollout.phase = "schema" /\ ~Ended(rollout.from, rollout.next)
    /\ Execute(rollout.from, rollout.next, lost)
    /\ rollout' = [rollout EXCEPT !.next = @ + 1,
                                  !.failed = @ \/ ~Statement(rollout.from, rollout.next, lost).done]
    /\ UNCHANGED <<latest, pulled, container, applying, deploys, byHand>>

Refused_IfNoReport == report = 0
Refused == report = 0 \/ rollout.failed

(* The check of edge_report, then the count of failures; either aborts the deploy *)
CheckSchema ==
    /\ rollout.phase = "schema" /\ Ended(rollout.from, rollout.next)
    /\ \/ Goes /\ IF Refused THEN Abort ELSE rollout' = [rollout EXCEPT !.phase = "up"]
       \/ Fails /\ Abort
    /\ UNCHANGED <<latest, pulled, container, databaseVars, applying, deploys, byHand>>

Recreated(v) == IF container.image = v THEN container ELSE [image |-> v, phase |-> "starting"]

(* `compose up -d`, which by its pull policy asks the registry once more *)
ComposeUp ==
    /\ rollout.phase = "up"
    /\ \/ Goes /\ pulled' = latest /\ container' = Recreated(latest)
          /\ rollout' = [rollout EXCEPT !.phase = "wait"]
       \/ Fails /\ Abort /\ UNCHANGED <<pulled, container>>
    /\ UNCHANGED <<latest, databaseVars, applying, deploys, byHand>>

Poll ==
    /\ rollout.phase = "wait"
    /\ rollout' = IF container.phase = "healthy" THEN [rollout EXCEPT !.phase = "done"]
                  ELSE IF rollout.polls < MaxPolls THEN [rollout EXCEPT !.polls = @ + 1]
                  ELSE [rollout EXCEPT !.phase = "failed"]
    /\ UNCHANGED <<latest, pulled, container, databaseVars, applying, deploys, byHand, network>>

DeployNext ==
    \/ Publish \/ Answers \/ Watchtower
    \/ \E v \in Releases : ApplyByHand(v)
    \/ \E lost \in BOOLEAN : StatementByHand(lost) \/ ApplyStatement(lost)
    \/ \E schema \in BOOLEAN : StartRollout(schema)
    \/ Pull \/ CheckSchema \/ ComposeUp \/ Poll

----------------------------------------------------------------------------

(* The database has no object without those that it refers to, and no version runs that
   was not published (deploy-vps.sh, apply-schema.mjs). *)
DeployTypeOK ==
    /\ latest \in Releases /\ pulled \in 1..latest /\ container.image \in 1..latest
    /\ container.phase \in {"starting", "healthy"}
    /\ \A x \in objects : Refers[x] \subseteq objects
    /\ report \in 0..latest
    /\ rollout.phase \in {"idle", "pull", "schema", "up", "wait", "done", "failed"}
    /\ rollout.polls \in 0..MaxPolls

(* A rollout that changes the version, and applies the schema of what it starts, starts it
   on every object of that schema, whichever statements failed in this run or in earlier
   ones and whoever else applied some: "aborting before restart" (deploy-vps.sh). *)
SchemaBeforeCode ==
    [][rollout.phase = "up" /\ container' # container /\ rollout'.phase = "wait"
          /\ rollout.schema /\ container'.image = rollout.from
       => Objects(container'.image) \subseteq objects]_deployVars

(* A rollout that reports success has a healthy container of the version whose schema it
   applied, or of a later one that was published meanwhile (up and the health loop). *)
DoneIsServed ==
    [][rollout.phase # "done" /\ rollout'.phase = "done" =>
          container.phase = "healthy" /\ container.image >= rollout.from]_deployVars

(* "if the code ships before these columns exist, EVERY trade write fails"
   (verify-migration.mjs): refuted, Watchtower starts a version on the old schema, and so
   does a push between the schema step and `up`. *)
CodeHasItsSchema == Objects(container.image) \subseteq objects

(* edge_report is never older than the code that asks it: refuted, a script of an older
   checkout replaces it. *)
ReportIsCurrent == container.phase = "healthy" => report >= container.image

DeploySpec == DeployInit /\ [][DeployNext]_deployVars

(* A deploy brings the schema before the code that needs it, and says it is done only of what
   is served. *)
RolloutIsSafe == []DeployTypeOK /\ SchemaBeforeCode /\ DoneIsServed

=============================================================================
