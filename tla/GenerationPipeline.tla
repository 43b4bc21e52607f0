------------------------- MODULE GenerationPipeline -------------------------
(***************************************************************************)
(* From POST /generation to a deploy: the API's generation routes, the     *)
(* three Pub/Sub topics between API and generator, the generator's         *)
(* contract code, the completed-subscriber with the bundle bucket, and the *)
(* two routes that deploy a finished generation of one app.                *)
(*                                                                         *)
(* A row is [status, error, path, deployed, version]; `path` says whether  *)
(* bundle_gcs_path is set.  The agents' crew is not in the repository: a   *)
(* run publishes progress at will and ends in one verdict, with or without *)
(* a bundle, which the message's schema has optional for either.  Messages *)
(* are at-least-once: a nack or a crash of the subscriber redelivers, and  *)
(* an acknowledged message may come again.                                 *)
(***************************************************************************)
EXTENDS Naturals, FiniteSets

CONSTANTS
    Jobs,        \* the jobs of the app; 0 stands for none
    Surfaces,    \* [Jobs -> sets of "widget" and "admin"]: its bundle's modules
    HasCron,     \* the jobs whose bundle has a cronSchedule
    MaxLosses,   \* bound: failing publishes and lost generator runs
    MaxFaults,   \* bound: nacks, redeliveries, swallowed bookkeeping writes
    MaxReports,  \* bound: progress events in flight when a run reports a step
    MaxCalls     \* bound: deploy requests the API serves at a time

AllSurfaces == {"widget", "admin"}
Routes      == {"approve", "deploy"}
Verdicts    == {"success", "failed"}
Messages    == [job : Jobs, status : Verdicts, bundle : BOOLEAN]

ASSUME PipelineAssumption ==
    /\ Jobs \subseteq Nat \ {0} /\ IsFiniteSet(Jobs)
    /\ Surfaces \in [Jobs -> SUBSET AllSurfaces]
    /\ HasCron \subseteq Jobs
    /\ {MaxLosses, MaxFaults, MaxReports, MaxCalls} \subseteq Nat

VARIABLES
    row,         \* the generations table
    intake,      \* what the API has done of each start or revise request
    requests,    \* generation.requested: jobs with a message in flight
    runs,        \* generator runs executing, per job
    events,      \* generation.progress: [job, kind] in flight
    at,          \* generation.completed: where each message is, see MsgPlaces
    uploads,     \* surfaces a message's saveBundles has still to upload
    stored,      \* jobs whose bundle.json is in the bucket
    served,      \* the job whose widget.js / admin.js the app serves, or 0
    archetype,   \* the surfaces apps.app_archetype promises
    deployAt,    \* progress of the deploy routes
    deploys,     \* deploys started: [job, cron]
    losses, faults

submission == <<row, intake, requests, runs, events>>
completion == <<at, uploads, stored, served, archetype>>
deployment == <<deployAt, deploys>>
vars == <<submission, completion, deployment, losses, faults>>

Statuses  == {"absent", "pending", "success", "failed"}
Rows      == [status : Statuses, error : {"none", "cancelled", "failed"},
              path : BOOLEAN, deployed : BOOLEAN, version : BOOLEAN]
Kinds     == {"step", "failed", "explained"}
Events    == [job : Jobs, kind : Kinds]
Handling  == {"store", "serve", "archetype", "persist", "ack"}
MsgPlaces == {"none", "queued", "done"} \cup Handling
NoRow     == [status |-> "absent", error |-> "none", path |-> FALSE,
              deployed |-> FALSE, version |-> FALSE]

TypeOK ==
    /\ row \in [Jobs -> Rows]
    /\ intake \in [Jobs -> {"none", "inserted", "accepted", "rejected"}]
    /\ requests \subseteq Jobs
    /\ runs \in [Jobs -> Nat]
    /\ events \subseteq Events
    /\ at \in [Messages -> MsgPlaces]
    /\ uploads \in [Messages -> SUBSET AllSurfaces]
    /\ stored \subseteq Jobs
    /\ served \in [AllSurfaces -> Jobs \cup {0}]
    /\ archetype \subseteq AllSurfaces
    /\ deployAt \in [Jobs -> [Routes -> {"idle", "checked", "started"}]]
    /\ deploys \subseteq [job : Jobs, cron : BOOLEAN]
    /\ losses \in 0 .. MaxLosses /\ faults \in 0 .. MaxFaults

Init ==
    /\ row = [j \in Jobs |-> NoRow]
    /\ intake = [j \in Jobs |-> "none"]
    /\ requests = {} /\ events = {}
    /\ runs = [j \in Jobs |-> 0]
    /\ at = [m \in Messages |-> "none"]
    /\ uploads = [m \in Messages |-> {}]
    /\ stored = {}
    /\ served = [s \in AllSurfaces |-> 0]
    /\ archetype = {}
    /\ deployAt = [j \in Jobs |-> [r \in Routes |-> "idle"]]
    /\ deploys = {}
    /\ losses = 0 /\ faults = 0

Loss  == losses < MaxLosses /\ losses' = losses + 1 /\ UNCHANGED faults
Fault == faults < MaxFaults /\ faults' = faults + 1 /\ UNCHANGED losses
NoFault == UNCHANGED <<losses, faults>>

-----------------------------------------------------------------------------
(* POST /generation and POST /generation/:jobId/revise *)

\* createPendingGeneration: ON CONFLICT DO NOTHING, the jobId is a fresh UUID.
createPendingGeneration(j) ==
    row' = [row EXCEPT ![j] =
        IF @.status = "absent" THEN [NoRow EXCEPT !.status = "pending"] ELSE @]

\* The gates pass and the row is inserted.  The generations-per-month gate
\* reads a counter no code increments, so it never refuses a started plan.
Accept(j) ==
    /\ intake[j] = "none"
    /\ createPendingGeneration(j)
    /\ intake' = [intake EXCEPT ![j] = "inserted"]
    /\ NoFault
    /\ UNCHANGED <<requests, runs, events, completion, deployment>>

\* 402 or 404 (a gate refuses), or the INSERT rejects: no row.
Refuse(j) ==
    /\ intake[j] = "none"
    /\ intake' = [intake EXCEPT ![j] = "rejected"]
    /\ NoFault
    /\ UNCHANGED <<row, requests, runs, events, completion, deployment>>

Publish(j) ==
    /\ intake[j] = "inserted"
    /\ requests' = requests \cup {j}
    /\ intake' = [intake EXCEPT ![j] = "accepted"]
    /\ NoFault
    /\ UNCHANGED <<row, runs, events, completion, deployment>>

\* The publish (or, for a revision, the download of the prior bundle before
\* it) rejects, or the API dies: 500, and the pending row stays.
PublishFails(j) ==
    /\ intake[j] = "inserted"
    /\ Loss
    /\ intake' = [intake EXCEPT ![j] = "rejected"]
    /\ UNCHANGED <<row, requests, runs, events, completion, deployment>>

\* Mutant of CancelRow: the UPDATE without AND status = 'pending'.
MutCancelRow(j) ==
    row' = [row EXCEPT ![j] = [@ EXCEPT !.status = "failed", !.error = "cancelled"]]

\* cancelPendingGeneration; the generator is not told.
CancelRow(j) ==
    row' = [row EXCEPT ![j] =
        IF @.status = "pending" THEN [@ EXCEPT !.status = "failed", !.error = "cancelled"]
                                ELSE @]

Cancel(j) ==
    /\ row[j].status # "absent"
    /\ CancelRow(j)
    /\ NoFault
    /\ UNCHANGED <<intake, requests, runs, events, completion, deployment>>

-----------------------------------------------------------------------------
(* The generator *)

\* on_message acknowledges before it runs the callback; Pub/Sub may still
\* deliver the message once more.
Deliver(j) ==
    /\ j \in requests
    /\ runs' = [runs EXCEPT ![j] = @ + 1]
    /\ \/ NoFault /\ requests' = requests \ {j}
       \/ Fault /\ UNCHANGED requests
    /\ UNCHANGED <<row, intake, events, completion, deployment>>

\* publish_progress.  An agent may report "failed" and the run still go on.
Report(j) ==
    /\ runs[j] > 0 /\ Cardinality(events) < MaxReports
    /\ \E k \in {"step", "failed"} : events' = events \cup {[job |-> j, kind |-> k]}
    /\ NoFault
    /\ UNCHANGED <<row, intake, requests, runs, completion, deployment>>

\* The run ends: its last progress event and publish_completed.
Finish(j) ==
    /\ runs[j] > 0
    /\ runs' = [runs EXCEPT ![j] = @ - 1]
    /\ \E v \in Verdicts, b \in BOOLEAN :
          LET m == [job |-> j, status |-> v, bundle |-> b] IN
          /\ events' = events \cup
                {[job |-> j, kind |-> IF v = "success" THEN "explained" ELSE "failed"]}
          /\ at' = [at EXCEPT ![m] = IF @ \in Handling THEN @ ELSE "queued"]
    /\ NoFault
    /\ UNCHANGED <<row, intake, requests, uploads, stored, served, archetype, deployment>>

\* The generator is scaled down or dies, or publish_completed rejects and the
\* exception is only logged: the acknowledged job is gone.
RunLost(j) ==
    /\ runs[j] > 0
    /\ Loss
    /\ runs' = [runs EXCEPT ![j] = @ - 1]
    /\ events' \in {events, events \cup {[job |-> j, kind |-> "explained"]}}
    /\ UNCHANGED <<row, intake, requests, completion, deployment>>

-----------------------------------------------------------------------------
(* The completed-subscriber: handleMessage.  Messages are handled concurrently. *)

Goto(m, place) == at' = [at EXCEPT ![m] = place]

\* What there is to store depends on the bundle, whatever the status says.
Take(m) ==
    /\ at[m] = "queued"
    /\ Goto(m, IF m.bundle THEN "store" ELSE "persist")
    /\ NoFault
    /\ UNCHANGED <<submission, uploads, stored, served, archetype, deployment>>

\* Mutant of Store: the uploads are started and not awaited.
MutStore(m) ==
    /\ at[m] = "store"
    /\ stored' = stored \cup {m.job}
    /\ Goto(m, "archetype")
    /\ NoFault
    /\ UNCHANGED <<submission, uploads, served, archetype, deployment>>

\* saveGenerationBundle, then saveBundles starts both uploads, if any.
Store(m) ==
    /\ at[m] = "store"
    /\ stored' = stored \cup {m.job}
    /\ uploads' = [uploads EXCEPT ![m] = Surfaces[m.job]]
    /\ Goto(m, IF Surfaces[m.job] = {} THEN "archetype" ELSE "serve")
    /\ NoFault
    /\ UNCHANGED <<submission, served, archetype, deployment>>

\* One upload of the Promise.all; no code ever deletes an object of a surface
\* the new bundle has not.
Upload(m, s) ==
    /\ at[m] = "serve" /\ s \in uploads[m]
    /\ served' = [served EXCEPT ![s] = m.job]
    /\ uploads' = [uploads EXCEPT ![m] = @ \ {s}]
    /\ Goto(m, IF uploads[m] = {s} THEN "archetype" ELSE "serve")
    /\ NoFault
    /\ UNCHANGED <<submission, stored, archetype, deployment>>

updateAppArchetype(m) ==
    /\ at[m] = "archetype"
    /\ archetype' = Surfaces[m.job]
    /\ Goto(m, "persist")
    /\ NoFault
    /\ UNCHANGED <<submission, uploads, stored, served, deployment>>

\* upsertGeneration: status, error and bundle of the message, whatever the row
\* says now; deployed and the version id stay.
upsertGeneration(m) ==
    /\ at[m] = "persist"
    /\ row' = [row EXCEPT ![m.job] =
          [@ EXCEPT !.status = m.status,
                    !.error  = IF m.status = "failed" THEN "failed" ELSE "none",
                    !.path   = m.bundle]]
    /\ Goto(m, "ack")
    /\ NoFault
    /\ UNCHANGED <<intake, requests, runs, events, uploads, stored, served, archetype,
                   deployment>>

\* Mutant of Ack: a message is acknowledged once it is parsed.
MutAck(m) ==
    /\ at[m] \in Handling
    /\ Goto(m, "done")
    /\ NoFault
    /\ UNCHANGED <<submission, uploads, stored, served, archetype, deployment>>

Ack(m) ==
    /\ at[m] = "ack"
    /\ Goto(m, "done")
    /\ NoFault
    /\ UNCHANGED <<submission, uploads, stored, served, archetype, deployment>>

\* A step rejects and the message is nacked, the instance dies while it
\* handles it, or an acknowledged message is delivered again.
Redeliver(m) ==
    /\ at[m] \in Handling \cup {"done"}
    /\ Fault
    /\ Goto(m, "queued")
    /\ uploads' = [uploads EXCEPT ![m] = {}]
    /\ UNCHANGED <<submission, stored, served, archetype, deployment>>

-----------------------------------------------------------------------------
(* approveHandler and deployGenerationHandler *)

CallSlot == Cardinality({x \in Jobs \X Routes : deployAt[x[1]][x[2]] # "idle"}) < MaxCalls

\* Mutant of Check: the row's bundle is enough.
MutCheck(j, r) ==
    /\ CallSlot
    /\ deployAt[j][r] = "idle"
    /\ row[j].path
    /\ deployAt' = [deployAt EXCEPT ![j][r] = "checked"]
    /\ NoFault
    /\ UNCHANGED <<submission, completion, deploys>>

\* A success without a bundle is refused (409 on approve, 500 on deploy).
Check(j, r) ==
    /\ CallSlot
    /\ deployAt[j][r] = "idle"
    /\ row[j].status = "success" /\ row[j].path
    /\ deployAt' = [deployAt EXCEPT ![j][r] = "checked"]
    /\ NoFault
    /\ UNCHANGED <<submission, completion, deploys>>

\* The bundle and the app's row are read and the deploy started; approve passes
\* no cronSchedule.
startDeploy(j, r) ==
    /\ deployAt[j][r] = "checked"
    /\ j \in stored
    /\ deploys' = deploys \cup {[job |-> j, cron |-> r = "deploy" /\ j \in HasCron]}
    /\ deployAt' = [deployAt EXCEPT ![j][r] = "started"]
    /\ NoFault
    /\ UNCHANGED <<submission, completion>>

\* 500 Bundle malformed, 404 for an app deleted since, or a read that rejects.
DeployRefused(j, r) ==
    /\ deployAt[j][r] = "checked"
    /\ deployAt' = [deployAt EXCEPT ![j][r] = "idle"]
    /\ NoFault
    /\ UNCHANGED <<submission, completion, deploys>>

\* markGenerationDeployed and, on approve, setGenerationAppVersionId: a failure
\* of either is swallowed.
Mark(j, r) ==
    /\ deployAt[j][r] = "started"
    /\ deployAt' = [deployAt EXCEPT ![j][r] = "idle"]
    /\ \E marked, named \in BOOLEAN :
          /\ IF marked /\ named THEN NoFault ELSE Fault
          /\ row' = [row EXCEPT ![j].deployed = @ \/ marked,
                                ![j].version  = @ \/ (named /\ r = "approve")]
    /\ UNCHANGED <<intake, requests, runs, events, completion, deploys>>

-----------------------------------------------------------------------------
JobStep(j) ==
    \/ Accept(j) \/ Refuse(j) \/ Publish(j) \/ PublishFails(j) \/ Cancel(j)
    \/ Deliver(j) \/ Report(j) \/ Finish(j) \/ RunLost(j)

\* handleMessage to its end
Handle(m) ==
    \/ Take(m) \/ Store(m) \/ updateAppArchetype(m) \/ upsertGeneration(m) \/ Ack(m)
    \/ \E s \in AllSurfaces : Upload(m, s)

MessageStep(m) == Handle(m) \/ Redeliver(m)

DeployStep(j, r) == Check(j, r) \/ startDeploy(j, r) \/ DeployRefused(j, r) \/ Mark(j, r)

\* An event nobody listens for is acknowledged all the same.
Pull(e) ==
    /\ e \in events
    /\ events' = events \ {e}
    /\ NoFault
    /\ UNCHANGED <<row, intake, requests, runs, completion, deployment>>

Next ==
    \/ \E j \in Jobs : JobStep(j)
    \/ \E m \in Messages : MessageStep(m)
    \/ \E j \in Jobs, r \in Routes : DeployStep(j, r)
    \/ \E e \in Events : Pull(e)

Spec == Init /\ [][Next]_vars

\* The API and the subscriber finish what they began, and a run of the
\* generator ends: its loops are bounded.
Fairness ==
    /\ \A j \in Jobs : WF_vars(Publish(j) \/ Deliver(j) \/ Finish(j))
    /\ \A m \in Messages : WF_vars(Handle(m))

FairSpec == Spec /\ Fairness

-----------------------------------------------------------------------------
(* An app whose archetype promises a widget or an admin page serves one:   *)
(* the storefront and the admin list read the archetype and then fetch the *)
(* object, while other completions, retries and crashes are under way.     *)
ArchetypeIsServed == \A s \in archetype : served[s] # 0

(* The pipeline implements the ledger the dashboard and the deployer rely  *)
(* on: no row names a bundle that is not kept, a deploy is only begun for  *)
(* a success that names one and only then marked, and no cancel of a job   *)
(* that already has a verdict.                                             *)
Verdict(j) == IF row[j].error = "cancelled" THEN "cancelled" ELSE row[j].status

Ledger == INSTANCE GenerationLedger WITH
    verdict   <- [j \in Jobs |-> Verdict(j)],
    kept      <- stored,
    named     <- {j \in Jobs : row[j].path},
    deploying <- {j \in Jobs : \E r \in Routes : deployAt[j][r] # "idle"},
    deployed  <- {j \in Jobs : row[j].deployed \/ row[j].version}

ImplementsLedger == Ledger!Spec

(* Every generation is decided in the end, unless its request or its run   *)
(* was lost: a pending row does not stay pending through retries and       *)
(* redeliveries.                                                           *)
GenerationsSettle == \A j \in Jobs : row[j].status = "pending" ~> row[j].status # "pending"
=============================================================================
