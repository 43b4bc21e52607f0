---------------------------- MODULE AppLifecycle ----------------------------
(***************************************************************************)
(* One app's infrastructure: the deploy orchestrator, teardown,            *)
(* reactivation, permanent deletion and the webhook reconciliation of a    *)
(* reinstall.  None of them takes a lock: each is a background task of an  *)
(* API process, and the tasks of an app interleave at every await.         *)
(*                                                                         *)
(* `local` is NODE_ENV = development.  Cloud Build is not implemented, so a *)
(* deploy gets past build_image only there; the states a cloud process     *)
(* starts from are the deployed app of lifecycle.test.ts.                  *)
(***************************************************************************)
EXTENDS Naturals, FiniteSets, Sequences

CONSTANTS
    Ops,         \* operations on the app, 1 .. n in the order they start
    Topics,      \* Shopify webhook topics
    Versions,    \* app_versions ids a deploy may name
    Recorded,    \* those with an app_versions row: nothing in src/ inserts one
    Bundle,      \* [Versions -> [cron : BOOLEAN, topics : SUBSET Topics]]
    MaxRunning,  \* bound: operations under way at a time
    MaxOpFaults  \* bound: failing calls and statements

ASSUME LifecycleAssumption ==
    /\ Ops \subseteq Nat /\ {MaxRunning, MaxOpFaults} \subseteq Nat
    /\ Recorded \subseteq Versions
    /\ Bundle \in [Versions -> [cron : BOOLEAN, topics : SUBSET Topics]]

VARIABLES
    local,       \* NODE_ENV = development
    appStatus,      \* apps.status, "gone" once the row is deleted
    account,     \* the number in apps.handler_sa_email, 0 when NULL
    accounts,    \* handler service accounts that exist in IAM
    funcs,       \* deployed_functions rows in deployed_at order: [version, cron, active]
    subs,        \* webhook_subscriptions per topic: [func, hook, active], func 0: no row
    hooks,       \* the id of Shopify's subscription per topic, 0: none
    minted,      \* the last id Shopify gave
    ticks,       \* the app's pg_cron job exists
    schema,      \* the app's Postgres schema exists
    service,     \* what runs under the function URL: [version, runner] or Down
    op,          \* the operations
    opFaults     \* faults so far

appRow == <<appStatus, account>>
tables == <<funcs, subs>>
outside == <<accounts, hooks, minted, ticks, schema, service>>
lifecycleVars == <<local, appRow, tables, outside, op, opFaults>>

None == "none"
Down == [version |-> None, runner |-> FALSE]
NoSub == [func |-> 0, hook |-> 0, active |-> FALSE]

\* The steps of each operation and what follows them; a DB transaction that
\* reads and then writes is two of them.
FirstStep == [deploy |-> "provision", teardown |-> "read", reactivate |-> "latest",
              delete |-> "read", reinstall |-> "read"]
Then(kind) == [
    provision |-> "build", build |-> "migrate", migrate |-> "run",
    run |-> IF kind = "deploy" THEN "update" ELSE "list", update |-> "insert",
    insert |-> "list", list |-> "create", create |-> "reconcile",
    reconcile |-> IF kind = "reinstall" THEN "over" ELSE "schedule", schedule |-> "over",
    latest |-> "run",
    read |-> "unregister", unregister |-> IF kind = "reinstall" THEN "list" ELSE "unschedule",
    unschedule |-> "stop", stop |-> IF kind = "teardown" THEN "deactivate" ELSE "account",
    deactivate |-> "over", account |-> "drop", drop |-> "hardDelete", hardDelete |-> "over" ]

NoOperation == [kind |-> None, at |-> "over", version |-> None, cron |-> FALSE,
         topics |-> {}, func |-> 0, sa |-> 0, prior |-> {}, found |-> [t \in Topics |-> 0],
         failed |-> FALSE, alone |-> FALSE, faulty |-> FALSE, before |-> {}]

Spent == [NoOperation EXCEPT !.kind = "spent"]      \* an ended operation nothing asks about

UnderWay(o) == op[o].at # "over"
At(o, step) == op[o].at = step
Ended(o, kind) == op[o].kind = kind /\ ~UnderWay(o)
NoOpFault == UNCHANGED opFaults
OpFault == opFaults < MaxOpFaults /\ opFaults' = opFaults + 1

\* The topics resolveWebhookContext routes, with the row it routes to.
Routed == {<<t, subs[t].func>> : t \in {x \in Topics :
              subs[x].func # 0 /\ subs[x].active /\ funcs[subs[x].func].active}}
Subscribed(t) == subs[t].func # 0 /\ subs[t].active

\* lifecycle.test.ts's app: deployed, active, with a service account.
Deployed(v) ==
    /\ appStatus = "active" /\ account = 1 /\ accounts = {1}
    /\ funcs = <<[version |-> v, cron |-> Bundle[v].cron, active |-> TRUE]>>
    /\ subs = [t \in Topics |-> IF t \in Bundle[v].topics
                                THEN [func |-> 1, hook |-> 1, active |-> TRUE] ELSE NoSub]
    /\ hooks = [t \in Topics |-> IF t \in Bundle[v].topics THEN 1 ELSE 0]
    /\ minted = 1 /\ ticks = Bundle[v].cron /\ schema = TRUE
    /\ service = [version |-> v, runner |-> Bundle[v].cron]

Draft ==
    /\ appStatus = "draft" /\ account = 0 /\ accounts = {}
    /\ funcs = <<>> /\ subs = [t \in Topics |-> NoSub]
    /\ hooks = [t \in Topics |-> 0] /\ minted = 0 /\ ticks = FALSE /\ schema = FALSE
    /\ service = Down

LifecycleInit ==
    /\ local \in BOOLEAN
    /\ IF local THEN Draft ELSE \E v \in Recorded : Deployed(v)
    /\ op = [o \in Ops |-> NoOperation]
    /\ opFaults = 0

-----------------------------------------------------------------------------
(* Starting an operation.  `alone`, `faulty` and `before` are history: no   *)
(* other operation ran or began since this one did; if so, one of its calls *)
(* failed and was swallowed, and what was routed when it began.            *)

Joined(r) == [r EXCEPT !.alone = FALSE, !.faulty = FALSE, !.before = {}]

Launch(o, new) ==
    /\ op[o].kind = None
    /\ \A p \in Ops : p < o => op[p].kind # None
    /\ Cardinality({q \in Ops : UnderWay(q)}) < MaxRunning
    /\ op' = [p \in Ops |->
          IF p = o THEN LET r == [new EXCEPT !.alone = TRUE, !.before = Routed,
                                             !.at = FirstStep[new.kind]]
                        IN  IF \E q \in Ops : UnderWay(q) THEN Joined(r) ELSE r
          ELSE IF UnderWay(p) THEN Joined(op[p])
          ELSE IF op[p].kind = None THEN op[p] ELSE Spent]
    /\ NoOpFault

\* approveHandler passes no cronSchedule, the two deploy routes may.
startDeploy(o, v, cron) ==
    /\ appStatus # "gone"
    /\ cron => Bundle[v].cron
    /\ Launch(o, [NoOperation EXCEPT !.kind = "deploy", !.version = v, !.cron = cron,
                             !.topics = Bundle[v].topics])
    /\ UNCHANGED <<local, appRow, tables, outside>>

updateAppStatus(o, s) ==
    /\ appStatus # "gone"
    /\ appStatus' = s
    /\ Launch(o, [NoOperation EXCEPT !.kind = IF s = "active" THEN "reactivate"
                                            ELSE "teardown"])
    /\ UNCHANGED <<local, account, tables, outside>>

permanentDeleteApp(o) ==
    /\ appStatus # "gone"
    /\ Launch(o, [NoOperation EXCEPT !.kind = "delete"])
    /\ UNCHANGED <<local, appRow, tables, outside>>

reregisterTenantWebhooks(o) ==
    /\ Launch(o, [NoOperation EXCEPT !.kind = "reinstall"])
    /\ UNCHANGED <<local, appRow, tables, outside>>

-----------------------------------------------------------------------------
(* Moving on.  Done, Abort and SkipTo give op' for operation o.             *)

Over(r) ==
    IF r.alone THEN [r EXCEPT !.at = "over", !.found = NoOperation.found, !.prior = {}]
    ELSE Spent
MoveTo(o, changed, step) ==
    op' = [op EXCEPT ![o] = IF step = "over" THEN Over(changed) ELSE [changed EXCEPT !.at = step]]
Done(o, changed) == MoveTo(o, changed, Then(op[o].kind)[op[o].at])
Abort(o) == op' = [op EXCEPT ![o] = Over([op[o] EXCEPT !.failed = TRUE])]
SkipTo(o, step) == MoveTo(o, [op[o] EXCEPT !.faulty = op[o].alone], step)

\* The app's row is read, a failing listing of its subscriptions is swallowed.
subscriptionsUnread(o) ==
    /\ appStatus # "gone"
    /\ MoveTo(o, [op[o] EXCEPT !.faulty = op[o].alone, !.sa = account], "unschedule")

\* A call that fails is swallowed by the clean-up steps and by reactivation's
\* last two; it ends a deploy, a reinstall and the other steps.
Swallowed(o) ==
    \/ op[o].kind \in {"teardown", "delete"} /\ ~At(o, "hardDelete") /\ ~At(o, "read")
    \/ op[o].kind = "reactivate" /\ At(o, "schedule")
    \/ op[o].kind = "reinstall" /\ At(o, "unregister")

StepFails(o) ==
    /\ UnderWay(o)
    /\ OpFault
    /\ IF Swallowed(o) THEN Done(o, [op[o] EXCEPT !.faulty = @ \/ op[o].alone])
       ELSE IF op[o].kind \in {"teardown", "delete"} /\ At(o, "read")
            THEN Abort(o) \/ subscriptionsUnread(o)
       ELSE IF op[o].kind = "reactivate" /\ \E s \in {"list", "create", "reconcile"} : At(o, s)
            THEN SkipTo(o, "schedule")
       ELSE Abort(o)
    \* A failed migration leaves the schema it created, a failed docker run no
    \* container: the old one was removed first.
    /\ schema' = (schema \/ At(o, "migrate"))
    /\ service' = IF At(o, "run") /\ op[o].kind = "deploy" THEN Down ELSE service
    /\ UNCHANGED <<local, appRow, tables, accounts, hooks, minted, ticks>>

-----------------------------------------------------------------------------
(* The deploy *)

\* No route passes existingHandlerSaEmail: every deploy takes the next number.
provisionHandlerSa(o) ==
    /\ At(o, "provision")
    /\ IF local THEN UNCHANGED <<account, accounts>>
       ELSE /\ accounts' = accounts \cup {account + 1}
            /\ account' = IF appStatus = "gone" THEN account ELSE account + 1
    /\ Done(o, op[o])
    /\ NoOpFault
    /\ UNCHANGED <<local, appStatus, tables, hooks, minted, ticks, schema, service>>

buildAndPushImage(o) ==
    /\ At(o, "build")
    /\ IF local THEN Done(o, op[o]) ELSE Abort(o)
    /\ NoOpFault
    /\ UNCHANGED <<local, appRow, tables, outside>>

runMigrations(o) ==
    /\ At(o, "migrate")
    /\ schema' = TRUE
    /\ Done(o, op[o])
    /\ NoOpFault
    /\ UNCHANGED <<local, appRow, tables, accounts, hooks, minted, ticks, service>>

\* The deploy's environment has ENABLE_CRON_RUNNER when the bundle has a cron
\* route; the baseline environment of a reactivation never has it.
runHandler(o) ==
    /\ At(o, "run")
    /\ service' = [version |-> op[o].version,
                   runner  |-> op[o].kind = "deploy" /\ Bundle[op[o].version].cron]
    /\ Done(o, op[o])
    /\ NoOpFault
    /\ UNCHANGED <<local, appRow, tables, accounts, hooks, minted, ticks, schema>>

\* Mutant: the rows of an earlier deploy stay active.
MutDeactivatePrior(o) ==
    /\ At(o, "update")
    /\ Done(o, [op[o] EXCEPT !.prior = {}])
    /\ NoOpFault
    /\ UNCHANGED <<local, appRow, tables, outside>>

\* upsertDeployedFunction: the UPDATE sees the rows committed when it runs.
deactivatePrior(o) ==
    /\ At(o, "update")
    /\ Done(o, [op[o] EXCEPT !.prior = {i \in DOMAIN funcs : funcs[i].active}])
    /\ NoOpFault
    /\ UNCHANGED <<local, appRow, tables, outside>>

\* Mutant: the UPDATE is not undone when the INSERT is refused.
MutInsertActive(o) ==
    /\ At(o, "insert")
    /\ LET rest == [i \in DOMAIN funcs |-> IF i \in op[o].prior
                    THEN [funcs[i] EXCEPT !.active = FALSE] ELSE funcs[i]]
       IN  IF appStatus # "gone" /\ op[o].version \in Recorded
           THEN /\ funcs' = Append(rest, [version |-> op[o].version, cron |-> op[o].cron,
                                          active |-> TRUE])
                /\ Done(o, [op[o] EXCEPT !.func = Len(funcs) + 1, !.prior = {}])
           ELSE Abort(o) /\ funcs' = rest
    /\ NoOpFault
    /\ UNCHANGED <<local, appRow, subs, outside>>

\* The INSERT and the commit: app_id and app_version_id are foreign keys.
insertActive(o) ==
    /\ At(o, "insert")
    /\ IF appStatus # "gone" /\ op[o].version \in Recorded
       THEN /\ funcs' = Append([i \in DOMAIN funcs |->
                            IF i \in op[o].prior THEN [funcs[i] EXCEPT !.active = FALSE]
                            ELSE funcs[i]],
                            [version |-> op[o].version, cron |-> op[o].cron, active |-> TRUE])
            /\ Done(o, [op[o] EXCEPT !.func = Len(funcs) + 1, !.prior = {}])
       ELSE Abort(o) /\ UNCHANGED funcs
    /\ NoOpFault
    /\ UNCHANGED <<local, appRow, subs, outside>>

-----------------------------------------------------------------------------
(* registerWebhooks *)

Deactivate(keep) ==
    subs' = [t \in Topics |-> IF t \in keep THEN subs[t] ELSE [subs[t] EXCEPT !.active = FALSE]]

\* A deploy without topics only marks the rows, a reactivation without topics
\* and a reinstall without subscriptions do nothing.
noTopics(o) ==
    /\ At(o, "list") /\ op[o].topics = {}
    /\ MoveTo(o, op[o], Then(op[o].kind).reconcile)
    /\ IF op[o].kind = "deploy" THEN Deactivate({}) ELSE UNCHANGED subs
    /\ NoOpFault
    /\ UNCHANGED <<local, appRow, funcs, outside>>

listShopifyWebhooks(o) ==
    /\ At(o, "list") /\ op[o].topics # {}
    /\ Done(o, [op[o] EXCEPT !.found = hooks])
    /\ NoOpFault
    /\ UNCHANGED <<local, appRow, tables, outside>>

Missing(o) == {t \in op[o].topics : op[o].found[t] = 0}

\* Shopify refuses a second subscription of a topic at the same address; the
\* whole call fails then.
createShopifyWebhooks(o) ==
    /\ At(o, "create")
    /\ \A t \in Missing(o) : hooks[t] = 0
    /\ minted' = IF Missing(o) = {} THEN minted ELSE minted + 1
    /\ hooks' = [t \in Topics |-> IF t \in Missing(o) THEN minted' ELSE hooks[t]]
    /\ Done(o, [op[o] EXCEPT !.found = [t \in Topics |->
                    IF t \in Missing(o) THEN minted' ELSE @[t]]])
    /\ NoOpFault
    /\ UNCHANGED <<local, appRow, tables, accounts, ticks, schema, service>>

createRefused(o) ==
    /\ At(o, "create")
    /\ \E t \in Missing(o) : hooks[t] # 0
    /\ IF op[o].kind = "reactivate" THEN SkipTo(o, "schedule") ELSE Abort(o)
    /\ NoOpFault
    /\ UNCHANGED <<local, appRow, tables, outside>>

\* The stale subscriptions of the listing are deleted by id, the rows are
\* upserted and the other topics' rows deactivated.
reconcile(o) ==
    /\ At(o, "reconcile")
    /\ hooks' = [t \in Topics |-> IF t \notin op[o].topics /\ hooks[t] = op[o].found[t]
                                  THEN 0 ELSE hooks[t]]
    /\ IF appStatus # "gone" /\ op[o].func \in DOMAIN funcs
       THEN /\ subs' = [t \in Topics |->
                 IF t \in op[o].topics
                 THEN [func |-> op[o].func, hook |-> op[o].found[t], active |-> TRUE]
                 ELSE [subs[t] EXCEPT !.active = FALSE]]
            /\ Done(o, [op[o] EXCEPT !.found = NoOperation.found])
       ELSE /\ UNCHANGED subs
            /\ IF op[o].kind = "reactivate" THEN SkipTo(o, "schedule") ELSE Abort(o)
    /\ NoOpFault
    /\ UNCHANGED <<local, appRow, funcs, accounts, minted, ticks, schema, service>>

\* A deploy without a schedule unschedules; a reactivation only ever adds.
scheduleAppCron(o) ==
    /\ At(o, "schedule")
    /\ ticks' = (op[o].cron \/ (ticks /\ op[o].kind = "reactivate"))
    /\ Done(o, op[o])
    /\ NoOpFault
    /\ UNCHANGED <<local, appRow, tables, accounts, hooks, minted, schema, service>>

-----------------------------------------------------------------------------
(* Reactivation, teardown, deletion, reinstall *)

\* Mutant: the oldest deployment is taken for the latest.
MutGetLatestDeployedVersion(o) ==
    /\ At(o, "latest")
    /\ IF appStatus = "gone" \/ funcs = <<>> \/ account = 0
       THEN Abort(o)
       ELSE Done(o, [op[o] EXCEPT !.version = funcs[1].version, !.func = 1,
                                  !.topics = {t \in Topics : Subscribed(t)}])
    /\ NoOpFault
    /\ UNCHANGED <<local, appRow, tables, outside>>

\* getLatestDeployedVersionForApp: every topic the app ever subscribed.
getLatestDeployedVersion(o) ==
    /\ At(o, "latest")
    /\ IF appStatus = "gone" \/ funcs = <<>> \/ account = 0
       THEN Abort(o)
       ELSE LET latest == funcs[Len(funcs)]
            IN  Done(o, [op[o] EXCEPT !.version = latest.version, !.cron = latest.cron,
                                      !.func = Len(funcs),
                                      !.topics = {t \in Topics : subs[t].func # 0}])
    /\ NoOpFault
    /\ UNCHANGED <<local, appRow, tables, outside>>

readSubscriptions(o) ==
    /\ At(o, "read")
    /\ IF op[o].kind # "reinstall" /\ appStatus = "gone"
       THEN op' = [op EXCEPT ![o] = Over(op[o])]        \* app not found: skipping
       ELSE Done(o, [op[o] EXCEPT
                !.found  = [t \in Topics |-> IF Subscribed(t) THEN subs[t].hook ELSE 0],
                !.topics = {t \in Topics : Subscribed(t)},
                !.sa     = account,
                !.func   = IF \E t \in Topics : Subscribed(t)
                           THEN subs[CHOOSE t \in Topics : Subscribed(t)].func ELSE 0])
    /\ NoOpFault
    /\ UNCHANGED <<local, appRow, tables, outside>>

unregisterShopifyWebhooks(o) ==
    /\ At(o, "unregister")
    /\ hooks' = [t \in Topics |-> IF hooks[t] = op[o].found[t] THEN 0 ELSE hooks[t]]
    /\ Done(o, [op[o] EXCEPT !.found = NoOperation.found])
    /\ NoOpFault
    /\ UNCHANGED <<local, appRow, tables, accounts, minted, ticks, schema, service>>

\* Mutant: a teardown or a deletion forgets the schedule.
MutUnscheduleAppCron(o) ==
    /\ At(o, "unschedule")
    /\ Done(o, op[o])
    /\ NoOpFault
    /\ UNCHANGED <<local, appRow, tables, outside>>

unscheduleAppCron(o) ==
    /\ At(o, "unschedule")
    /\ ticks' = FALSE
    /\ Done(o, op[o])
    /\ NoOpFault
    /\ UNCHANGED <<local, appRow, tables, accounts, hooks, minted, schema, service>>

\* The local container is no Cloud Run service: it keeps running.
deleteCloudRunService(o) ==
    /\ At(o, "stop")
    /\ service' = IF local THEN service ELSE Down
    /\ Done(o, op[o])
    /\ NoOpFault
    /\ UNCHANGED <<local, appRow, tables, accounts, hooks, minted, ticks, schema>>

\* The second UPDATE names a column the table does not have: the transaction
\* is rolled back and the error is swallowed.
deactivateAppInfrastructure(o) ==
    /\ At(o, "deactivate")
    /\ Done(o, op[o])
    /\ NoOpFault
    /\ UNCHANGED <<local, appRow, tables, outside>>

\* The account the app's row named when the deletion began, if any.
deleteServiceAccount(o) ==
    /\ At(o, "account")
    /\ accounts' = accounts \ {op[o].sa}
    /\ Done(o, op[o])
    /\ NoOpFault
    /\ UNCHANGED <<local, appRow, tables, hooks, minted, ticks, schema, service>>

dropAppSchema(o) ==
    /\ At(o, "drop")
    /\ schema' = FALSE
    /\ Done(o, op[o])
    /\ NoOpFault
    /\ UNCHANGED <<local, appRow, tables, accounts, hooks, minted, ticks, service>>

hardDeleteApp(o) ==
    /\ At(o, "hardDelete")
    /\ appStatus' = "gone" /\ account' = 0
    /\ funcs' = <<>> /\ subs' = [t \in Topics |-> NoSub]
    /\ Done(o, op[o])
    /\ NoOpFault
    /\ UNCHANGED <<local, outside>>

-----------------------------------------------------------------------------
OpStarts(o) ==
    \/ \E v \in Versions, cron \in BOOLEAN : startDeploy(o, v, cron)
    \/ \E s \in {"active", "inactive", "deleted"} : updateAppStatus(o, s)
    \/ permanentDeleteApp(o)
    \/ reregisterTenantWebhooks(o)

OpStep(o) ==
    \/ StepFails(o)
    \/ provisionHandlerSa(o) \/ buildAndPushImage(o) \/ runMigrations(o) \/ runHandler(o)
    \/ deactivatePrior(o) \/ insertActive(o)
    \/ noTopics(o) \/ listShopifyWebhooks(o) \/ createShopifyWebhooks(o)
    \/ createRefused(o) \/ reconcile(o) \/ scheduleAppCron(o)
    \/ getLatestDeployedVersion(o)
    \/ readSubscriptions(o) \/ unregisterShopifyWebhooks(o) \/ unscheduleAppCron(o)
    \/ deleteCloudRunService(o) \/ deactivateAppInfrastructure(o)
    \/ deleteServiceAccount(o) \/ dropAppSchema(o) \/ hardDeleteApp(o)

LifecycleNext == \E o \in Ops : OpStarts(o) \/ OpStep(o)

LifecycleSpec == LifecycleInit /\ [][LifecycleNext]_lifecycleVars

-----------------------------------------------------------------------------
\* Types and references: a subscription's row exists, under every interleaving.
OpKinds == DOMAIN FirstStep \cup {None, "spent"}
OpSteps == DOMAIN Then("deploy") \cup {"over"}
FuncTypes == [version : Recorded, cron : BOOLEAN, active : BOOLEAN]
SubTypes  == [func : 0 .. Len(funcs), hook : Nat, active : BOOLEAN]
OperationTypes ==
    [kind : OpKinds, at : OpSteps, version : Versions \cup {None}, cron : BOOLEAN,
     topics : SUBSET Topics, func : Nat, sa : Nat, prior : SUBSET Nat, found : [Topics -> Nat],
     failed : BOOLEAN, alone : BOOLEAN, faulty : BOOLEAN, before : SUBSET (Topics \X Nat)]

LifecycleTypeOK ==
    /\ local \in BOOLEAN /\ ticks \in BOOLEAN /\ schema \in BOOLEAN
    /\ appStatus \in {"draft", "active", "inactive", "deleted", "gone"}
    /\ account \in Nat /\ accounts \subseteq Nat /\ minted \in Nat
    /\ funcs \in Seq(FuncTypes)
    /\ subs \in [Topics -> SubTypes]
    /\ hooks \in [Topics -> 0 .. minted]
    /\ service \in [version : Versions \cup {None}, runner : BOOLEAN]
    /\ op \in [Ops -> OperationTypes]
    /\ \A o \in Ops : op[o].kind = "deploy" => op[o].version \in Versions
    /\ opFaults \in 0 .. MaxOpFaults

(* A deploy that ran alone and succeeded left what it was asked for: its    *)
(* row is the only active one, exactly its topics are routed, to that row,  *)
(* each with the subscription Shopify has, the schedule exists iff it was   *)
(* passed, and its image runs - after whatever earlier deploys, failures,   *)
(* races, teardowns and reinstalls did to the app.                          *)
Clean(o, kind) == Ended(o, kind) /\ op[o].alone /\ ~op[o].failed /\ ~op[o].faulty

DeployedAsAsked ==
    \A o \in Ops : Clean(o, "deploy") =>
        /\ {i \in DOMAIN funcs : funcs[i].active} = {op[o].func}
        /\ Routed = op[o].topics \X {op[o].func}
        /\ \A t \in op[o].topics : subs[t].hook = hooks[t] /\ hooks[t] # 0
        /\ ticks = op[o].cron
        /\ service.version = op[o].version

(* A deploy that fails before its row is committed changes nothing of what  *)
(* the gateway routes.                                                      *)
FailureKeepsRouting ==
    \A o \in Ops : Ended(o, "deploy") /\ op[o].alone /\ op[o].failed /\ op[o].func = 0 =>
        Routed = op[o].before

(* A reactivation that ran alone, with every call succeeding, brings back   *)
(* the last deployment: its version runs, every topic it routed is          *)
(* subscribed at Shopify under the id its row has, and it ticks again.      *)
ReactivationRestores ==
    \A o \in Ops : Clean(o, "reactivate") =>
        /\ appStatus = "active"
        /\ service.version = funcs[Len(funcs)].version
        /\ op[o].before \subseteq Routed
        /\ \A t \in Topics : Subscribed(t) => subs[t].hook = hooks[t] /\ hooks[t] # 0
        /\ funcs[Len(funcs)].cron => ticks

(* A deletion that ran alone, with every call succeeding, leaves nothing    *)
(* that would still run or tick for the app, and its rows never come back,  *)
(* whatever was in flight.                                                  *)
DeletionLeavesNothing ==
    /\ appStatus = "gone" => funcs = <<>> /\ \A t \in Topics : subs[t].func = 0
    /\ \A o \in Ops : Clean(o, "delete") =>
          ~ticks /\ ~schema /\ (~local => service = Down)

(* A local deploy that runs alone and whose every call succeeds goes live: *)
(* routes/generations.ts says a re-deploy hits "the same row in            *)
(* app_versions", and the schema has a version "created when this          *)
(* generation was approved"; it is a foreign key of deployed_functions.    *)
HealthyDeploySucceeds ==
    \A o \in Ops : Ended(o, "deploy") /\ op[o].alone /\ local /\ opFaults = 0 => ~op[o].failed
=============================================================================
