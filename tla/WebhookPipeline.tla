--------------------------- MODULE WebhookPipeline ---------------------------
(***************************************************************************)
(* A Shopify delivery on its way through the platform: the webhook gateway *)
(* (routes/webhook.ts) logs it, checks and counts the execution quota and  *)
(* enqueues a BullMQ job; a worker (worker.ts) posts it to the handler of  *)
(* the app and keeps the log up to date; the handler's webhook route       *)
(* (templates/handler) drops what processed_webhooks has seen and runs the *)
(* app's code.                                                             *)
(*                                                                         *)
(* Three stores take part - the platform's Postgres (log, usage), Redis    *)
(* (the queue) and the app's own Postgres (processed) - and no transaction *)
(* spans two of them: every await is a step of its own, and any process    *)
(* may be gone before the next one.                                        *)
(*                                                                         *)
(* The queue is the part of BullMQ the worker's options rely on: a job is  *)
(* retried up to "attempts" times; the lock of the worker that runs it can *)
(* run out, and the job is then handed out again, MaxStalls times at most. *)
(***************************************************************************)
EXTENDS Naturals, FiniteSets

CONSTANTS
    Events,         \* deliveries of one tenant, by (app_id, shopify_webhook_id)
    NoEvent,
    UnknownTopics,  \* those whose topic the app has no handler for
    Requests,       \* requests the gateway can have in progress
    Workers,        \* the job processors of all worker instances
    NoWorker,
    Calls,          \* requests the handler containers can have in progress
    Containers,
    HostOf,         \* HostOf[c]: the container that serves call c
    Limit,          \* maxAppExecutionsPerMonth of the tenant's plan
    MaxAttempts,    \* attempts of the queue's defaultJobOptions
    MaxStalls,      \* BullMQ's maxStalledCount
    MaxFaults,      \* bound: crashes, lost locks, failed statements
    MaxPeriods      \* bound: billing periods that begin

ASSUME ConstantsOK ==
    /\ IsFiniteSet(Requests) /\ Requests # {}
    /\ UnknownTopics \subseteq Events /\ NoEvent \notin Events
    /\ NoWorker \notin Workers
    /\ HostOf \in [Calls -> Containers]
    /\ Limit \in Nat \ {0}
    /\ MaxAttempts \in Nat \ {0} /\ MaxStalls \in Nat
    /\ MaxFaults \in Nat /\ MaxPeriods \in Nat

VARIABLES
    log,       \* status of the webhook_invocation_logs row; "none": no row
    usage,     \* usage_records.app_executions of the current period
    reqAt,     \* where the gateway's handler of request q is
    reqEv,     \* the delivery it carries
    job,       \* state of the job of e (jobId = executionLogId)
    attempts,  \* attemptsMade
    stalls,    \* stalledCounter
    owner,     \* the worker whose lock on the job is valid
    workAt,    \* where processWebhookJob of worker w is
    workEv,    \* the delivery of its job
    callAt,    \* where the webhook route of call c is
    callEv,
    callFor,   \* the worker that waits for the answer
    late,      \* the 504 of call c is sent, its route still runs
    processed, \* processed_webhooks of the app
    answers,   \* history: what the gateway answered Shopify
    counted,   \* history: executions counted for e
    starts,    \* history: how often the app's handler was started for e
    lockLost,  \* history: a running worker lost the lock of its job
    faults,
    periods

gateway  == <<log, usage, reqAt, reqEv>>
queue    == <<job, attempts, stalls, owner>>
worker   == <<workAt, workEv>>
handler  == <<callAt, callEv, callFor, late, processed>>
history  == <<answers, counted, starts, lockLost>>
budget   == <<faults, periods>>
vars     == <<gateway, queue, worker, handler, history, budget>>

Fault == faults < MaxFaults /\ faults' = faults + 1

Init ==
    /\ log = [e \in Events |-> "none"]
    /\ usage = 0
    /\ reqAt = [q \in Requests |-> "idle"]
    /\ reqEv = [q \in Requests |-> NoEvent]
    /\ job = [e \in Events |-> "none"]
    /\ attempts = [e \in Events |-> 0]
    /\ stalls = [e \in Events |-> 0]
    /\ owner = [e \in Events |-> NoWorker]
    /\ workAt = [w \in Workers |-> "idle"]
    /\ workEv = [w \in Workers |-> NoEvent]
    /\ callAt = [c \in Calls |-> "idle"]
    /\ callEv = [c \in Calls |-> NoEvent]
    /\ callFor = [c \in Calls |-> NoWorker]
    /\ late = [c \in Calls |-> FALSE]
    /\ processed = {}
    /\ answers = [e \in Events |-> {}]
    /\ counted = [e \in Events |-> 0]
    /\ starts = [e \in Events |-> 0]
    /\ lockLost = FALSE
    /\ faults = 0
    /\ periods = 0

-----------------------------------------------------------------------------
(* The webhook gateway: webhookHandler.  Requests it turns away before the *)
(* log (bad signature, unknown app, inactive subscription) change nothing  *)
(* and are left out.                                                       *)

Answer(e, a) == answers' = [answers EXCEPT ![e] = @ \cup {a}]

Finish(q) ==
    /\ reqAt' = [reqAt EXCEPT ![q] = "idle"]
    /\ reqEv' = [reqEv EXCEPT ![q] = NoEvent]

\* Mutant of Deliver: isDuplicate is not looked at.
MutDeliver(q, e) ==
    /\ reqAt[q] = "idle"
    /\ log' = [log EXCEPT ![e] = IF @ = "none" THEN "queued" ELSE @]
    /\ reqAt' = [reqAt EXCEPT ![q] = "quota"]
    /\ reqEv' = [reqEv EXCEPT ![q] = e]
    /\ UNCHANGED <<usage, queue, worker, handler, history, budget>>

\* createWebhookInvocationLog: INSERT ... ON CONFLICT DO NOTHING.  Shopify may
\* deliver any event at any time, again and in parallel.
Deliver(q, e) ==
    /\ reqAt[q] = "idle"
    /\ \/ /\ log[e] = "none"
          /\ log' = [log EXCEPT ![e] = "queued"]
          /\ reqAt' = [reqAt EXCEPT ![q] = "quota"]
          /\ reqEv' = [reqEv EXCEPT ![q] = e]
          /\ UNCHANGED answers
       \/ /\ log[e] # "none"
          /\ Answer(e, "duplicate")
          /\ UNCHANGED <<log, reqAt, reqEv>>
    /\ UNCHANGED <<usage, queue, worker, handler, counted, starts, lockLost, budget>>

\* Mutant of Allowed: off by one.
MutAllowed == usage <= Limit

Allowed == usage < Limit

\* checkUsageQuota: a read; the counter moves one await later.
CheckQuota(q) ==
    /\ reqAt[q] = "quota"
    /\ \/ /\ Allowed
          /\ reqAt' = [reqAt EXCEPT ![q] = "count"]
          /\ UNCHANGED <<reqEv, answers>>
       \/ /\ ~Allowed
          /\ Finish(q)
          /\ Answer(reqEv[q], "quota_exceeded")
    /\ UNCHANGED <<log, usage, queue, worker, handler, counted, starts, lockLost, budget>>

Increment(q) ==
    /\ usage' = usage + 1
    /\ counted' = [counted EXCEPT ![reqEv[q]] = @ + 1]

\* trackAppExecution.
Count(q) ==
    /\ reqAt[q] = "count"
    /\ Increment(q)
    /\ reqAt' = [reqAt EXCEPT ![q] = "enqueue"]
    /\ UNCHANGED <<log, reqEv, queue, worker, handler, answers, starts, lockLost, budget>>

\* webhookQueue.add: an id the queue knows already adds nothing.
Add(e) ==
    /\ job' = [job EXCEPT ![e] = IF @ = "none" THEN "waiting" ELSE @]
    /\ UNCHANGED <<attempts, stalls, owner>>

EnqueueWebhook(q) ==
    /\ reqAt[q] = "enqueue"
    /\ Add(reqEv[q])
    /\ Finish(q)
    /\ Answer(reqEv[q], "queued")
    /\ UNCHANGED <<log, usage, worker, handler, counted, starts, lockLost, budget>>

\* The call the request waits for rejects, or the gateway goes away: 5xx or no
\* answer, whether or not the call took effect.
RequestFails(q) ==
    /\ reqAt[q] # "idle"
    /\ Fault
    /\ Finish(q)
    /\ \/ reqAt[q] = "count" /\ Increment(q) /\ UNCHANGED queue
       \/ reqAt[q] = "enqueue" /\ Add(reqEv[q]) /\ UNCHANGED <<usage, counted>>
       \/ UNCHANGED <<usage, counted, queue>>
    /\ UNCHANGED <<log, worker, handler, answers, starts, lockLost, periods>>

\* A new billing period has a usage record of its own.
PeriodBegins ==
    /\ periods < MaxPeriods /\ periods' = periods + 1
    /\ usage' = 0
    /\ UNCHANGED <<log, reqAt, reqEv, queue, worker, handler, history, faults>>

-----------------------------------------------------------------------------
(* The worker: processWebhookJob, run by BullMQ.                           *)

At(w, from, to) == workAt[w] = from /\ workAt' = [workAt EXCEPT ![w] = to]

\* BullMQ hands a waiting job (its backoff is over) to a processor.
Take(w, e) ==
    /\ At(w, "idle", "mark")
    /\ workEv' = [workEv EXCEPT ![w] = e]
    /\ job[e] = "waiting"
    /\ job' = [job EXCEPT ![e] = "active"]
    /\ owner' = [owner EXCEPT ![e] = w]
    /\ UNCHANGED <<attempts, stalls, gateway, handler, history, budget>>

SetLog(e, s) == log' = [log EXCEPT ![e] = s] /\ UNCHANGED <<usage, reqAt, reqEv>>

\* status 'running'; outside the try block, so a failure goes to BullMQ.
MarkRunning(w) ==
    /\ \/ At(w, "mark", "post") /\ SetLog(workEv[w], "running") /\ UNCHANGED faults
       \/ /\ At(w, "mark", "fail") /\ Fault
          /\ SetLog(workEv[w], "running") \/ UNCHANGED gateway
    /\ UNCHANGED <<queue, workEv, handler, history, periods>>

\* invokeHandler: the request reaches a container ...
Post(w, c) ==
    /\ At(w, "post", "wait")
    /\ callAt[c] = "idle"
    /\ callAt' = [callAt EXCEPT ![c] = "gate"]
    /\ callEv' = [callEv EXCEPT ![c] = workEv[w]]
    /\ callFor' = [callFor EXCEPT ![c] = w]
    /\ UNCHANGED <<late, processed, workEv, gateway, queue, history, budget>>

\* ... or none: no token, no connection, no instance.
PostFails(w) ==
    /\ At(w, "post", "err")
    /\ UNCHANGED <<workEv, gateway, queue, handler, history, budget>>

\* Mutant of LogSuccess: a failed update is swallowed.
MutLogSuccess(w) ==
    /\ \/ At(w, "ok", "done") /\ SetLog(workEv[w], "success") /\ UNCHANGED faults
       \/ At(w, "ok", "done") /\ Fault /\ UNCHANGED gateway
    /\ UNCHANGED <<queue, workEv, handler, history, periods>>

\* status 'success'; a failure of the update lands in the catch block.
LogSuccess(w) ==
    /\ \/ At(w, "ok", "done") /\ SetLog(workEv[w], "success") /\ UNCHANGED faults
       \/ /\ At(w, "ok", "err") /\ Fault
          /\ SetLog(workEv[w], "success") \/ UNCHANGED gateway
    /\ UNCHANGED <<queue, workEv, handler, history, periods>>

\* Mutant of LogFailed: a status the column's type does not know.
MutLogFailed(w) ==
    /\ At(w, "err", "fail")
    /\ SetLog(workEv[w], "error")
    /\ UNCHANGED <<queue, workEv, handler, history, budget>>

\* The catch block: status 'failed', then rethrow; its update may fail too.
LogFailed(w) ==
    /\ At(w, "err", "fail")
    /\ \/ SetLog(workEv[w], "failed") /\ UNCHANGED faults
       \/ Fault /\ UNCHANGED gateway
    /\ UNCHANGED <<queue, workEv, handler, history, periods>>

Settled(w, state, tries) ==
    LET e == workEv[w] IN
    /\ workEv' = [workEv EXCEPT ![w] = NoEvent]
    /\ \/ /\ owner[e] = w
          /\ job' = [job EXCEPT ![e] = state]
          /\ attempts' = [attempts EXCEPT ![e] = tries]
          /\ owner' = [owner EXCEPT ![e] = NoWorker]
       \/ owner[e] # w /\ UNCHANGED <<job, attempts, owner>>
    /\ UNCHANGED <<stalls, gateway, handler, history, budget>>

\* BullMQ settles the job for the holder of its lock only.
Complete(w) == At(w, "done", "idle") /\ Settled(w, "completed", attempts[workEv[w]])

Fail(w) ==
    LET tries == attempts[workEv[w]] + 1 IN
    /\ At(w, "fail", "idle")
    /\ Settled(w, IF tries >= MaxAttempts THEN "failed" ELSE "waiting", tries)

Disown(w) == [e \in Events |-> IF owner[e] = w THEN NoWorker ELSE owner[e]]
Orphan(w) == [c \in Calls |-> IF callFor[c] = w THEN NoWorker ELSE callFor[c]]

\* The worker goes away; its request to the handler, if any, goes on.
WorkerCrash(w) ==
    /\ workAt[w] # "idle" /\ Fault
    /\ workAt' = [workAt EXCEPT ![w] = "idle"]
    /\ workEv' = [workEv EXCEPT ![w] = NoEvent]
    /\ owner' = Disown(w)
    /\ callFor' = Orphan(w)
    /\ UNCHANGED <<job, attempts, stalls, callAt, callEv, late, processed, gateway, history, periods>>

\* A worker that runs is too slow to renew its lock.
LockRunsOut(w) ==
    /\ \E e \in Events : owner[e] = w
    /\ Fault
    /\ owner' = Disown(w)
    /\ lockLost' = TRUE
    /\ UNCHANGED <<job, attempts, stalls, worker, handler, gateway, answers, counted, starts, periods>>

\* BullMQ's check for jobs that are active and have no lock.
Stalled(e) ==
    /\ job[e] = "active" /\ owner[e] = NoWorker
    /\ stalls' = [stalls EXCEPT ![e] = @ + 1]
    /\ job' = [job EXCEPT ![e] = IF stalls[e] < MaxStalls THEN "waiting" ELSE "failed"]
    /\ UNCHANGED <<attempts, owner, gateway, worker, handler, history, budget>>

-----------------------------------------------------------------------------
(* The handler of the app: webhookRouter.post under server.ts.             *)

\* The routes of container h are gone; whoever waits sees the connection end.
Crash(h) ==
    LET gone == {c \in Calls : HostOf[c] = h} IN
    /\ callAt' = [c \in Calls |-> IF c \in gone THEN "idle" ELSE callAt[c]]
    /\ callEv' = [c \in Calls |-> IF c \in gone THEN NoEvent ELSE callEv[c]]
    /\ callFor' = [c \in Calls |-> IF c \in gone THEN NoWorker ELSE callFor[c]]
    /\ late' = [c \in Calls |-> IF c \in gone THEN FALSE ELSE late[c]]
    /\ workAt' = [w \in Workers |-> IF \E c \in gone : callFor[c] = w THEN "err" ELSE workAt[w]]
    /\ UNCHANGED workEv

\* res.json(): the route ends and the worker gets the answer.  After the 504 it
\* throws instead, in the catch block once more, and the rejection, which
\* nobody handles, ends the process.
Respond(c, outcome) ==
    \/ /\ ~late[c]
       /\ callAt' = [callAt EXCEPT ![c] = "idle"]
       /\ callEv' = [callEv EXCEPT ![c] = NoEvent]
       /\ callFor' = [callFor EXCEPT ![c] = NoWorker]
       /\ workAt' = [w \in Workers |-> IF callFor[c] = w THEN outcome ELSE workAt[w]]
       /\ UNCHANGED <<workEv, late>>
    \/ late[c] /\ Crash(HostOf[c])

\* INSERT INTO processed_webhooks ... ON CONFLICT DO NOTHING, then the dispatch.
Gate(c) ==
    LET e == callEv[c] IN
    /\ callAt[c] = "gate"
    /\ \/ /\ e \in processed
          /\ Respond(c, "ok")                              \* duplicate
          /\ UNCHANGED <<processed, starts, faults>>
       \/ /\ e \notin processed
          /\ processed' = processed \cup {e}
          /\ \/ e \in UnknownTopics /\ Respond(c, "ok") /\ UNCHANGED starts
             \/ /\ e \notin UnknownTopics
                /\ callAt' = [callAt EXCEPT ![c] = "body"]
                /\ starts' = [starts EXCEPT ![e] = @ + 1]
                /\ UNCHANGED <<callEv, callFor, late, worker>>
          /\ UNCHANGED faults
       \/ /\ Fault                        \* rejects outside the try block
          /\ Crash(HostOf[c])
          /\ processed' \in {processed, processed \cup {e}}
          /\ UNCHANGED starts
    /\ UNCHANGED <<gateway, queue, answers, counted, lockLost, periods>>

\* Mutant of Body: a handler that throws gives the delivery back to the gate.
MutBody(c) ==
    /\ callAt[c] = "body"
    /\ \/ Respond(c, "ok") /\ UNCHANGED processed
       \/ Respond(c, "err") /\ processed' = processed \ {callEv[c]}
    /\ UNCHANGED <<gateway, queue, history, budget>>

\* The app's handler returns (200) or throws (500).
Body(c) ==
    /\ callAt[c] = "body"
    /\ \E outcome \in {"ok", "err"} : Respond(c, outcome)
    /\ UNCHANGED <<processed, gateway, queue, history, budget>>

\* Mutants of Timeout: the timer answers 200; the timer is cleared when the
\* app's handler starts.
MutTimeoutOk(c) ==
    /\ callFor[c] # NoWorker
    /\ late' = [late EXCEPT ![c] = TRUE]
    /\ workAt' = [workAt EXCEPT ![callFor[c]] = "ok"]
    /\ callFor' = [callFor EXCEPT ![c] = NoWorker]
    /\ UNCHANGED <<callAt, callEv, processed, workEv, gateway, queue, history, budget>>
MutTimeoutCleared(c) ==
    /\ callFor[c] # NoWorker /\ callAt[c] = "gate"
    /\ late' = [late EXCEPT ![c] = TRUE]
    /\ workAt' = [workAt EXCEPT ![callFor[c]] = "err"]
    /\ callFor' = [callFor EXCEPT ![c] = NoWorker]
    /\ UNCHANGED <<callAt, callEv, processed, workEv, gateway, queue, history, budget>>

\* REQUEST_TIMEOUT_MS: 504, while the route runs on.
Timeout(c) ==
    /\ callFor[c] # NoWorker
    /\ late' = [late EXCEPT ![c] = TRUE]
    /\ workAt' = [workAt EXCEPT ![callFor[c]] = "err"]
    /\ callFor' = [callFor EXCEPT ![c] = NoWorker]
    /\ UNCHANGED <<callAt, callEv, processed, workEv, gateway, queue, history, budget>>

ContainerCrash(h) ==
    /\ \E c \in Calls : HostOf[c] = h /\ callAt[c] # "idle"
    /\ Fault
    /\ Crash(h)
    /\ UNCHANGED <<processed, gateway, queue, history, periods>>

-----------------------------------------------------------------------------
RequestStep(q) == (\E e \in Events : Deliver(q, e)) \/ CheckQuota(q) \/ Count(q)
                      \/ EnqueueWebhook(q) \/ RequestFails(q)

WorkerStep(w) == MarkRunning(w) \/ (\E c \in Calls : Post(w, c)) \/ PostFails(w)
                     \/ LogSuccess(w) \/ LogFailed(w) \/ Complete(w) \/ Fail(w)

Next ==
    \/ \E q \in Requests : RequestStep(q)
    \/ PeriodBegins
    \/ \E w \in Workers : WorkerStep(w) \/ WorkerCrash(w) \/ LockRunsOut(w)
    \/ \E e \in Events : Stalled(e) \/ \E w \in Workers : Take(w, e)
    \/ \E c \in Calls : Gate(c) \/ Body(c) \/ Timeout(c)
    \/ \E h \in Containers : ContainerCrash(h)

Spec == Init /\ [][Next]_vars

(***************************************************************************)
(* Fairness: BullMQ hands out waiting jobs and looks for stalled ones, a   *)
(* worker that runs takes its steps, and the timer of a request fires.     *)
(* Nothing makes Shopify deliver, and nothing makes the app's code return. *)
(***************************************************************************)
Fairness ==
    /\ \A w \in Workers : WF_vars(WorkerStep(w))
    /\ \A e \in Events : WF_vars(Stalled(e)) /\ WF_vars(\E w \in Workers : Take(w, e))
    /\ \A c \in Calls : WF_vars(Timeout(c))

FairSpec == Spec /\ Fairness

-----------------------------------------------------------------------------
(* Properties.                                                             *)

GatewayOK ==
    /\ log \in [Events -> {"none", "queued", "running", "success", "failed"}]
    /\ usage \in Nat
    /\ reqAt \in [Requests -> {"idle", "quota", "count", "enqueue"}]
    /\ reqEv \in [Requests -> Events \cup {NoEvent}]

QueueOK ==
    /\ job \in [Events -> {"none", "waiting", "active", "completed", "failed"}]
    /\ attempts \in [Events -> 0 .. MaxAttempts]
    /\ stalls \in [Events -> 0 .. MaxStalls + 1]
    /\ owner \in [Events -> Workers \cup {NoWorker}]

WorkerOK ==
    /\ workAt \in [Workers -> {"idle", "mark", "post", "wait", "ok", "err", "done", "fail"}]
    /\ workEv \in [Workers -> Events \cup {NoEvent}]

HandlerOK ==
    /\ callAt \in [Calls -> {"idle", "gate", "body"}]
    /\ callEv \in [Calls -> Events \cup {NoEvent}]
    /\ callFor \in [Calls -> Workers \cup {NoWorker}]
    /\ late \in [Calls -> BOOLEAN]
    /\ processed \in SUBSET Events

HistoryOK ==
    /\ answers \in [Events -> SUBSET {"queued", "duplicate", "quota_exceeded"}]
    /\ counted \in [Events -> Nat]
    /\ starts \in [Events -> Nat]
    /\ lockLost \in BOOLEAN
    /\ faults \in 0 .. MaxFaults
    /\ periods \in 0 .. MaxPeriods

\* Every variable has its type; the counters of a job stay within the limits
\* of the queue's options.
TypeOK == GatewayOK /\ QueueOK /\ WorkerOK /\ HandlerOK /\ HistoryOK

\* The app's handler runs at most once per Shopify delivery (webhooks.md:
\* 146-149), however often the delivery is repeated, its job is retried or
\* stalls, and two workers post it at the same time.
AtMostOnce == \A e \in Events : starts[e] <= 1

\* No delivery is counted twice against the quota, and the handler runs for
\* counted deliveries only: three stores agree without a transaction.
RunsAreCounted == \A e \in Events : counted[e] <= 1 /\ starts[e] <= counted[e]

\* The check of the quota and the increment are two statements; requests that
\* pass the check together overshoot the plan's limit by no more than the
\* others that were in progress.
QuotaOvershoot == usage <= Limit + Cardinality(Requests) - 1

\* The log and the queue agree on success: unless a running worker lost its
\* lock, a completed job has the log status 'success'.
CompletedIsLogged ==
    ~lockLost => \A e \in Events : job[e] = "completed" => log[e] = "success"

\* The log says 'success' only for deliveries that passed the handler's gate.
SuccessIsProcessed == \A e \in Events : log[e] = "success" => e \in processed

(* The pipeline implements the ledger of a delivery: the log, the usage    *)
(* counter, the queue and processed_webhooks move in step, one delivery at *)
(* a time, whatever crashes, retries and stalls happen.                    *)
Finished == {"completed", "failed"}

Delivery == INSTANCE DeliveryLedger WITH
    Deliveries <- Events, Handled <- Events \ UnknownTopics,
    shown <- log, charges <- counted, queued <- {e \in Events : job[e] # "none"},
    passed <- processed, runs <- starts,
    verdict <- [e \in Events |-> IF job[e] \in Finished THEN job[e] ELSE "open"]

ImplementsDelivery == Delivery!Spec

\* Every job that waits is completed or failed for good in the end, although
\* the app's code may never return.
JobsSettle == \A e \in Events : job[e] = "waiting" ~> job[e] \in {"completed", "failed"}

\* webhooks.ts:142-143: isDuplicate means "already processed".  So a delivery
\* answered "duplicate", of which no request is in progress, has a job or was
\* refused by the quota.
DuplicateWasProcessed ==
    \A e \in Events :
        "duplicate" \in answers[e] /\ (\A q \in Requests : reqEv[q] # e) =>
            job[e] # "none" \/ "quota_exceeded" \in answers[e]
=============================================================================
