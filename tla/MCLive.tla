------------------------------- MODULE MCLive -------------------------------
(***************************************************************************)
(* The components whose scheduling promises progress, side by side: the    *)
(* cron runner of one app, the webhook worker, the generation pipeline and *)
(* the requests on their way to a handler.  They share no state, so each   *)
(* behaviour runs the one that `component` names; the others stay as they  *)
(* began.                                                                  *)
(***************************************************************************)
EXTENDS HandlerEdge

CONSTANTS i1, d1, d2, k1, NoCronRow, NoKey,                    \* cron
          e1, q1, w1, w2, c1, c2, c3, h1, h2, NoEvent, NoWorker, \* webhook
    x1, z1, z2                                             \* edge

VARIABLES component,
    \* CronRunner
    status, attempts, visible, expired, phase, stopping, listening, wake,
    pc, cur, batch, got, retried, sweeps, overran, disruptions, dbErrors,
    \* WebhookPipeline
    log, usage, reqAt, reqEv, job, tries, stalls, owner, workAt, workEv,
    callAt, callEv, callFor, late, processed, answers, counted, starts,
    lockLost, mishaps, periods,
    \* GenerationPipeline
    row, intake, requests, runs, events, at, uploads, stored, served,
    archetype, deployAt, deploys, losses, faults

Cron == INSTANCE CronRunner WITH
    Rows <- {2, 3}, NoRow <- NoCronRow, Instances <- {i1}, Drains <- {d1, d2},
    Host <- [d \in {d1, d2} |-> i1],
    DedupKey <- [r \in {2, 3} |-> IF r = 2 THEN k1 ELSE NoKey],
    UnknownJobs <- {2}, MaxAttempts <- 2, BatchSize <- 1,
    LeaseOverrun <- "any", MaxDisruptions <- 2, MaxDbErrors <- 0

Webhook == INSTANCE WebhookPipeline WITH
    Events <- {e1}, UnknownTopics <- {}, Requests <- {q1}, Workers <- {w1, w2},
    Calls <- {c1, c2, c3}, Containers <- {h1, h2},
    HostOf <- [c \in {c1, c2, c3} |-> IF c = c3 THEN h2 ELSE h1],
    Limit <- 1, MaxAttempts <- 2, MaxStalls <- 1, MaxFaults <- 2, MaxPeriods <- 0,
    attempts <- tries, faults <- mishaps

Generation == INSTANCE GenerationPipeline WITH
    Jobs <- {1},
    Surfaces <- [j \in {1} |-> {"widget", "admin"}],
    HasCron <- {1}, MaxLosses <- 0, MaxFaults <- 2, MaxReports <- 0, MaxCalls <- 0

cronVars ==
    <<status, attempts, visible, expired, phase, stopping, listening, wake,
      pc, cur, batch, got, retried, sweeps, overran, disruptions, dbErrors>>

webhookVars ==
    <<log, usage, reqAt, reqEv, job, tries, stalls, owner, workAt, workEv,
      callAt, callEv, callFor, late, processed, answers, counted, starts,
      lockLost, mishaps, periods>>

generationVars ==
    <<row, intake, requests, runs, events, at, uploads, stored, served,
      archetype, deployAt, deploys, losses, faults>>

-----------------------------------------------------------------------------
MCShopOf == [a \in EdgeApps |-> z1]

LiveInit ==
    /\ component \in {"cron", "webhook", "generation", "edge"}
    /\ Cron!Init /\ Webhook!Init /\ Generation!Init /\ EdgeInit
    /\ component # "edge" => development /\ active = {} /\ deployed = {}

CronStep ==
    /\ component = "cron" /\ Cron!Next
    /\ UNCHANGED <<component, webhookVars, generationVars, edgeVars>>

WebhookStep ==
    /\ component = "webhook" /\ Webhook!Next
    /\ UNCHANGED <<component, cronVars, generationVars, edgeVars>>

GenerationStep ==
    /\ component = "generation" /\ Generation!Next
    /\ UNCHANGED <<component, cronVars, webhookVars, edgeVars>>

EdgeStep ==
    /\ component = "edge" /\ EdgeNext
    /\ UNCHANGED <<component, cronVars, webhookVars, generationVars>>

LiveNext == CronStep \/ WebhookStep \/ GenerationStep \/ EdgeStep

liveVars == <<component, cronVars, webhookVars, generationVars, edgeVars>>

(* The Fairness of each component, for the behaviours that run it.         *)
CronFairness ==
    /\ \A d \in {d1, d2} :
          /\ WF_cronVars(component = "cron" /\ Cron!DrainStep(d))
          /\ WF_cronVars(component = "cron" /\ Cron!Notified(d))
    /\ WF_cronVars(component = "cron" /\ \E d \in {d1, d2} : Cron!Start(i1, d))
    /\ WF_cronVars(component = "cron" /\ \E d \in {d1, d2} : Cron!Poll(d))
    /\ WF_cronVars(component = "cron" /\ Cron!Exit(i1))
    /\ \A r \in {2, 3} :
          /\ WF_cronVars(component = "cron" /\ Cron!BackoffEnds(r))
          /\ WF_cronVars(component = "cron" /\ Cron!LeaseEnds(r))

WebhookFairness ==
    /\ \A w \in {w1, w2} : WF_webhookVars(component = "webhook" /\ Webhook!WorkerStep(w))
    /\ WF_webhookVars(component = "webhook" /\ Webhook!Stalled(e1))
    /\ WF_webhookVars(component = "webhook" /\ \E w \in {w1, w2} : Webhook!Take(w, e1))
    /\ \A c \in {c1, c2, c3} : WF_webhookVars(component = "webhook" /\ Webhook!Timeout(c))

GenerationFairness ==
    /\ \A j \in {1} :
          WF_generationVars(component = "generation" /\
              (Generation!Publish(j) \/ Generation!Deliver(j) \/ Generation!Finish(j)))
    /\ \A m \in Generation!Messages :
          WF_generationVars(component = "generation" /\ Generation!Handle(m))

RequestFairness ==
    /\ \A r \in EdgeRequests :
          /\ WF_edgeVars(component = "edge" /\ Own(r))
          /\ WF_edgeVars(component = "edge" /\ TimesOut(r))
    /\ \A a \in EdgeApps : WF_edgeVars(component = "edge" /\ Settle(a))

LiveSpec ==
    /\ LiveInit /\ [][LiveNext]_liveVars
    /\ CronFairness /\ WebhookFairness /\ GenerationFairness /\ RequestFairness

-----------------------------------------------------------------------------
(* The components' properties, each of the behaviours that run it; the one *)
(* of the requests on their way is RequestsSettle of HandlerEdge.          *)

\* Every enqueued cron row ends done or failed (cron-runner.ts).
RowsSettle == Cron!RowsSettle
\* Every queued webhook job completes or fails for good (webhook worker).
JobsSettle == Webhook!JobsSettle
\* No generation stays pending (generation pipeline).
GenerationsSettle == Generation!GenerationsSettle
=============================================================================
