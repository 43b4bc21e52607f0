------------------------ MODULE WebhookPipelineProofs ------------------------
(***************************************************************************)
(* Proofs about WebhookPipeline, for every number of deliveries, requests, *)
(* workers, calls and containers and for every plan limit.                 *)
(***************************************************************************)
EXTENDS WebhookPipeline, FiniteSetTheorems, TLAPS

\* A slot carries a delivery exactly while it is in use, and a worker that a
\* call will answer waits for that call, which is about the worker's delivery.
ReqSlots == \A q \in Requests : reqAt[q] = "idle" <=> reqEv[q] = NoEvent

CallSlots ==
    /\ \A w \in Workers : workAt[w] = "idle" <=> workEv[w] = NoEvent
    /\ \A c \in Calls : callAt[c] = "idle" <=> callEv[c] = NoEvent
    /\ \A c \in Calls : callAt[c] = "idle" => ~late[c]
    /\ \A c \in Calls : callFor[c] # NoWorker =>
           /\ ~late[c]
           /\ workAt[callFor[c]] = "wait" /\ workEv[callFor[c]] = callEv[c]
    /\ \A c, d \in Calls : c # d /\ callFor[c] # NoWorker => callFor[c] # callFor[d]

Slots == ReqSlots /\ CallSlots

\* A lock belongs to the worker that runs the job; a job that is not over has
\* attempts and stalls left.
Locks ==
    \A e \in Events :
        /\ owner[e] # NoWorker => job[e] = "active" /\ workEv[owner[e]] = e
        /\ job[e] \notin {"completed", "failed"} =>
               attempts[e] < MaxAttempts /\ stalls[e] <= MaxStalls

Base == TypeOK /\ Slots /\ Locks

-----------------------------------------------------------------------------
(* Types, one group of variables at a time.                                *)

LEMMA GatewayStep == GatewayOK /\ [Next]_vars => GatewayOK'
<1> SUFFICES ASSUME GatewayOK, [Next]_vars PROVE GatewayOK'
  OBVIOUS
<1>1. CASE UNCHANGED gateway
  BY <1>1 DEF GatewayOK, gateway
<1>2. ASSUME NEW q \in Requests, Finish(q), UNCHANGED log, usage' \in Nat PROVE GatewayOK'
  BY <1>2 DEF GatewayOK, Finish
<1>3. ASSUME NEW q \in Requests, NEW e \in Events, Deliver(q, e) PROVE GatewayOK'
  BY <1>3 DEF GatewayOK, Deliver
<1>4. ASSUME NEW q \in Requests, CheckQuota(q) \/ Count(q) PROVE GatewayOK'
  <2>1. usage' \in Nat
    BY <1>4 DEF GatewayOK, CheckQuota, Count, Increment
  <2>2. QED
    BY <1>4, <2>1 DEF GatewayOK, CheckQuota, Count, Finish
<1>5. ASSUME NEW q \in Requests, EnqueueWebhook(q) \/ RequestFails(q) PROVE GatewayOK'
  <2>1. usage' \in Nat
    BY <1>5 DEF GatewayOK, EnqueueWebhook, RequestFails, Increment
  <2>2. QED
    BY <1>2, <1>5, <2>1 DEF EnqueueWebhook, RequestFails
<1>6. CASE PeriodBegins
  BY <1>6 DEF GatewayOK, PeriodBegins
<1>7. ASSUME NEW e, NEW x \in {"running", "success", "failed"}, SetLog(e, x) PROVE GatewayOK'
  BY <1>7 DEF GatewayOK, SetLog
<1>8. ASSUME NEW w \in Workers, MarkRunning(w) \/ LogSuccess(w) \/ LogFailed(w)
      PROVE  UNCHANGED gateway \/ \E x \in {"running", "success", "failed"} : SetLog(workEv[w], x)
  BY <1>8 DEF MarkRunning, LogSuccess, LogFailed
<1>9. ASSUME NEW w \in Workers,
             \/ PostFails(w) \/ Complete(w) \/ Fail(w) \/ WorkerCrash(w) \/ LockRunsOut(w)
             \/ (\E e \in Events : Take(w, e)) \/ (\E c \in Calls : Post(w, c))
      PROVE  UNCHANGED gateway
  BY <1>9 DEF PostFails, Complete, Fail, Settled, WorkerCrash, LockRunsOut, Take, Post
<1>10. ASSUME NEW c \in Calls, Gate(c) \/ Body(c) \/ Timeout(c) PROVE UNCHANGED gateway
  BY <1>10 DEF Gate, Body, Timeout
<1>11. ASSUME (\E h \in Containers : ContainerCrash(h)) \/ (\E e \in Events : Stalled(e))
       PROVE  UNCHANGED gateway
  BY <1>11 DEF ContainerCrash, Stalled
<1>12. CASE UNCHANGED vars
  BY <1>12, <1>1 DEF vars
<1>13. QED
  BY <1>1, <1>3, <1>4, <1>5, <1>6, <1>7, <1>8, <1>9, <1>10, <1>11, <1>12
     DEF Next, RequestStep, WorkerStep

\* What the handler does to the workers.
LEMMA CrashWorkers ==
    ASSUME WorkerOK, NEW h, Crash(h)
    PROVE  WorkerOK'
BY DEF WorkerOK, Crash

LEMMA RespondWorkers ==
    ASSUME WorkerOK, NEW c, NEW outcome \in {"ok", "err"}, Respond(c, outcome)
    PROVE  WorkerOK'
BY CrashWorkers DEF WorkerOK, Respond

LEMMA WorkerStepType == WorkerOK /\ [Next]_vars => WorkerOK'
<1> SUFFICES ASSUME WorkerOK, [Next]_vars PROVE WorkerOK'
  OBVIOUS
<1>1. CASE UNCHANGED worker
  BY <1>1 DEF WorkerOK, worker
<1>2. ASSUME NEW w \in Workers, NEW from,
             NEW to \in {"idle", "mark", "post", "wait", "ok", "err", "done", "fail"},
             At(w, from, to), workEv' \in [Workers -> Events \cup {NoEvent}]
      PROVE  WorkerOK'
  BY <1>2 DEF WorkerOK, At
<1>3. ASSUME NEW w \in Workers, NEW e \in Events, Take(w, e) PROVE WorkerOK'
  <2>1. workEv' \in [Workers -> Events \cup {NoEvent}]
    BY <1>3 DEF Take, WorkerOK
  <2>2. QED
    BY <1>2, <1>3, <2>1 DEF Take
<1>4. ASSUME NEW w \in Workers, WorkerStep(w) PROVE WorkerOK'
  <2>1. workEv' \in [Workers -> Events \cup {NoEvent}]
    BY <1>4 DEF WorkerStep, MarkRunning, Post, PostFails, LogSuccess, LogFailed, Complete, Fail,
       Settled, WorkerOK
  <2>2. \E from, to \in {"idle", "mark", "post", "wait", "ok", "err", "done", "fail"} : At(w, from, to)
    BY <1>4 DEF WorkerStep, MarkRunning, Post, PostFails, LogSuccess, LogFailed, Complete, Fail
  <2>3. QED
    BY <1>2, <2>1, <2>2
<1>5. ASSUME NEW w \in Workers, WorkerCrash(w) PROVE WorkerOK'
  BY <1>5 DEF WorkerOK, WorkerCrash
<1>6. ASSUME NEW c \in Calls, Gate(c) \/ Body(c) PROVE WorkerOK'
  BY <1>6, <1>1, CrashWorkers, RespondWorkers DEF Gate, Body
<1>7. ASSUME NEW c \in Calls, Timeout(c) PROVE WorkerOK'
  BY <1>7 DEF Timeout, WorkerOK
<1>8. ASSUME NEW h \in Containers, ContainerCrash(h) PROVE WorkerOK'
  BY <1>8, CrashWorkers DEF ContainerCrash
<1>9. ASSUME NEW q \in Requests, RequestStep(q) PROVE UNCHANGED worker
  BY <1>9 DEF RequestStep, Deliver, CheckQuota, Count, EnqueueWebhook, RequestFails
<1>10. PeriodBegins => UNCHANGED worker
  BY DEF PeriodBegins
<1>11. ASSUME NEW w \in Workers, LockRunsOut(w) PROVE UNCHANGED worker
  BY <1>11 DEF LockRunsOut
<1>12. ASSUME NEW e \in Events, Stalled(e) PROVE UNCHANGED worker
  BY <1>12 DEF Stalled
<1>13. UNCHANGED vars => UNCHANGED worker
  BY DEF vars
<1>14. QED
  BY <1>1, <1>3, <1>4, <1>5, <1>6, <1>7, <1>8, <1>9, <1>10, <1>11, <1>12, <1>13 DEF Next

\* A crash and an answer leave well-typed routes.
LEMMA CrashRoutes ==
    ASSUME HandlerOK, NEW h, Crash(h), processed' \in SUBSET Events
    PROVE  HandlerOK'
BY DEF HandlerOK, Crash

LEMMA RespondRoutes ==
    ASSUME HandlerOK, NEW c, NEW outcome, Respond(c, outcome), processed' \in SUBSET Events
    PROVE  HandlerOK'
BY CrashRoutes DEF HandlerOK, Respond

LEMMA HandlerStep == HandlerOK /\ WorkerOK /\ Slots /\ [Next]_vars => HandlerOK'
<1> SUFFICES ASSUME HandlerOK, WorkerOK, Slots, [Next]_vars PROVE HandlerOK'
  OBVIOUS
<1>1. CASE UNCHANGED handler
  BY <1>1 DEF HandlerOK, handler
<1>2. ASSUME NEW c \in Calls, Gate(c) PROVE HandlerOK'
  <2>1. callEv[c] \in Events /\ callAt[c] = "gate"
    BY <1>2 DEF Gate, Slots, CallSlots, HandlerOK
  <2>2. processed' \in SUBSET Events
    BY <1>2, <2>1 DEF Gate, HandlerOK
  <2>3. CASE callAt' = [callAt EXCEPT ![c] = "body"] /\ UNCHANGED <<callEv, callFor, late>>
    BY <2>2, <2>3 DEF HandlerOK
  <2>4. QED
    BY <1>2, <2>2, <2>3, CrashRoutes, RespondRoutes DEF Gate
<1>3. ASSUME NEW c \in Calls, Body(c) PROVE HandlerOK'
  BY <1>3, RespondRoutes DEF Body, HandlerOK
<1>4. ASSUME NEW c \in Calls, Timeout(c) PROVE HandlerOK'
  BY <1>4 DEF Timeout, HandlerOK
<1>5. ASSUME NEW h \in Containers, ContainerCrash(h) PROVE HandlerOK'
  BY <1>5, CrashRoutes DEF ContainerCrash, HandlerOK
<1>6. ASSUME NEW w \in Workers, NEW c \in Calls, Post(w, c) PROVE HandlerOK'
  BY <1>6 DEF Post, HandlerOK, WorkerOK
<1>7. ASSUME NEW w \in Workers, WorkerCrash(w) PROVE HandlerOK'
  BY <1>7 DEF WorkerCrash, Orphan, HandlerOK
<1>8. ASSUME NEW w \in Workers, WorkerStep(w)
      PROVE  UNCHANGED handler \/ \E c \in Calls : Post(w, c)
  BY <1>8 DEF WorkerStep, MarkRunning, PostFails, LogSuccess, LogFailed, Complete, Fail, Settled
<1>9. ASSUME NEW w \in Workers, LockRunsOut(w) \/ \E e \in Events : Take(w, e) PROVE UNCHANGED handler
  BY <1>9 DEF LockRunsOut, Take
<1>10. ASSUME NEW q \in Requests, RequestStep(q) PROVE UNCHANGED handler
  BY <1>10 DEF RequestStep, Deliver, CheckQuota, Count, EnqueueWebhook, RequestFails
<1>11. ASSUME PeriodBegins \/ \E e \in Events : Stalled(e) PROVE UNCHANGED handler
  BY <1>11 DEF PeriodBegins, Stalled
<1>12. UNCHANGED vars => UNCHANGED handler
  BY DEF vars
<1>13. QED
  BY <1>1, <1>2, <1>3, <1>4, <1>5, <1>6, <1>7, <1>8, <1>9, <1>10, <1>11, <1>12 DEF Next

LEMMA HistoryStep == HistoryOK /\ [Next]_vars => HistoryOK'
<1> SUFFICES ASSUME HistoryOK, [Next]_vars PROVE HistoryOK'
  OBVIOUS
<1> DEFINE Spent == UNCHANGED faults \/ Fault
           Kept  == UNCHANGED <<answers, counted, starts, lockLost>>
<1>1. Spent => faults' \in 0 .. MaxFaults
  BY ConstantsOK DEF HistoryOK, Fault
<1>2. ASSUME Spent, UNCHANGED periods, UNCHANGED lockLost,
             answers' \in [Events -> SUBSET {"queued", "duplicate", "quota_exceeded"}],
             counted' \in [Events -> Nat], starts' \in [Events -> Nat]
      PROVE  HistoryOK'
  BY <1>1, <1>2 DEF HistoryOK
<1>3. ASSUME Kept, Spent, UNCHANGED periods PROVE HistoryOK'
  BY <1>2, <1>3 DEF HistoryOK
<1>4. CASE PeriodBegins
  <2>1. periods' \in 0 .. MaxPeriods
    BY <1>4, ConstantsOK DEF PeriodBegins, HistoryOK
  <2>2. QED
    BY <1>4, <2>1 DEF PeriodBegins, HistoryOK, history
<1>5. ASSUME NEW e, NEW a \in {"queued", "duplicate", "quota_exceeded"}, Answer(e, a)
      PROVE  answers' \in [Events -> SUBSET {"queued", "duplicate", "quota_exceeded"}]
  BY <1>5 DEF Answer, HistoryOK
<1>6. ASSUME NEW q \in Requests, Increment(q) PROVE counted' \in [Events -> Nat]
  <2>1. counted \in [Events -> Nat] /\ counted' = [counted EXCEPT ![reqEv[q]] = @ + 1]
    BY <1>6 DEF Increment, HistoryOK
  <2>2. CASE reqEv[q] \in Events
    <3>1. counted[reqEv[q]] + 1 \in Nat
      BY <2>1, <2>2
    <3>2. QED
      BY <2>1, <3>1
  <2>3. CASE reqEv[q] \notin Events
    BY <2>1, <2>3
  <2>4. QED
    BY <2>2, <2>3
<1>7. ASSUME NEW q \in Requests, RequestStep(q) PROVE HistoryOK'
  <2>1. Spent /\ UNCHANGED <<periods, lockLost, starts>>
    BY <1>7 DEF RequestStep, Deliver, CheckQuota, Count, EnqueueWebhook, RequestFails, budget
  <2>2. answers' \in [Events -> SUBSET {"queued", "duplicate", "quota_exceeded"}]
    <3>1. UNCHANGED answers \/ \E e, a : /\ a \in {"queued", "duplicate", "quota_exceeded"}
                                         /\ Answer(e, a)
      BY <1>7 DEF RequestStep, Deliver, CheckQuota, Count, EnqueueWebhook, RequestFails
    <3>2. QED
      BY <1>5, <3>1 DEF HistoryOK
  <2>3. UNCHANGED counted \/ Increment(q)
    BY <1>7 DEF RequestStep, Deliver, CheckQuota, Count, EnqueueWebhook, RequestFails
  <2>4. QED
    BY <1>2, <1>6, <2>1, <2>2, <2>3 DEF HistoryOK
<1>8. ASSUME NEW w \in Workers, WorkerStep(w) PROVE Kept /\ Spent /\ UNCHANGED periods
  BY <1>8 DEF WorkerStep, MarkRunning, Post, PostFails, LogSuccess, LogFailed, Complete, Fail,
     Settled, history, budget
<1>9. ASSUME NEW w \in Workers, WorkerCrash(w) \/ \E e \in Events : Take(w, e)
      PROVE  Kept /\ Spent /\ UNCHANGED periods
  BY <1>9 DEF WorkerCrash, Take, history, budget
<1>10. ASSUME NEW w \in Workers, LockRunsOut(w) PROVE HistoryOK'
  BY <1>1, <1>10 DEF LockRunsOut, HistoryOK
<1>11. ASSUME NEW c \in Calls, Gate(c) PROVE HistoryOK'
  <2>1. Spent /\ UNCHANGED <<periods, lockLost, answers, counted>>
    BY <1>11 DEF Gate
  <2>2. UNCHANGED starts \/ starts' = [starts EXCEPT ![callEv[c]] = @ + 1]
    BY <1>11 DEF Gate
  <2>3. starts' \in [Events -> Nat]
    BY <2>2 DEF HistoryOK
  <2>4. QED
    BY <1>2, <2>1, <2>3 DEF HistoryOK
<1>12. ASSUME NEW c \in Calls, Body(c) \/ Timeout(c) PROVE Kept /\ Spent /\ UNCHANGED periods
  BY <1>12 DEF Body, Timeout, history, budget
<1>13. ASSUME (\E h \in Containers : ContainerCrash(h)) \/ (\E e \in Events : Stalled(e))
       PROVE  Kept /\ Spent /\ UNCHANGED periods
  BY <1>13 DEF ContainerCrash, Stalled, history, budget
<1>14. UNCHANGED vars => Kept /\ Spent /\ UNCHANGED periods
  BY DEF vars, history, budget
<1>15. QED
  BY <1>3, <1>4, <1>7, <1>8, <1>9, <1>10, <1>11, <1>12, <1>13, <1>14 DEF Next

-----------------------------------------------------------------------------
(* Slots.                                                                  *)

LEMMA ReqSlotsStep == GatewayOK /\ ReqSlots /\ [Next]_vars => ReqSlots'
<1> SUFFICES ASSUME GatewayOK, ReqSlots, [Next]_vars PROVE ReqSlots'
  OBVIOUS
<1>1. CASE UNCHANGED <<reqAt, reqEv>>
  BY <1>1 DEF ReqSlots
<1>2. ASSUME NEW q \in Requests, RequestStep(q) PROVE ReqSlots'
  BY <1>2, ConstantsOK DEF RequestStep, Deliver, CheckQuota, Count, EnqueueWebhook, RequestFails,
     Finish, ReqSlots, GatewayOK
<1>3. ASSUME NEW w \in Workers, WorkerStep(w) \/ WorkerCrash(w) \/ LockRunsOut(w)
      PROVE  UNCHANGED <<reqAt, reqEv>>
  BY <1>3 DEF WorkerStep, MarkRunning, Post, PostFails, LogSuccess, LogFailed, Complete, Fail,
     Settled, WorkerCrash, LockRunsOut, SetLog, gateway
<1>4. ASSUME NEW e \in Events, Stalled(e) \/ \E w \in Workers : Take(w, e)
      PROVE  UNCHANGED <<reqAt, reqEv>>
  BY <1>4 DEF Stalled, Take, gateway
<1>5. ASSUME NEW c \in Calls, Gate(c) \/ Body(c) \/ Timeout(c) PROVE UNCHANGED <<reqAt, reqEv>>
  BY <1>5 DEF Gate, Body, Timeout, gateway
<1>6. ASSUME PeriodBegins \/ \E h \in Containers : ContainerCrash(h)
      PROVE  UNCHANGED <<reqAt, reqEv>>
  BY <1>6 DEF PeriodBegins, ContainerCrash, gateway
<1>7. UNCHANGED vars => UNCHANGED <<reqAt, reqEv>>
  BY DEF vars, gateway
<1>8. QED
  BY <1>1, <1>2, <1>3, <1>4, <1>5, <1>6, <1>7 DEF Next

LEMMA CrashSlots ==
    ASSUME WorkerOK, HandlerOK, CallSlots, NEW h, Crash(h)
    PROVE  CallSlots'
<1>1. NoWorker \notin Workers
  BY ConstantsOK
<1>2. \A c \in Calls : callFor[c] # NoWorker => callFor[c] \in Workers
  BY DEF HandlerOK
<1>3. \A w \in Workers : \/ workAt'[w] = workAt[w]
                         \/ /\ workAt'[w] = "err" /\ workAt[w] = "wait"
                            /\ \E c \in Calls : HostOf[c] = h /\ callFor[c] = w
  BY <1>1 DEF Crash, CallSlots
<1>4. \A c \in Calls : \/ /\ HostOf[c] = h
                          /\ callAt'[c] = "idle" /\ callEv'[c] = NoEvent
                          /\ callFor'[c] = NoWorker /\ ~late'[c]
                       \/ /\ HostOf[c] # h
                          /\ callAt'[c] = callAt[c] /\ callEv'[c] = callEv[c]
                          /\ callFor'[c] = callFor[c] /\ late'[c] = late[c]
  BY DEF Crash
<1>5. UNCHANGED workEv
  BY DEF Crash
<1>6. \A c \in Calls : callFor'[c] # NoWorker => workAt'[callFor'[c]] = workAt[callFor[c]]
  BY <1>2, <1>3, <1>4 DEF CallSlots
<1>7. QED
  BY <1>3, <1>4, <1>5, <1>6 DEF CallSlots

LEMMA RespondSlots ==
    ASSUME WorkerOK, HandlerOK, CallSlots, NEW c \in Calls, callAt[c] # "idle",
           NEW outcome \in {"ok", "err"}, Respond(c, outcome)
    PROVE  CallSlots'
<1>1. CASE ~late[c]
  <2>1. NoWorker \notin Workers
    BY ConstantsOK
  <2>2. /\ callAt' = [callAt EXCEPT ![c] = "idle"]
        /\ callEv' = [callEv EXCEPT ![c] = NoEvent]
        /\ callFor' = [callFor EXCEPT ![c] = NoWorker]
        /\ workAt' = [w \in Workers |-> IF callFor[c] = w THEN outcome ELSE workAt[w]]
        /\ UNCHANGED <<workEv, late>>
    BY <1>1 DEF Respond
  <2>3. \A w \in Workers : workAt'[w] = workAt[w] \/ (workAt'[w] = outcome /\ workAt[w] = "wait")
    BY <2>1, <2>2 DEF CallSlots
  <2>4. \A d \in Calls : d # c /\ callFor[d] # NoWorker => workAt'[callFor[d]] = workAt[callFor[d]]
    BY <2>2 DEF CallSlots, HandlerOK
  <2>5. \A w \in Workers : workAt'[w] = "idle" <=> workEv'[w] = NoEvent
    BY <2>2, <2>3 DEF CallSlots
  <2>6. \A d \in Calls : (callAt'[d] = "idle" <=> callEv'[d] = NoEvent)
                         /\ (callAt'[d] = "idle" => ~late'[d])
    BY <1>1, <2>2 DEF CallSlots, HandlerOK
  <2>7. \A d \in Calls : callFor'[d] # NoWorker =>
            d # c /\ callFor'[d] = callFor[d] /\ callEv'[d] = callEv[d]
    BY <2>2 DEF HandlerOK
  <2>8. \A d \in Calls : callFor'[d] # NoWorker =>
            ~late'[d] /\ workAt'[callFor'[d]] = "wait" /\ workEv'[callFor'[d]] = callEv'[d]
    BY <2>2, <2>4, <2>7 DEF CallSlots
  <2>9. QED
    BY <2>5, <2>6, <2>7, <2>8 DEF CallSlots
<1>2. CASE late[c]
  BY <1>2, CrashSlots DEF Respond
<1>3. QED
  BY <1>1, <1>2

LEMMA CallSlotsStep == WorkerOK /\ HandlerOK /\ CallSlots /\ [Next]_vars => CallSlots'
<1> SUFFICES ASSUME WorkerOK, HandlerOK, CallSlots, [Next]_vars PROVE CallSlots'
  OBVIOUS
<1>0. NoWorker \notin Workers /\ NoEvent \notin Events
  BY ConstantsOK
<1>1. CASE UNCHANGED <<worker, callAt, callEv, callFor, late>>
  BY <1>1 DEF CallSlots, worker
<1>2. ASSUME NEW w \in Workers, NEW e \in Events, Take(w, e) PROVE CallSlots'
  BY <1>0, <1>2 DEF Take, At, CallSlots, WorkerOK, HandlerOK, handler
<1>3. ASSUME NEW w \in Workers, NEW c \in Calls, Post(w, c) PROVE CallSlots'
  <2>1. workAt[w] = "post" /\ workEv[w] # NoEvent
    BY <1>3 DEF Post, At, CallSlots
  <2>2. callAt[c] = "idle" /\ callEv[c] = NoEvent
    BY <1>3 DEF Post, CallSlots
  <2>3. /\ ~late[c] /\ w # NoWorker
        /\ \A d \in Calls : callFor[d] # w /\ (callFor[d] # NoWorker => d # c)
    <3>1. ~late[c] /\ w # NoWorker
      BY <1>0, <2>2 DEF CallSlots
    <3>2. \A d \in Calls : callFor[d] # w
      BY <2>1, <3>1 DEF CallSlots
    <3>3. callFor[c] = NoWorker
      BY <2>2 DEF CallSlots, HandlerOK
    <3>4. QED
      BY <3>1, <3>2, <3>3
  <2>4. /\ workAt' = [workAt EXCEPT ![w] = "wait"] /\ UNCHANGED <<workEv, late>>
        /\ callAt' = [callAt EXCEPT ![c] = "gate"]
        /\ callEv' = [callEv EXCEPT ![c] = workEv[w]]
        /\ callFor' = [callFor EXCEPT ![c] = w]
    BY <1>3 DEF Post, At
  <2>5. QED
    BY <2>1, <2>2, <2>3, <2>4 DEF CallSlots, WorkerOK, HandlerOK
<1>4. ASSUME NEW w \in Workers, WorkerStep(w), ~\E c \in Calls : Post(w, c) PROVE CallSlots'
  <2>1. UNCHANGED <<callAt, callEv, callFor, late>>
    BY <1>4 DEF WorkerStep, MarkRunning, PostFails, LogSuccess, LogFailed, Complete, Fail, Settled,
       handler
  <2>2. \E to \in {"idle", "post", "err", "done", "fail"} :
            /\ workAt[w] \in {"mark", "post", "ok", "err", "done", "fail"}
            /\ workAt' = [workAt EXCEPT ![w] = to]
            /\ workEv' = [workEv EXCEPT ![w] = IF to = "idle" THEN NoEvent ELSE workEv[w]]
    BY <1>4 DEF WorkerStep, MarkRunning, PostFails, LogSuccess, LogFailed, Complete, Fail, Settled,
       At, WorkerOK
  <2>3. QED
    BY <2>1, <2>2 DEF CallSlots, WorkerOK, HandlerOK
<1>5. ASSUME NEW w \in Workers, WorkerCrash(w) PROVE CallSlots'
  BY <1>0, <1>5 DEF WorkerCrash, Orphan, CallSlots, WorkerOK, HandlerOK
<1>6. ASSUME NEW c \in Calls, Gate(c) PROVE CallSlots'
  <2>1. CASE callAt' = [callAt EXCEPT ![c] = "body"] /\ UNCHANGED <<callEv, callFor, late, worker>>
    BY <1>6, <2>1 DEF Gate, CallSlots, HandlerOK, worker
  <2>2. QED
    BY <1>6, <2>1, CrashSlots, RespondSlots DEF Gate
<1>7. ASSUME NEW c \in Calls, Body(c) PROVE CallSlots'
  BY <1>7, RespondSlots DEF Body
<1>8. ASSUME NEW c \in Calls, Timeout(c) PROVE CallSlots'
  BY <1>0, <1>8 DEF Timeout, CallSlots, WorkerOK, HandlerOK
<1>9. ASSUME NEW h \in Containers, ContainerCrash(h) PROVE CallSlots'
  BY <1>9, CrashSlots DEF ContainerCrash
<1>10. ASSUME NEW q \in Requests, RequestStep(q)
       PROVE  UNCHANGED <<worker, callAt, callEv, callFor, late>>
  BY <1>10 DEF RequestStep, Deliver, CheckQuota, Count, EnqueueWebhook, RequestFails, handler
<1>11. ASSUME \/ PeriodBegins \/ (\E w \in Workers : LockRunsOut(w)) \/ (\E e \in Events : Stalled(e))
       PROVE  UNCHANGED <<worker, callAt, callEv, callFor, late>>
  BY <1>11 DEF PeriodBegins, LockRunsOut, Stalled, handler
<1>12. UNCHANGED vars => UNCHANGED <<worker, callAt, callEv, callFor, late>>
  BY DEF vars, handler
<1>13. QED
  BY <1>1, <1>2, <1>3, <1>4, <1>5, <1>6, <1>7, <1>8, <1>9, <1>10, <1>11, <1>12 DEF Next

-----------------------------------------------------------------------------
(* The queue.                                                              *)

\* What a worker does to the queue when its processor returns or throws.
LEMMA SettledQueue ==
    ASSUME QueueOK, WorkerOK, CallSlots, Locks, NEW w \in Workers, workAt[w] # "idle",
           NEW state \in {"waiting", "completed", "failed"}, NEW tries \in Nat,
           Settled(w, state, tries),
           owner[workEv[w]] = w => \/ tries = attempts[workEv[w]]
                                   \/ tries = attempts[workEv[w]] + 1,
           state \notin Finished => tries < MaxAttempts
    PROVE  QueueOK' /\ Locks'
<1> DEFINE e == workEv[w]
<1>0. e \in Events /\ w # NoWorker
  BY ConstantsOK DEF CallSlots, WorkerOK
<1>1. workEv' = [workEv EXCEPT ![w] = NoEvent] /\ UNCHANGED stalls
  BY DEF Settled
<1>2. \A f \in Events : f # e => owner[f] # w
  BY <1>0 DEF Locks
<1>3. CASE owner[e] # w
  <2>1. UNCHANGED <<job, attempts, owner, stalls>>
    BY <1>1, <1>3 DEF Settled
  <2>2. \A f \in Events : owner[f] # NoWorker => workEv'[owner[f]] = workEv[owner[f]]
    BY <1>1, <1>2, <1>3 DEF QueueOK, WorkerOK
  <2>3. QED
    BY <2>1, <2>2 DEF QueueOK, Locks
<1>4. CASE owner[e] = w
  <2>1. /\ job' = [job EXCEPT ![e] = state]
        /\ attempts' = [attempts EXCEPT ![e] = tries]
        /\ owner' = [owner EXCEPT ![e] = NoWorker]
    BY <1>4 DEF Settled
  <2>2. job[e] = "active" /\ attempts[e] < MaxAttempts /\ stalls[e] <= MaxStalls
    BY <1>0, <1>4 DEF Locks
  <2>3. tries \in 0 .. MaxAttempts
    BY <1>0, <1>4, <2>2, ConstantsOK DEF QueueOK
  <2>4. QueueOK'
    BY <1>1, <2>1, <2>3 DEF QueueOK
  <2>5. \A f \in Events : f # e => /\ owner'[f] = owner[f] /\ job'[f] = job[f]
                                   /\ attempts'[f] = attempts[f] /\ stalls'[f] = stalls[f]
                                   /\ owner[f] # NoWorker => workEv'[owner[f]] = workEv[owner[f]]
    BY <1>1, <1>2, <2>1 DEF QueueOK, WorkerOK
  <2>6. owner'[e] = NoWorker /\ job'[e] = state /\ attempts'[e] = tries /\ stalls'[e] = stalls[e]
    BY <1>0, <1>1, <2>1 DEF QueueOK
  <2>7. job'[e] \notin Finished => attempts'[e] < MaxAttempts /\ stalls'[e] <= MaxStalls
    BY <2>2, <2>6
  <2>8. ASSUME NEW f \in Events
        PROVE  /\ owner'[f] # NoWorker => job'[f] = "active" /\ workEv'[owner'[f]] = f
               /\ job'[f] \notin Finished => attempts'[f] < MaxAttempts /\ stalls'[f] <= MaxStalls
    <3>1. CASE f = e
      BY <2>6, <2>7, <3>1
    <3>2. CASE f # e
      <4>1. /\ owner'[f] = owner[f] /\ job'[f] = job[f]
            /\ attempts'[f] = attempts[f] /\ stalls'[f] = stalls[f]
            /\ owner[f] # NoWorker => workEv'[owner[f]] = workEv[owner[f]]
        BY <2>5, <3>2
      <4>2. /\ owner[f] # NoWorker => job[f] = "active" /\ workEv[owner[f]] = f
            /\ job[f] \notin Finished => attempts[f] < MaxAttempts /\ stalls[f] <= MaxStalls
        BY DEF Locks, Finished
      <4>3. QED
        BY <4>1, <4>2
    <3>3. QED
      BY <3>1, <3>2
  <2>9. Locks'
    BY <2>8 DEF Locks, Finished
  <2>10. QED
    BY <2>4, <2>9
<1>5. QED
  BY <1>3, <1>4

LEMMA QueueStep ==
    GatewayOK /\ QueueOK /\ WorkerOK /\ Slots /\ Locks /\ [Next]_vars => QueueOK' /\ Locks'
<1> SUFFICES ASSUME GatewayOK, QueueOK, WorkerOK, Slots, Locks, [Next]_vars
             PROVE  QueueOK' /\ Locks'
  OBVIOUS
<1>0. NoWorker \notin Workers /\ NoEvent \notin Events /\ MaxAttempts \in Nat /\ MaxStalls \in Nat
  BY ConstantsOK
<1>1. CASE UNCHANGED <<queue, workEv>>
  BY <1>1 DEF QueueOK, Locks, queue
<1>2. ASSUME NEW e \in Events, Add(e), UNCHANGED workEv PROVE QueueOK' /\ Locks'
  BY <1>2 DEF Add, QueueOK, Locks
<1>3. ASSUME NEW q \in Requests, RequestStep(q) PROVE QueueOK' /\ Locks'
  <2>1. UNCHANGED worker /\ (UNCHANGED queue \/ (reqAt[q] # "idle" /\ Add(reqEv[q])))
    BY <1>3 DEF RequestStep, Deliver, CheckQuota, Count, EnqueueWebhook, RequestFails
  <2>2. reqAt[q] # "idle" => reqEv[q] \in Events
    BY DEF Slots, ReqSlots, GatewayOK
  <2>3. QED
    BY <1>1, <1>2, <2>1, <2>2 DEF worker
<1>4. ASSUME NEW w \in Workers, NEW e \in Events, Take(w, e) PROVE QueueOK' /\ Locks'
  <2>1. /\ workAt[w] = "idle" /\ job[e] = "waiting"
        /\ workEv' = [workEv EXCEPT ![w] = e]
        /\ job' = [job EXCEPT ![e] = "active"]
        /\ owner' = [owner EXCEPT ![e] = w]
        /\ UNCHANGED <<attempts, stalls>>
    BY <1>4 DEF Take, At
  <2>2. \A f \in Events : owner[f] # w
    BY <1>0, <2>1 DEF Slots, CallSlots, Locks
  <2>3. QueueOK'
    BY <2>1 DEF QueueOK
  <2>4. /\ owner'[e] = w /\ job'[e] = "active" /\ workEv'[w] = e
        /\ attempts[e] < MaxAttempts /\ stalls[e] <= MaxStalls
    BY <2>1 DEF QueueOK, WorkerOK, Locks
  <2>5. \A f \in Events : f # e => /\ owner'[f] = owner[f] /\ job'[f] = job[f]
                                   /\ owner[f] # NoWorker => workEv'[owner[f]] = workEv[owner[f]]
    BY <2>1, <2>2 DEF QueueOK, WorkerOK
  <2>6. QED
    BY <2>1, <2>3, <2>4, <2>5 DEF Locks
<1>5. ASSUME NEW w \in Workers, Complete(w) PROVE QueueOK' /\ Locks'
  <2>1. workAt[w] # "idle" /\ workEv[w] \in Events
    BY <1>5 DEF Complete, At, Slots, CallSlots, WorkerOK
  <2>2. attempts[workEv[w]] \in Nat
    BY <2>1 DEF QueueOK
  <2>3. QED
    BY <1>5, <2>1, <2>2, SettledQueue DEF Complete, Finished, Slots
<1>6. ASSUME NEW w \in Workers, Fail(w) PROVE QueueOK' /\ Locks'
  <2> DEFINE tries == attempts[workEv[w]] + 1
             state == IF tries >= MaxAttempts THEN "failed" ELSE "waiting"
  <2>1. workAt[w] # "idle" /\ workEv[w] \in Events
    BY <1>6 DEF Fail, At, Slots, CallSlots, WorkerOK
  <2>2. tries \in Nat
    BY <2>1 DEF QueueOK
  <2>3. Settled(w, state, tries)
    BY <1>6 DEF Fail
  <2>4. state \in {"waiting", "failed"} /\ (state \notin Finished => tries < MaxAttempts)
    BY <1>0, <2>2 DEF Finished
  <2>5. QED
    BY <2>1, <2>2, <2>3, <2>4, SettledQueue DEF Slots
<1>7. ASSUME NEW w \in Workers, WorkerStep(w), ~Complete(w), ~Fail(w)
      PROVE  UNCHANGED <<queue, workEv>>
  BY <1>7 DEF WorkerStep, MarkRunning, Post, PostFails, LogSuccess, LogFailed
<1>8. ASSUME NEW w \in Workers, WorkerCrash(w) \/ LockRunsOut(w) PROVE QueueOK' /\ Locks'
  <2>1. /\ owner' = Disown(w) /\ UNCHANGED <<job, attempts, stalls>>
        /\ UNCHANGED workEv \/ workEv' = [workEv EXCEPT ![w] = NoEvent]
    BY <1>8 DEF WorkerCrash, LockRunsOut, worker
  <2>2. QED
    BY <2>1 DEF Disown, QueueOK, WorkerOK, Locks
<1>9. ASSUME NEW e \in Events, Stalled(e) PROVE QueueOK' /\ Locks'
  <2>1. /\ job[e] = "active" /\ owner[e] = NoWorker
        /\ stalls' = [stalls EXCEPT ![e] = @ + 1]
        /\ job' = [job EXCEPT ![e] = IF stalls[e] < MaxStalls THEN "waiting" ELSE "failed"]
        /\ UNCHANGED <<attempts, owner, workEv>>
    BY <1>9 DEF Stalled, worker
  <2>2. stalls[e] <= MaxStalls /\ stalls[e] \in Nat
    BY <2>1 DEF Locks, QueueOK
  <2>3. stalls[e] + 1 \in 0 .. MaxStalls + 1
    BY <1>0, <2>2
  <2>4. QueueOK'
    BY <2>1, <2>3 DEF QueueOK
  <2>5. QED
    BY <1>0, <2>1, <2>2, <2>4 DEF QueueOK, Locks
<1>10. ASSUME NEW c \in Calls, Gate(c) \/ Body(c) \/ Timeout(c) PROVE UNCHANGED <<queue, workEv>>
  BY <1>10 DEF Gate, Body, Timeout, Respond, Crash, worker
<1>11. ASSUME PeriodBegins \/ \E h \in Containers : ContainerCrash(h)
       PROVE  UNCHANGED <<queue, workEv>>
  BY <1>11 DEF PeriodBegins, ContainerCrash, Crash, worker
<1>12. UNCHANGED vars => UNCHANGED <<queue, workEv>>
  BY DEF vars, worker
<1>13. QED
  BY <1>1, <1>3, <1>4, <1>5, <1>6, <1>7, <1>8, <1>9, <1>10, <1>11, <1>12 DEF Next, WorkerStep

LEMMA BaseInit == Init => Base
<1> SUFFICES ASSUME Init PROVE Base
  OBVIOUS
<1>1. TypeOK
  <2>1. GatewayOK /\ WorkerOK
    BY DEF Init, GatewayOK, WorkerOK
  <2>2. QueueOK
    BY ConstantsOK DEF Init, QueueOK
  <2>3. HandlerOK
    BY DEF Init, HandlerOK
  <2>4. HistoryOK
    <3>1. answers \in [Events -> SUBSET {"queued", "duplicate", "quota_exceeded"}]
      BY DEF Init
    <3>2. faults \in 0 .. MaxFaults /\ periods \in 0 .. MaxPeriods
      BY ConstantsOK DEF Init
    <3>3. counted \in [Events -> Nat] /\ starts \in [Events -> Nat] /\ lockLost \in BOOLEAN
      BY DEF Init
    <3>4. QED
      BY <3>1, <3>2, <3>3 DEF HistoryOK
  <2>5. QED
    BY <2>1, <2>2, <2>3, <2>4 DEF TypeOK
<1>2. Slots
  BY ConstantsOK DEF Init, Slots, ReqSlots, CallSlots
<1>3. Locks
  BY ConstantsOK DEF Init, Locks
<1>4. QED
  BY <1>1, <1>2, <1>3 DEF Base

LEMMA BaseStep == Base /\ [Next]_vars => Base'
BY GatewayStep, QueueStep, WorkerStepType, HandlerStep, HistoryStep, ReqSlotsStep, CallSlotsStep
   DEF Base, TypeOK, Slots

LEMMA BaseAlways == Spec => []Base
BY BaseInit, BaseStep, PTL DEF Spec

\* Every variable keeps its type; in particular no job is tried more often
\* than its options allow, whatever crashes, stalls and lost locks occur.
THEOREM TypeCorrect == Spec => []TypeOK
<1>1. Base => TypeOK
  BY DEF Base
<1>2. QED
  BY <1>1, BaseAlways, PTL

-----------------------------------------------------------------------------
(* Once: the insert into the log lets one request through, that request    *)
(* counts before it enqueues, only a queued delivery reaches a worker and  *)
(* a container, and the insert into processed_webhooks lets one call       *)
(* through.                                                                *)

CountedOnce ==
    /\ \A p, q \in Requests : p # q /\ reqEv[p] # NoEvent => reqEv[p] # reqEv[q]
    /\ \A q \in Requests :
           /\ reqAt[q] \in {"quota", "count"} => counted[reqEv[q]] = 0
           /\ reqAt[q] = "enqueue" => counted[reqEv[q]] = 1
           /\ reqEv[q] # NoEvent => log[reqEv[q]] # "none"
    /\ \A e \in Events :
           /\ counted[e] \in {0, 1}
           /\ log[e] = "none" => counted[e] = 0
           /\ job[e] # "none" => counted[e] = 1

StartedOnce ==
    /\ \A w \in Workers : workEv[w] # NoEvent => job[workEv[w]] # "none"
    /\ \A c \in Calls : callEv[c] # NoEvent => job[callEv[c]] # "none"
    /\ \A e \in processed : job[e] # "none"
    /\ \A e \in Events : starts[e] \in {0, 1} /\ (starts[e] = 1 => e \in processed)

\* Outside the gateway no job appears; nowhere does one disappear.
LEMMA JobsStay ==
    ASSUME Base, [Next]_vars
    PROVE  /\ \A e \in Events : job[e] # "none" => job'[e] # "none"
           /\ (\A q \in Requests : ~RequestStep(q)) =>
                  \A e \in Events : job'[e] # "none" => job[e] # "none"
<1> QueueOK
  BY DEF Base, TypeOK
<1>1. CASE UNCHANGED job
  BY <1>1
<1>2. ASSUME NEW e \in Events, NEW x \in {"waiting", "active", "completed", "failed"},
             job' = [job EXCEPT ![e] = x], job[e] # "none"
      PROVE  \A f \in Events : job'[f] # "none" <=> job[f] # "none"
  BY <1>2 DEF QueueOK
<1>3. ASSUME NEW q \in Requests, RequestStep(q)
      PROVE  \A e \in Events : job[e] # "none" => job'[e] # "none"
  <2>1. UNCHANGED job \/ Add(reqEv[q])
    BY <1>3 DEF RequestStep, Deliver, CheckQuota, Count, EnqueueWebhook, RequestFails, queue
  <2>2. QED
    BY <2>1 DEF Add, QueueOK
<1>4. ASSUME NEW w \in Workers, NEW e \in Events, Take(w, e)
      PROVE  \A f \in Events : job'[f] # "none" <=> job[f] # "none"
  BY <1>2, <1>4 DEF Take
<1>5. ASSUME NEW e \in Events, Stalled(e)
      PROVE  \A f \in Events : job'[f] # "none" <=> job[f] # "none"
  BY <1>2, <1>5 DEF Stalled
<1>6. ASSUME NEW w \in Workers, Complete(w) \/ Fail(w)
      PROVE  \A f \in Events : job'[f] # "none" <=> job[f] # "none"
  <2>1. workEv[w] \in Events /\ w # NoWorker
    BY <1>6, ConstantsOK DEF Complete, Fail, At, Base, Slots, CallSlots, TypeOK, WorkerOK
  <2>2. owner[workEv[w]] = w => job[workEv[w]] = "active"
    BY <2>1 DEF Base, Locks
  <2>3. \/ UNCHANGED job
        \/ /\ owner[workEv[w]] = w
           /\ \E x \in {"waiting", "completed", "failed"} : job' = [job EXCEPT ![workEv[w]] = x]
    BY <1>6 DEF Complete, Fail, Settled
  <2>4. QED
    BY <1>2, <2>1, <2>2, <2>3
<1>7. ASSUME NEW w \in Workers, WorkerStep(w), ~Complete(w), ~Fail(w) PROVE UNCHANGED job
  BY <1>7 DEF WorkerStep, MarkRunning, Post, PostFails, LogSuccess, LogFailed, queue
<1>8. ASSUME NEW w \in Workers, WorkerCrash(w) \/ LockRunsOut(w) PROVE UNCHANGED job
  BY <1>8 DEF WorkerCrash, LockRunsOut
<1>9. ASSUME NEW c \in Calls, Gate(c) \/ Body(c) \/ Timeout(c) PROVE UNCHANGED job
  BY <1>9 DEF Gate, Body, Timeout, queue
<1>10. ASSUME PeriodBegins \/ \E h \in Containers : ContainerCrash(h) PROVE UNCHANGED job
  BY <1>10 DEF PeriodBegins, ContainerCrash, queue
<1>11. UNCHANGED vars => UNCHANGED job
  BY DEF vars, queue
<1>12. QED
  BY <1>1, <1>3, <1>4, <1>5, <1>6, <1>7, <1>8, <1>9, <1>10, <1>11 DEF Next, WorkerStep

\* Only requests take delivery slots and count; no log row disappears.
LEMMA RequestsOnly ==
    ASSUME Base, [Next]_vars, \A q \in Requests : ~RequestStep(q)
    PROVE  /\ UNCHANGED <<reqAt, reqEv, counted>>
           /\ \A e \in Events : log[e] # "none" => log'[e] # "none"
<1> GatewayOK
  BY DEF Base, TypeOK
<1> DEFINE Kept == /\ UNCHANGED <<reqAt, reqEv, counted>>
                   /\ \A e \in Events : log[e] # "none" => log'[e] # "none"
<1>1. ASSUME UNCHANGED <<gateway, counted>> PROVE Kept
  BY <1>1 DEF gateway
<1>2. ASSUME NEW e, NEW x \in {"running", "success", "failed"}, SetLog(e, x), UNCHANGED counted
      PROVE  Kept
  BY <1>2 DEF SetLog, GatewayOK
<1>3. ASSUME NEW w \in Workers, WorkerStep(w) PROVE Kept
  <2>1. \/ UNCHANGED gateway
        \/ \E x \in {"running", "success", "failed"} : SetLog(workEv[w], x)
    BY <1>3 DEF WorkerStep, MarkRunning, Post, PostFails, LogSuccess, LogFailed, Complete, Fail, Settled
  <2>2. UNCHANGED counted
    BY <1>3 DEF WorkerStep, MarkRunning, Post, PostFails, LogSuccess, LogFailed, Complete, Fail,
       Settled, history
  <2>3. QED
    BY <1>1, <1>2, <2>1, <2>2
<1>4. ASSUME NEW w \in Workers,
             WorkerCrash(w) \/ LockRunsOut(w) \/ \E e \in Events : Take(w, e)
      PROVE  Kept
  BY <1>1, <1>4 DEF WorkerCrash, LockRunsOut, Take, history
<1>5. ASSUME NEW e \in Events, Stalled(e) PROVE Kept
  BY <1>1, <1>5 DEF Stalled, history
<1>6. ASSUME NEW c \in Calls, Gate(c) \/ Body(c) \/ Timeout(c) PROVE Kept
  BY <1>1, <1>6 DEF Gate, Body, Timeout, history
<1>7. ASSUME NEW h \in Containers, ContainerCrash(h) PROVE Kept
  BY <1>1, <1>7 DEF ContainerCrash, history
<1>8. PeriodBegins => Kept
  BY DEF PeriodBegins, history
<1>9. UNCHANGED vars => Kept
  BY <1>1 DEF vars, history
<1>10. QED
  BY <1>3, <1>4, <1>5, <1>6, <1>7, <1>8, <1>9 DEF Next

LEMMA CountedStep == Base /\ CountedOnce /\ [Next]_vars => CountedOnce'
<1> SUFFICES ASSUME Base, CountedOnce, [Next]_vars PROVE CountedOnce'
  OBVIOUS
<1>0. /\ NoEvent \notin Events
      /\ log \in [Events -> {"none", "queued", "running", "success", "failed"}]
      /\ reqAt \in [Requests -> {"idle", "quota", "count", "enqueue"}]
      /\ reqEv \in [Requests -> Events \cup {NoEvent}]
      /\ counted \in [Events -> Nat]
      /\ job \in [Events -> {"none", "waiting", "active", "completed", "failed"}]
      /\ \A q \in Requests : reqAt[q] = "idle" <=> reqEv[q] = NoEvent
  BY ConstantsOK DEF Base, TypeOK, GatewayOK, QueueOK, HistoryOK, Slots, ReqSlots
<1>1. CASE \A q \in Requests : ~RequestStep(q)
  <2>1. \A e \in Events : /\ log[e] # "none" => log'[e] # "none"
                          /\ job'[e] # "none" => job[e] # "none"
    BY <1>1, RequestsOnly, JobsStay
  <2>2. UNCHANGED <<reqAt, reqEv, counted>>
    BY <1>1, RequestsOnly
  <2>3. QED
    BY <1>0, <2>1, <2>2 DEF CountedOnce
<1>2. ASSUME NEW q \in Requests, NEW e \in Events, Deliver(q, e) PROVE CountedOnce'
  <2>1. UNCHANGED <<counted, job>>
    BY <1>2 DEF Deliver, queue
  <2>2. CASE UNCHANGED <<log, reqAt, reqEv>>
    BY <2>1, <2>2 DEF CountedOnce
  <2>3. CASE /\ log[e] = "none" /\ log' = [log EXCEPT ![e] = "queued"]
             /\ reqAt' = [reqAt EXCEPT ![q] = "quota"] /\ reqEv' = [reqEv EXCEPT ![q] = e]
    <3>1. \A p \in Requests : reqEv[p] # e
      BY <1>0, <2>3 DEF CountedOnce
    <3>2. counted[e] = 0
      BY <2>3 DEF CountedOnce
    <3>3. \A p \in Requests : p # q => reqAt'[p] = reqAt[p] /\ reqEv'[p] = reqEv[p]
      BY <1>0, <2>3
    <3>4. reqAt'[q] = "quota" /\ reqEv'[q] = e
      BY <1>0, <2>3
    <3>5. \A f \in Events : log'[f] = "none" <=> log[f] = "none" /\ f # e
      BY <1>0, <2>3
    <3>6. \A a, b \in Requests : a # b /\ reqEv'[a] # NoEvent => reqEv'[a] # reqEv'[b]
      BY <3>1, <3>3, <3>4 DEF CountedOnce
    <3>7. \A p \in Requests :
              /\ reqAt'[p] \in {"quota", "count"} => counted'[reqEv'[p]] = 0
              /\ reqAt'[p] = "enqueue" => counted'[reqEv'[p]] = 1
              /\ reqEv'[p] # NoEvent => log'[reqEv'[p]] # "none"
      BY <1>0, <2>1, <3>2, <3>3, <3>4, <3>5 DEF CountedOnce
    <3>8. QED
      BY <2>1, <3>5, <3>6, <3>7 DEF CountedOnce
  <2>4. QED
    BY <1>2, <2>2, <2>3 DEF Deliver
<1>3. ASSUME NEW q \in Requests, Finish(q), reqAt[q] # "idle",
             \/ UNCHANGED <<log, counted, job>>
             \/ reqAt[q] = "enqueue" /\ Add(reqEv[q]) /\ UNCHANGED <<log, counted>>
             \/ reqAt[q] = "count" /\ Increment(q) /\ UNCHANGED <<log, job>>
      PROVE  CountedOnce'
  <2>1. \A p \in Requests : p # q => reqAt'[p] = reqAt[p] /\ reqEv'[p] = reqEv[p]
    BY <1>0, <1>3 DEF Finish
  <2>2. reqAt'[q] = "idle" /\ reqEv'[q] = NoEvent
    BY <1>0, <1>3 DEF Finish
  <2>3. reqEv[q] \in Events /\ UNCHANGED log
    BY <1>0, <1>3
  <2>4. \A f \in Events : f # reqEv[q] => counted'[f] = counted[f] /\ job'[f] = job[f]
    BY <1>0, <1>3 DEF Add, Increment
  <2>5. /\ counted'[reqEv[q]] \in {0, 1}
        /\ log[reqEv[q]] # "none"
        /\ job'[reqEv[q]] # "none" => counted'[reqEv[q]] = 1
    BY <1>0, <1>3, <2>3 DEF Add, Increment, CountedOnce
  <2>6. \A p \in Requests : p # q /\ reqEv[p] # NoEvent => reqEv[p] \in Events /\ reqEv[p] # reqEv[q]
    BY <1>0 DEF CountedOnce
  <2>7. \A a, b \in Requests : a # b /\ reqEv'[a] # NoEvent => reqEv'[a] # reqEv'[b]
    BY <2>1, <2>2 DEF CountedOnce
  <2>8. \A p \in Requests :
            /\ reqAt'[p] \in {"quota", "count"} => counted'[reqEv'[p]] = 0
            /\ reqAt'[p] = "enqueue" => counted'[reqEv'[p]] = 1
            /\ reqEv'[p] # NoEvent => log'[reqEv'[p]] # "none"
    BY <1>0, <2>1, <2>2, <2>3, <2>4, <2>6 DEF CountedOnce
  <2>9. QED
    BY <2>3, <2>4, <2>5, <2>7, <2>8 DEF CountedOnce
<1>4. ASSUME NEW q \in Requests, CheckQuota(q) PROVE CountedOnce'
  <2>1. reqAt[q] = "quota" /\ UNCHANGED <<log, counted, job>>
    BY <1>4 DEF CheckQuota, queue
  <2>2. CASE Finish(q)
    BY <1>3, <2>1, <2>2
  <2>3. CASE reqAt' = [reqAt EXCEPT ![q] = "count"] /\ UNCHANGED reqEv
    BY <1>0, <2>1, <2>3 DEF CountedOnce
  <2>4. QED
    BY <1>4, <2>2, <2>3 DEF CheckQuota
<1>5. ASSUME NEW q \in Requests, Count(q) PROVE CountedOnce'
  <2>1. /\ reqAt[q] = "count" /\ UNCHANGED <<log, reqEv, job>>
        /\ counted' = [counted EXCEPT ![reqEv[q]] = @ + 1]
        /\ reqAt' = [reqAt EXCEPT ![q] = "enqueue"]
    BY <1>5 DEF Count, Increment, queue
  <2>2. reqEv[q] \in Events /\ counted[reqEv[q]] = 0
    BY <1>0, <2>1 DEF CountedOnce
  <2>3. counted'[reqEv[q]] = 1 /\ \A f \in Events : f # reqEv[q] => counted'[f] = counted[f]
    BY <1>0, <2>1, <2>2
  <2>4. \A p \in Requests : p # q =>
            reqAt'[p] = reqAt[p] /\ (reqEv[p] # NoEvent => reqEv[p] \in Events /\ reqEv[p] # reqEv[q])
    BY <1>0, <2>1 DEF CountedOnce
  <2>5. reqAt'[q] = "enqueue" /\ log[reqEv[q]] # "none"
    BY <1>0, <2>1, <2>2 DEF CountedOnce
  <2>6. \A p \in Requests :
            /\ reqAt'[p] \in {"quota", "count"} => counted'[reqEv'[p]] = 0
            /\ reqAt'[p] = "enqueue" => counted'[reqEv'[p]] = 1
            /\ reqEv'[p] # NoEvent => log'[reqEv'[p]] # "none"
    BY <1>0, <2>1, <2>3, <2>4, <2>5 DEF CountedOnce
  <2>7. QED
    BY <2>1, <2>2, <2>3, <2>5, <2>6 DEF CountedOnce
<1>6. ASSUME NEW q \in Requests, EnqueueWebhook(q) \/ RequestFails(q) PROVE CountedOnce'
  BY <1>3, <1>6 DEF EnqueueWebhook, RequestFails, queue
<1>7. QED
  BY <1>1, <1>2, <1>4, <1>5, <1>6 DEF RequestStep

\* A call's slot keeps its delivery, is freed, or takes that of the worker that
\* posts; so does a worker's, which takes a job that waits.
LEMMA SlotSteps ==
    ASSUME Base, [Next]_vars
    PROVE  /\ \A w \in Workers :
                  \/ workEv'[w] \in {workEv[w], NoEvent}
                  \/ workEv'[w] \in Events /\ job[workEv'[w]] = "waiting"
           /\ \A c \in Calls :
                  \/ callEv'[c] \in {callEv[c], NoEvent}
                  \/ \E w \in Workers : workEv[w] # NoEvent /\ callEv'[c] = workEv[w]
<1> WorkerOK /\ HandlerOK /\ CallSlots
  BY DEF Base, TypeOK, Slots
<1> DEFINE Kept == UNCHANGED <<workEv, callEv>>
<1>1. ASSUME NEW w \in Workers, NEW e \in Events, Take(w, e)
      PROVE  UNCHANGED callEv /\ workEv' = [workEv EXCEPT ![w] = e] /\ job[e] = "waiting"
  BY <1>1 DEF Take, handler
<1>2. ASSUME NEW w \in Workers, NEW c \in Calls, Post(w, c)
      PROVE  /\ UNCHANGED workEv /\ callEv' = [callEv EXCEPT ![c] = workEv[w]]
             /\ workEv[w] # NoEvent
  BY <1>2 DEF Post, At, CallSlots
<1>3. ASSUME NEW w \in Workers, WorkerStep(w), ~\E c \in Calls : Post(w, c)
      PROVE  UNCHANGED callEv /\ (UNCHANGED workEv \/ workEv' = [workEv EXCEPT ![w] = NoEvent])
  BY <1>3 DEF WorkerStep, MarkRunning, PostFails, LogSuccess, LogFailed, Complete, Fail, Settled,
     handler
<1>4. ASSUME NEW w \in Workers, WorkerCrash(w)
      PROVE  UNCHANGED callEv /\ workEv' = [workEv EXCEPT ![w] = NoEvent]
  BY <1>4 DEF WorkerCrash
<1>5. ASSUME NEW h, Crash(h)
      PROVE  UNCHANGED workEv /\ \A c \in Calls : callEv'[c] \in {callEv[c], NoEvent}
  BY <1>5 DEF Crash
<1>6. ASSUME NEW c \in Calls, NEW x, Respond(c, x)
      PROVE  UNCHANGED workEv /\ \A d \in Calls : callEv'[d] \in {callEv[d], NoEvent}
  BY <1>5, <1>6 DEF Respond, HandlerOK
<1>7. ASSUME NEW c \in Calls, Gate(c) \/ Body(c) \/ Timeout(c)
      PROVE  UNCHANGED workEv /\ \A d \in Calls : callEv'[d] \in {callEv[d], NoEvent}
  BY <1>5, <1>6, <1>7 DEF Gate, Body, Timeout, worker
<1>8. ASSUME NEW h \in Containers, ContainerCrash(h)
      PROVE  UNCHANGED workEv /\ \A d \in Calls : callEv'[d] \in {callEv[d], NoEvent}
  BY <1>5, <1>8 DEF ContainerCrash
<1>9. ASSUME NEW q \in Requests, RequestStep(q) PROVE Kept
  BY <1>9 DEF RequestStep, Deliver, CheckQuota, Count, EnqueueWebhook, RequestFails, worker, handler
<1>10. ASSUME \/ PeriodBegins \/ (\E w \in Workers : LockRunsOut(w)) \/ (\E e \in Events : Stalled(e))
       PROVE  Kept
  BY <1>10 DEF PeriodBegins, LockRunsOut, Stalled, worker, handler
<1>11. UNCHANGED vars => Kept
  BY DEF vars, worker, handler
<1>12. QED
  <2>1. \A w \in Workers :
            \/ workEv'[w] \in {workEv[w], NoEvent}
            \/ workEv'[w] \in Events /\ job[workEv'[w]] = "waiting"
    BY <1>1, <1>2, <1>3, <1>4, <1>7, <1>8, <1>9, <1>10, <1>11 DEF Next, RequestStep, WorkerOK
  <2>2. \A c \in Calls :
            \/ callEv'[c] \in {callEv[c], NoEvent}
            \/ \E w \in Workers : workEv[w] # NoEvent /\ callEv'[c] = workEv[w]
    BY <1>1, <1>2, <1>3, <1>4, <1>7, <1>8, <1>9, <1>10, <1>11 DEF Next, RequestStep, HandlerOK
  <2>3. QED
    BY <2>1, <2>2

\* Only the gate touches processed_webhooks and starts the app's handler.
LEMMA GateSteps ==
    ASSUME Base, [Next]_vars
    PROVE  \/ UNCHANGED <<processed, starts>>
           \/ \E c \in Calls :
                 /\ callEv[c] \in Events
                 /\ processed' = processed \cup {callEv[c]}
                 /\ \/ UNCHANGED starts
                    \/ /\ callEv[c] \notin processed
                       /\ starts' = [starts EXCEPT ![callEv[c]] = @ + 1]
<1> DEFINE Kept == UNCHANGED <<processed, starts>>
<1>1. ASSUME NEW c \in Calls, Gate(c), ~Kept
      PROVE  /\ callEv[c] \in Events
             /\ processed' = processed \cup {callEv[c]}
             /\ \/ UNCHANGED starts
                \/ /\ callEv[c] \notin processed
                   /\ starts' = [starts EXCEPT ![callEv[c]] = @ + 1]
  <2>1. callEv[c] \in Events
    BY <1>1 DEF Gate, Base, Slots, CallSlots, TypeOK, HandlerOK
  <2>2. QED
    BY <1>1, <2>1 DEF Gate
<1>2. ASSUME NEW c \in Calls, Body(c) \/ Timeout(c) PROVE Kept
  BY <1>2 DEF Body, Timeout, history
<1>3. ASSUME NEW w \in Workers, WorkerStep(w) PROVE Kept
  BY <1>3 DEF WorkerStep, MarkRunning, Post, PostFails, LogSuccess, LogFailed, Complete, Fail, Settled,
     handler, history
<1>4. ASSUME NEW w \in Workers, WorkerCrash(w) \/ LockRunsOut(w) \/ \E e \in Events : Take(w, e)
      PROVE  Kept
  BY <1>4 DEF WorkerCrash, LockRunsOut, Take, handler, history
<1>5. ASSUME NEW q \in Requests, RequestStep(q) PROVE Kept
  BY <1>5 DEF RequestStep, Deliver, CheckQuota, Count, EnqueueWebhook, RequestFails, handler, history
<1>6. ASSUME PeriodBegins \/ (\E h \in Containers : ContainerCrash(h)) \/ (\E e \in Events : Stalled(e))
      PROVE  Kept
  BY <1>6 DEF PeriodBegins, ContainerCrash, Stalled, handler, history
<1>7. UNCHANGED vars => Kept
  BY DEF vars, handler, history
<1>8. QED
  BY <1>1, <1>2, <1>3, <1>4, <1>5, <1>6, <1>7 DEF Next

LEMMA StartedStep == Base /\ StartedOnce /\ [Next]_vars => StartedOnce'
<1> SUFFICES ASSUME Base, StartedOnce, [Next]_vars PROVE StartedOnce'
  OBVIOUS
<1>0. /\ workEv \in [Workers -> Events \cup {NoEvent}] /\ callEv \in [Calls -> Events \cup {NoEvent}]
      /\ processed \subseteq Events /\ starts \in [Events -> Nat]
  BY DEF Base, TypeOK, WorkerOK, HandlerOK, HistoryOK
<1>1. \A e \in Events : job[e] # "none" => job'[e] # "none"
  BY JobsStay
<1>2. \A w \in Workers : workEv'[w] # NoEvent => job'[workEv'[w]] # "none"
  <2> SUFFICES ASSUME NEW w \in Workers, workEv'[w] # NoEvent PROVE job'[workEv'[w]] # "none"
    OBVIOUS
  <2>1. workEv'[w] \in Events /\ job[workEv'[w]] # "none"
    BY <1>0, SlotSteps DEF StartedOnce
  <2>2. QED
    BY <1>1, <2>1
<1>3. \A c \in Calls : callEv'[c] # NoEvent => job'[callEv'[c]] # "none"
  <2> SUFFICES ASSUME NEW c \in Calls, callEv'[c] # NoEvent PROVE job'[callEv'[c]] # "none"
    OBVIOUS
  <2>1. callEv'[c] \in Events /\ job[callEv'[c]] # "none"
    BY <1>0, SlotSteps DEF StartedOnce
  <2>2. QED
    BY <1>1, <2>1
<1>4. CASE UNCHANGED <<processed, starts>>
  BY <1>0, <1>1, <1>2, <1>3, <1>4 DEF StartedOnce
<1>5. ASSUME NEW c \in Calls, callEv[c] \in Events, processed' = processed \cup {callEv[c]},
             \/ UNCHANGED starts
             \/ callEv[c] \notin processed /\ starts' = [starts EXCEPT ![callEv[c]] = @ + 1]
      PROVE  StartedOnce'
  <2>1. job[callEv[c]] # "none"
    BY <1>5, ConstantsOK DEF StartedOnce
  <2>2. \A e \in processed' : job'[e] # "none"
    BY <1>0, <1>1, <1>5, <2>1 DEF StartedOnce
  <2>3. \A e \in Events : starts'[e] \in {0, 1} /\ (starts'[e] = 1 => e \in processed')
    BY <1>0, <1>5 DEF StartedOnce
  <2>4. QED
    BY <1>2, <1>3, <2>2, <2>3 DEF StartedOnce
<1>6. QED
  BY <1>4, <1>5, GateSteps

OnceInv == Base /\ CountedOnce /\ StartedOnce

LEMMA OnceAlways == Spec => []OnceInv
<1>1. Init => OnceInv
  BY BaseInit, ConstantsOK DEF Init, OnceInv, CountedOnce, StartedOnce
<1>2. OnceInv /\ [Next]_vars => OnceInv'
  BY BaseStep, CountedStep, StartedStep DEF OnceInv
<1>3. QED
  BY <1>1, <1>2, PTL DEF Spec

\* The app's handler is started at most once per delivery, however many
\* requests, workers, containers, retries and crashes there are.
THEOREM HandlerRunsAtMostOnce == Spec => []AtMostOnce
<1>1. OnceInv => AtMostOnce
  BY DEF OnceInv, StartedOnce, AtMostOnce
<1>2. QED
  BY <1>1, OnceAlways, PTL

\* A delivery is counted at most once, and before its handler starts.
THEOREM RunsCounted == Spec => []RunsAreCounted
<1>1. OnceInv => RunsAreCounted
  <2> SUFFICES ASSUME OnceInv, NEW e \in Events
               PROVE  counted[e] <= 1 /\ starts[e] <= counted[e]
    BY DEF RunsAreCounted
  <2>1. counted[e] \in {0, 1} /\ starts[e] \in {0, 1}
    BY DEF OnceInv, CountedOnce, StartedOnce
  <2>2. starts[e] = 1 => counted[e] = 1
    BY DEF OnceInv, CountedOnce, StartedOnce
  <2>3. QED
    BY <2>1, <2>2
<1>2. QED
  BY <1>1, OnceAlways, PTL

-----------------------------------------------------------------------------
(* The quota: a request that passed the check is as good as counted.       *)

Checked == {q \in Requests : reqAt[q] = "count"}

QuotaInv == usage + Cardinality(Checked) <= Limit + Cardinality(Requests) - 1

LEMMA CheckedFinite ==
    ASSUME NEW S \in SUBSET Requests
    PROVE  IsFiniteSet(S) /\ Cardinality(S) \in Nat /\ Cardinality(S) <= Cardinality(Requests)
BY ConstantsOK, FS_Subset, FS_CardinalityType

LEMMA QuotaStep == GatewayOK /\ QuotaInv /\ [Next]_vars => QuotaInv'
<1> SUFFICES ASSUME GatewayOK, QuotaInv, [Next]_vars PROVE QuotaInv'
  OBVIOUS
<1> DEFINE N == Cardinality(Requests)
           k == Cardinality(Checked)
           l == Cardinality(Checked')
<1>0. /\ usage \in Nat /\ Limit \in Nat /\ Limit >= 1 /\ N \in Nat
      /\ Checked \in SUBSET Requests /\ Checked' \in SUBSET Requests
      /\ IsFiniteSet(Checked) /\ k \in Nat /\ k <= N /\ l \in Nat /\ l <= N
  <2>1. Checked \in SUBSET Requests /\ Checked' \in SUBSET Requests
    BY DEF Checked
  <2>2. Requests \in SUBSET Requests
    OBVIOUS
  <2>3. QED
    BY <2>1, <2>2, CheckedFinite, ConstantsOK DEF GatewayOK
<1>a. QuotaInv' <=> usage' + l <= Limit + N - 1
  BY DEF QuotaInv
<1>b. usage + k <= Limit + N - 1
  BY DEF QuotaInv
<1> HIDE DEF N, k, l
<1>1. ASSUME Checked' \subseteq Checked, UNCHANGED usage PROVE QuotaInv'
  <2>1. l <= k
    BY <1>0, <1>1, FS_Subset DEF k, l
  <2>2. QED
    BY <1>0, <1>1, <1>a, <1>b, <2>1
<1>2. ASSUME NEW q \in Requests, reqAt[q] = "count", reqAt'[q] # "count",
             Checked' \subseteq Checked, usage' = usage + 1
      PROVE  QuotaInv'
  <2>1. q \in Checked /\ Checked' \subseteq Checked \ {q}
    BY <1>2 DEF Checked
  <2>2. IsFiniteSet(Checked \ {q}) /\ Cardinality(Checked \ {q}) = k - 1
    BY <1>0, <2>1, FS_RemoveElement DEF k
  <2>3. l <= k - 1
    BY <1>0, <2>1, <2>2, FS_Subset DEF l
  <2>4. QED
    BY <1>0, <1>2, <1>a, <1>b, <2>3
<1>3. ASSUME NEW q \in Requests, Finish(q) PROVE reqAt'[q] = "idle" /\ Checked' \subseteq Checked
  BY <1>3 DEF Finish, Checked, GatewayOK
<1>4. ASSUME NEW q \in Requests, NEW e \in Events, Deliver(q, e)
      PROVE  UNCHANGED usage /\ Checked' \subseteq Checked
  BY <1>4 DEF Deliver, Checked, GatewayOK
<1>5. ASSUME NEW q \in Requests, CheckQuota(q) PROVE QuotaInv'
  <2>1. UNCHANGED usage
    BY <1>5 DEF CheckQuota
  <2>2. CASE Finish(q)
    BY <1>1, <1>3, <2>1, <2>2
  <2>3. CASE Allowed
    BY <1>0, <1>a, <2>1, <2>3 DEF Allowed
  <2>4. QED
    BY <1>5, <2>2, <2>3 DEF CheckQuota
<1>6. ASSUME NEW q \in Requests, Count(q) PROVE QuotaInv'
  <2>1. reqAt[q] = "count" /\ reqAt'[q] = "enqueue" /\ usage' = usage + 1
    BY <1>6 DEF Count, Increment, GatewayOK
  <2>2. Checked' \subseteq Checked
    BY <1>6 DEF Count, Checked, GatewayOK
  <2>3. QED
    BY <1>2, <2>1, <2>2
<1>7. ASSUME NEW q \in Requests, EnqueueWebhook(q) \/ RequestFails(q) PROVE QuotaInv'
  <2>1. Finish(q) /\ (UNCHANGED usage \/ (reqAt[q] = "count" /\ usage' = usage + 1))
    BY <1>7 DEF EnqueueWebhook, RequestFails, Increment
  <2>2. QED
    BY <1>1, <1>2, <1>3, <2>1
<1>8. CASE PeriodBegins
  <2>1. usage' = 0
    BY <1>8 DEF PeriodBegins
  <2>2. QED
    BY <1>0, <1>a, <2>1
<1>9. ASSUME NEW w \in Workers, WorkerStep(w) \/ WorkerCrash(w) \/ LockRunsOut(w)
      PROVE  UNCHANGED <<usage, reqAt>>
  BY <1>9 DEF WorkerStep, MarkRunning, Post, PostFails, LogSuccess, LogFailed, Complete, Fail,
     Settled, WorkerCrash, LockRunsOut, SetLog, gateway
<1>10. ASSUME NEW e \in Events, Stalled(e) \/ \E w \in Workers : Take(w, e)
       PROVE  UNCHANGED <<usage, reqAt>>
  BY <1>10 DEF Stalled, Take, gateway
<1>11. ASSUME NEW c \in Calls, Gate(c) \/ Body(c) \/ Timeout(c) PROVE UNCHANGED <<usage, reqAt>>
  BY <1>11 DEF Gate, Body, Timeout, gateway
<1>12. ASSUME NEW h \in Containers, ContainerCrash(h) PROVE UNCHANGED <<usage, reqAt>>
  BY <1>12 DEF ContainerCrash, gateway
<1>13. UNCHANGED vars => UNCHANGED <<usage, reqAt>>
  BY DEF vars, gateway
<1>14. UNCHANGED <<usage, reqAt>> => UNCHANGED usage /\ Checked' \subseteq Checked
  BY DEF Checked
<1>15. QED
  BY <1>1, <1>4, <1>5, <1>6, <1>7, <1>8, <1>9, <1>10, <1>11, <1>12, <1>13, <1>14
     DEF Next, RequestStep

\* The executions of a period exceed the plan's limit by less than the number
\* of requests in progress, for every limit and every number of requests.
THEOREM OvershootIsBounded == Spec => []QuotaOvershoot
<1>1. Init => QuotaInv
  <2> SUFFICES ASSUME Init PROVE QuotaInv
    OBVIOUS
  <2>1. Checked = {} /\ usage = 0
    BY DEF Init, Checked
  <2>2. Cardinality(Checked) = 0
    BY <2>1, FS_EmptySet
  <2>3. Cardinality(Requests) \in Nat /\ Limit \in Nat /\ Limit >= 1
    BY ConstantsOK, FS_CardinalityType
  <2>4. QED
    BY <2>1, <2>2, <2>3 DEF QuotaInv
<1>2. Base => GatewayOK
  BY DEF Base, TypeOK
<1>3. Base /\ QuotaInv => QuotaOvershoot
  <2> SUFFICES ASSUME Base, QuotaInv PROVE QuotaOvershoot
    OBVIOUS
  <2>1. Checked \in SUBSET Requests /\ Requests \in SUBSET Requests
    BY DEF Checked
  <2>2. Cardinality(Checked) \in Nat /\ Cardinality(Requests) \in Nat
    BY <2>1, CheckedFinite
  <2>3. usage \in Nat /\ Limit \in Nat
    BY <1>2, ConstantsOK DEF GatewayOK
  <2>4. QED
    BY <2>2, <2>3 DEF QuotaInv, QuotaOvershoot
<1>4. QED
  BY <1>1, <1>2, <1>3, QuotaStep, BaseAlways, PTL DEF Spec

-----------------------------------------------------------------------------
(* What the log says of success: a worker that heard 200, and a route that *)
(* runs the app's code, are past the gate.                                 *)

PastGate ==
    /\ \A e \in Events : log[e] = "success" => e \in processed
    /\ \A w \in Workers : workAt[w] = "ok" => workEv[w] \in processed
    /\ \A c \in Calls : callAt[c] = "body" => callEv[c] \in processed

LEMMA ProcessedGrows == ASSUME Base, [Next]_vars PROVE processed \subseteq processed'
BY GateSteps

\* Who the answer of a call reaches, and what it leaves of the calls.
LEMMA CrashPastGate ==
    ASSUME Base, PastGate, UNCHANGED log, processed \subseteq processed', NEW h, Crash(h)
    PROVE  PastGate'
BY DEF Crash, PastGate, Base, TypeOK, WorkerOK, HandlerOK

LEMMA RespondPastGate ==
    ASSUME Base, PastGate, UNCHANGED log, processed \subseteq processed', NEW c \in Calls,
           NEW x \in {"ok", "err"}, Respond(c, x), x = "ok" => callEv[c] \in processed'
    PROVE  PastGate'
<1>1. CASE late[c]
  BY <1>1, CrashPastGate DEF Respond
<1>2. CASE ~late[c]
  <2>1. /\ callAt' = [callAt EXCEPT ![c] = "idle"] /\ callEv' = [callEv EXCEPT ![c] = NoEvent]
        /\ workAt' = [w \in Workers |-> IF callFor[c] = w THEN x ELSE workAt[w]]
        /\ UNCHANGED workEv
    BY <1>2 DEF Respond
  <2>2. \A w \in Workers : callFor[c] = w => workEv[w] = callEv[c]
    BY ConstantsOK DEF Base, Slots, CallSlots
  <2>3. QED
    BY <2>1, <2>2 DEF PastGate, Base, TypeOK, WorkerOK, HandlerOK
<1>3. QED
  BY <1>1, <1>2

LEMMA PastGateStep == Base /\ PastGate /\ [Next]_vars => PastGate'
<1> SUFFICES ASSUME Base, PastGate, [Next]_vars PROVE PastGate'
  OBVIOUS
<1>0. /\ workAt \in [Workers -> {"idle", "mark", "post", "wait", "ok", "err", "done", "fail"}]
      /\ workEv \in [Workers -> Events \cup {NoEvent}]
      /\ log \in [Events -> {"none", "queued", "running", "success", "failed"}]
      /\ callAt \in [Calls -> {"idle", "gate", "body"}]
      /\ callEv \in [Calls -> Events \cup {NoEvent}]
      /\ callFor \in [Calls -> Workers \cup {NoWorker}]
      /\ processed \subseteq processed'
  BY ProcessedGrows DEF Base, TypeOK, WorkerOK, GatewayOK, HandlerOK
<1>1. ASSUME UNCHANGED <<callAt, callEv, workAt, workEv>>,
             \A e \in Events : log'[e] = "success" => log[e] = "success"
      PROVE  PastGate'
  BY <1>0, <1>1 DEF PastGate
<1>2. ASSUME NEW q \in Requests, RequestStep(q) PROVE PastGate'
  <2>1. UNCHANGED <<worker, handler>> /\ (UNCHANGED log \/ \E e : log' = [log EXCEPT ![e] = "queued"])
    BY <1>2 DEF RequestStep, Deliver, CheckQuota, Count, EnqueueWebhook, RequestFails
  <2>2. QED
    BY <1>0, <1>1, <2>1 DEF worker, handler
<1>3. ASSUME NEW w \in Workers, NEW e \in Events, Take(w, e) PROVE PastGate'
  <2>1. /\ workAt' = [workAt EXCEPT ![w] = "mark"] /\ workEv' = [workEv EXCEPT ![w] = e]
        /\ UNCHANGED <<log, callAt, callEv>>
    BY <1>3 DEF Take, At, gateway, handler
  <2>2. QED
    BY <1>0, <2>1 DEF PastGate
<1>4. ASSUME NEW w \in Workers, WorkerStep(w) PROVE PastGate'
  <2>1. CASE \E c \in Calls : Post(w, c)
    <3>1. PICK c \in Calls : /\ workAt' = [workAt EXCEPT ![w] = "wait"] /\ UNCHANGED <<workEv, log>>
                             /\ callAt' = [callAt EXCEPT ![c] = "gate"]
                             /\ callEv' = [callEv EXCEPT ![c] = workEv[w]]
      BY <2>1 DEF Post, At, gateway
    <3>2. QED
      BY <1>0, <3>1 DEF PastGate
  <2>2. CASE LogSuccess(w)
    <3>1. workAt[w] = "ok" /\ workEv[w] \in processed
      BY <2>2 DEF LogSuccess, At, PastGate
    <3>2. /\ UNCHANGED <<workEv, callAt, callEv>>
          /\ \E to \in {"done", "err"} : workAt' = [workAt EXCEPT ![w] = to]
          /\ UNCHANGED log \/ log' = [log EXCEPT ![workEv[w]] = "success"]
      BY <2>2 DEF LogSuccess, At, SetLog, handler, gateway
    <3>3. QED
      BY <1>0, <3>1, <3>2 DEF PastGate
  <2>3. CASE MarkRunning(w) \/ PostFails(w) \/ LogFailed(w) \/ Complete(w) \/ Fail(w)
    <3>1. /\ UNCHANGED <<callAt, callEv>>
          /\ \E to \in {"post", "err", "fail", "idle"} : workAt' = [workAt EXCEPT ![w] = to]
          /\ UNCHANGED workEv \/ workEv' = [workEv EXCEPT ![w] = NoEvent]
      BY <2>3 DEF MarkRunning, PostFails, LogFailed, Complete, Fail, Settled, At, handler
    <3>2. UNCHANGED log \/ \E x \in {"running", "failed"} : log' = [log EXCEPT ![workEv[w]] = x]
      BY <2>3 DEF MarkRunning, PostFails, LogFailed, Complete, Fail, Settled, SetLog, gateway
    <3>3. workAt[w] # "idle" /\ (workEv' = [workEv EXCEPT ![w] = NoEvent] => workAt'[w] # "ok")
      BY <1>0, <2>3, <3>1 DEF MarkRunning, PostFails, LogFailed, Complete, Fail, At
    <3>4. QED
      BY <1>0, <3>1, <3>2, <3>3 DEF PastGate
  <2>4. QED
    BY <1>4, <2>1, <2>2, <2>3 DEF WorkerStep
<1>5. ASSUME NEW w \in Workers, WorkerCrash(w) PROVE PastGate'
  <2>1. /\ workAt' = [workAt EXCEPT ![w] = "idle"] /\ workEv' = [workEv EXCEPT ![w] = NoEvent]
        /\ UNCHANGED <<log, callAt, callEv>>
    BY <1>5 DEF WorkerCrash, gateway
  <2>2. QED
    BY <1>0, <2>1 DEF PastGate
<1>6. ASSUME NEW c \in Calls, Gate(c) PROVE PastGate'
  <2>1. UNCHANGED log
    BY <1>6 DEF Gate, gateway
  <2>2. \/ callEv[c] \in processed' /\ Respond(c, "ok")
        \/ Crash(HostOf[c])
        \/ /\ callEv[c] \in processed' /\ callAt' = [callAt EXCEPT ![c] = "body"]
           /\ UNCHANGED <<callEv, workAt, workEv>>
    BY <1>6 DEF Gate, worker
  <2>3. ASSUME callEv[c] \in processed', callAt' = [callAt EXCEPT ![c] = "body"],
               UNCHANGED <<callEv, workAt, workEv>>
        PROVE  PastGate'
    BY <1>0, <2>1, <2>3 DEF PastGate
  <2>4. QED
    BY <1>0, <2>1, <2>2, <2>3, CrashPastGate, RespondPastGate
<1>7. ASSUME NEW c \in Calls, Body(c) PROVE PastGate'
  <2>1. UNCHANGED log /\ callEv[c] \in processed
    BY <1>7 DEF Body, gateway, PastGate
  <2>2. QED
    BY <1>0, <1>7, <2>1, RespondPastGate DEF Body
<1>8. ASSUME NEW c \in Calls, Timeout(c) PROVE PastGate'
  <2>1. /\ workAt' = [workAt EXCEPT ![callFor[c]] = "err"]
        /\ UNCHANGED <<log, callAt, callEv, workEv>>
    BY <1>8 DEF Timeout, gateway
  <2>2. QED
    BY <1>0, <2>1 DEF PastGate
<1>9. ASSUME NEW h \in Containers, ContainerCrash(h) PROVE PastGate'
  BY <1>0, <1>9, CrashPastGate DEF ContainerCrash, gateway
<1>10. ASSUME \/ PeriodBegins \/ (\E w \in Workers : LockRunsOut(w)) \/ (\E e \in Events : Stalled(e))
       PROVE  PastGate'
  <2>1. UNCHANGED <<log, worker, handler>>
    BY <1>10 DEF PeriodBegins, LockRunsOut, Stalled, gateway
  <2>2. QED
    BY <1>1, <2>1 DEF worker, handler
<1>11. CASE UNCHANGED vars
  BY <1>1, <1>11 DEF vars, gateway, worker, handler
<1>12. QED
  BY <1>2, <1>3, <1>4, <1>5, <1>6, <1>7, <1>8, <1>9, <1>10, <1>11 DEF Next

\* Log status 'success' means that the delivery passed the handler's gate.
THEOREM SuccessPassedGate == Spec => []SuccessIsProcessed
<1>1. Init => PastGate
  BY DEF Init, PastGate
<1>2. PastGate => SuccessIsProcessed
  BY DEF PastGate, SuccessIsProcessed
<1>3. QED
  BY <1>1, <1>2, PastGateStep, BaseAlways, PTL DEF Spec

-----------------------------------------------------------------------------
(* What a completed job leaves in the log, as long as no lock is lost: a   *)
(* worker that runs holds the lock of its job, so nobody else writes the   *)
(* log row between its 'success' and the completion of the job.            *)

Holds == \A w \in Workers : workAt[w] # "idle" => owner[workEv[w]] = w

Logged ==
    /\ \A w \in Workers : workAt[w] = "done" => log[workEv[w]] = "success"
    /\ \A e \in Events : job[e] = "completed" => log[e] = "success"

LoggedInv == ~lockLost => Holds /\ Logged

LEMMA LoggedStep == Base /\ LoggedInv /\ [Next]_vars => LoggedInv'
<1> SUFFICES ASSUME Base, Holds, Logged, [Next]_vars, ~lockLost' PROVE Holds' /\ Logged'
  <2>1. ASSUME [Next]_vars, lockLost \in BOOLEAN, ~lockLost' PROVE ~lockLost
    <3>1. ASSUME NEW q \in Requests, RequestStep(q) PROVE UNCHANGED lockLost
      BY <3>1 DEF RequestStep, Deliver, CheckQuota, Count, EnqueueWebhook, RequestFails
    <3>2. ASSUME NEW w \in Workers, WorkerStep(w) \/ WorkerCrash(w) PROVE UNCHANGED lockLost
      BY <3>2 DEF WorkerStep, MarkRunning, Post, PostFails, LogSuccess, LogFailed, Complete, Fail,
         Settled, WorkerCrash, history
    <3>3. ASSUME NEW w \in Workers, LockRunsOut(w) PROVE FALSE
      BY <2>1, <3>3 DEF LockRunsOut
    <3>4. ASSUME NEW e \in Events, Stalled(e) \/ \E w \in Workers : Take(w, e)
          PROVE  UNCHANGED lockLost
      BY <3>4 DEF Stalled, Take, history
    <3>5. ASSUME NEW c \in Calls, Gate(c) \/ Body(c) \/ Timeout(c) PROVE UNCHANGED lockLost
      BY <3>5 DEF Gate, Body, Timeout, history
    <3>6. ASSUME PeriodBegins \/ \E h \in Containers : ContainerCrash(h) PROVE UNCHANGED lockLost
      BY <3>6 DEF PeriodBegins, ContainerCrash, history
    <3>7. UNCHANGED vars => UNCHANGED lockLost
      BY DEF vars, history
    <3>8. QED
      BY <2>1, <3>1, <3>2, <3>3, <3>4, <3>5, <3>6, <3>7 DEF Next
  <2>2. QED
    BY <2>1 DEF LoggedInv, Base, TypeOK, HistoryOK
<1>0. /\ NoWorker \notin Workers /\ NoEvent \notin Events
      /\ workAt \in [Workers -> {"idle", "mark", "post", "wait", "ok", "err", "done", "fail"}]
      /\ workEv \in [Workers -> Events \cup {NoEvent}]
      /\ log \in [Events -> {"none", "queued", "running", "success", "failed"}]
      /\ job \in [Events -> {"none", "waiting", "active", "completed", "failed"}]
      /\ owner \in [Events -> Workers \cup {NoWorker}]
      /\ \A w \in Workers : workAt[w] = "idle" <=> workEv[w] = NoEvent
      /\ \A e \in Events : owner[e] # NoWorker => job[e] = "active" /\ workEv[owner[e]] = e
  BY ConstantsOK DEF Base, TypeOK, WorkerOK, GatewayOK, QueueOK, Slots, CallSlots, Locks
\* What a worker that runs is at.
<1>1. ASSUME NEW w \in Workers, workAt[w] # "idle"
      PROVE  /\ workEv[w] \in Events /\ owner[workEv[w]] = w /\ job[workEv[w]] = "active"
             /\ \A v \in Workers : v # w => workEv[v] # workEv[w]
  BY <1>0, <1>1 DEF Holds
<1>2. ASSUME UNCHANGED <<workEv, log, owner, job>>,
             \A w \in Workers : \/ workAt'[w] = workAt[w]
                                \/ workAt[w] = "wait" /\ workAt'[w] \in {"ok", "err"}
      PROVE  Holds' /\ Logged'
  BY <1>2 DEF Holds, Logged
<1>3. ASSUME NEW q \in Requests, RequestStep(q) PROVE Holds' /\ Logged'
  <2>1. UNCHANGED <<workAt, workEv, owner>>
    BY <1>3 DEF RequestStep, Deliver, CheckQuota, Count, EnqueueWebhook, RequestFails, Add, worker, queue
  <2>2. \/ UNCHANGED job
        \/ \E e : job' = [job EXCEPT ![e] = IF @ = "none" THEN "waiting" ELSE @]
    BY <1>3 DEF RequestStep, Deliver, CheckQuota, Count, EnqueueWebhook, RequestFails, Add, queue
  <2>3. \/ UNCHANGED log
        \/ \E e \in Events : log[e] = "none" /\ log' = [log EXCEPT ![e] = "queued"]
    BY <1>3 DEF RequestStep, Deliver, CheckQuota, Count, EnqueueWebhook, RequestFails
  <2>4. \A e \in Events : log[e] = "success" => log'[e] = "success"
    BY <1>0, <2>3
  <2>5. \A e \in Events : job'[e] = "completed" => job[e] = "completed"
    BY <1>0, <2>2
  <2>6. \A w \in Workers : workAt[w] = "done" => workEv[w] \in Events
    BY <1>1
  <2>7. QED
    BY <2>1, <2>4, <2>5, <2>6 DEF Holds, Logged
<1>4. ASSUME NEW w \in Workers, NEW e \in Events, Take(w, e) PROVE Holds' /\ Logged'
  <2>1. /\ workAt[w] = "idle" /\ job[e] = "waiting" /\ UNCHANGED log
        /\ workAt' = [workAt EXCEPT ![w] = "mark"] /\ workEv' = [workEv EXCEPT ![w] = e]
        /\ job' = [job EXCEPT ![e] = "active"] /\ owner' = [owner EXCEPT ![e] = w]
    BY <1>4 DEF Take, At, gateway
  <2>2. \A v \in Workers : v # w =>
            /\ workAt'[v] = workAt[v] /\ workEv'[v] = workEv[v]
            /\ workAt[v] # "idle" => workEv[v] # e /\ owner'[workEv[v]] = owner[workEv[v]]
    BY <1>0, <1>1, <2>1
  <2>3. workAt'[w] = "mark" /\ workEv'[w] = e /\ owner'[e] = w
    BY <1>0, <2>1
  <2>4. \A f \in Events : job'[f] = "completed" => job[f] = "completed"
    BY <1>0, <2>1
  <2>5. QED
    BY <2>1, <2>2, <2>3, <2>4 DEF Holds, Logged
<1>5. ASSUME NEW w \in Workers, workAt[w] # "idle", UNCHANGED <<workEv, owner, job>>,
             NEW to \in {"post", "wait", "err", "done", "fail"},
             workAt' = [workAt EXCEPT ![w] = to],
             \/ UNCHANGED log /\ to # "done"
             \/ \E x \in {"running", "success", "failed"} :
                   log' = [log EXCEPT ![workEv[w]] = x] /\ (to = "done" => x = "success")
      PROVE  Holds' /\ Logged'
  <2>1. \A v \in Workers : v # w => workAt'[v] = workAt[v] /\ workEv[v] # workEv[w]
    BY <1>0, <1>1, <1>5
  <2>2. workAt'[w] = to /\ (to = "done" => log'[workEv[w]] = "success")
    BY <1>0, <1>1, <1>5
  <2>3. \A f \in Events : f # workEv[w] => log'[f] = log[f]
    BY <1>0, <1>5
  <2>4. Holds'
    BY <1>5, <2>1 DEF Holds
  <2>5. \A v \in Workers : workAt'[v] = "done" => log'[workEv'[v]] = "success"
    BY <1>1, <1>5, <2>1, <2>2, <2>3 DEF Logged
  <2>6. \A f \in Events : job'[f] = "completed" => log'[f] = "success"
    BY <1>1, <1>5, <2>3 DEF Logged
  <2>7. QED
    BY <2>4, <2>5, <2>6 DEF Logged
<1>6. ASSUME NEW w \in Workers, NEW state, NEW tries, Settled(w, state, tries),
             workAt[w] # "idle", workAt' = [workAt EXCEPT ![w] = "idle"],
             state = "completed" => workAt[w] = "done"
      PROVE  Holds' /\ Logged'
  <2>1. /\ workEv' = [workEv EXCEPT ![w] = NoEvent]
        /\ job' = [job EXCEPT ![workEv[w]] = state]
        /\ owner' = [owner EXCEPT ![workEv[w]] = NoWorker]
        /\ UNCHANGED log
    BY <1>1, <1>6 DEF Settled, gateway
  <2>2. \A v \in Workers : v # w =>
            /\ workAt'[v] = workAt[v] /\ workEv'[v] = workEv[v]
            /\ workAt[v] # "idle" => owner'[workEv[v]] = owner[workEv[v]]
    BY <1>0, <1>1, <1>6, <2>1
  <2>3. workAt'[w] = "idle"
    BY <1>0, <1>6
  <2>4. ASSUME NEW f \in Events, job'[f] = "completed" PROVE log[f] = "success"
    <3>1. CASE f = workEv[w]
      <4>1. job'[f] = state
        BY <1>0, <2>1, <3>1
      <4>2. QED
        BY <1>6, <2>4, <3>1, <4>1 DEF Logged
    <3>2. CASE f # workEv[w]
      <4>1. job'[f] = job[f]
        BY <1>0, <2>1, <3>2
      <4>2. QED
        BY <2>4, <4>1 DEF Logged
    <3>3. QED
      BY <3>1, <3>2
  <2>5. QED
    BY <2>1, <2>2, <2>3, <2>4 DEF Holds, Logged
<1>7. ASSUME NEW w \in Workers, WorkerStep(w) PROVE Holds' /\ Logged'
  <2>1. CASE Complete(w)
    BY <1>6, <2>1 DEF Complete, At
  <2>2. CASE Fail(w)
    <3>1. \E state \in {"failed", "waiting"} : \E tries : Settled(w, state, tries)
      BY <2>2 DEF Fail
    <3>2. workAt[w] = "fail" /\ workAt' = [workAt EXCEPT ![w] = "idle"]
      BY <2>2 DEF Fail, At
    <3>3. QED
      BY <1>6, <3>1, <3>2
  <2>3. CASE (\E c \in Calls : Post(w, c)) \/ PostFails(w)
    BY <1>5, <2>3 DEF Post, PostFails, At, gateway, queue
  <2>4. CASE MarkRunning(w)
    BY <1>5, <2>4 DEF MarkRunning, At, SetLog, gateway, queue
  <2>5. CASE LogSuccess(w)
    BY <1>5, <2>5 DEF LogSuccess, At, SetLog, gateway, queue
  <2>6. CASE LogFailed(w)
    BY <1>5, <2>6 DEF LogFailed, At, SetLog, gateway, queue
  <2>7. QED
    BY <1>7, <2>1, <2>2, <2>3, <2>4, <2>5, <2>6 DEF WorkerStep
<1>8. ASSUME NEW w \in Workers, WorkerCrash(w) PROVE Holds' /\ Logged'
  <2>1. /\ workAt' = [workAt EXCEPT ![w] = "idle"] /\ workEv' = [workEv EXCEPT ![w] = NoEvent]
        /\ owner' = Disown(w) /\ UNCHANGED <<log, job>>
    BY <1>8 DEF WorkerCrash, gateway
  <2>2. \A v \in Workers : v # w =>
            /\ workAt'[v] = workAt[v] /\ workEv'[v] = workEv[v]
            /\ workAt[v] # "idle" => owner'[workEv[v]] = owner[workEv[v]]
    BY <1>0, <1>1, <2>1 DEF Disown
  <2>3. workAt'[w] = "idle"
    BY <1>0, <2>1
  <2>4. QED
    BY <2>1, <2>2, <2>3 DEF Holds, Logged
<1>9. ASSUME NEW w \in Workers, LockRunsOut(w) PROVE FALSE
  BY <1>9 DEF LockRunsOut
<1>10. ASSUME NEW e \in Events, Stalled(e) PROVE Holds' /\ Logged'
  <2>1. /\ UNCHANGED <<workAt, workEv, log, owner>>
        /\ \E x \in {"waiting", "failed"} : job' = [job EXCEPT ![e] = x]
    BY <1>10 DEF Stalled, worker, gateway
  <2>2. QED
    BY <1>0, <2>1 DEF Holds, Logged
<1>11. ASSUME NEW h, Crash(h), UNCHANGED <<log, owner, job>> PROVE Holds' /\ Logged'
  <2>1. UNCHANGED workEv
    BY <1>11 DEF Crash
  <2>2. \A w \in Workers : \/ workAt'[w] = workAt[w]
                           \/ workAt[w] = "wait" /\ workAt'[w] = "err"
    BY <1>0, <1>11 DEF Crash, Base, Slots, CallSlots
  <2>3. QED
    BY <1>2, <1>11, <2>1, <2>2
<1>12. ASSUME NEW c \in Calls, NEW x \in {"ok", "err"}, Respond(c, x), UNCHANGED <<log, owner, job>>
       PROVE  Holds' /\ Logged'
  <2>1. CASE late[c]
    BY <1>11, <1>12, <2>1 DEF Respond
  <2>2. CASE ~late[c]
    <3>1. UNCHANGED workEv /\ workAt' = [w \in Workers |-> IF callFor[c] = w THEN x ELSE workAt[w]]
      BY <1>12, <2>2 DEF Respond
    <3>2. \A w \in Workers : \/ workAt'[w] = workAt[w]
                             \/ workAt[w] = "wait" /\ workAt'[w] = x
      BY <1>0, <3>1 DEF Base, Slots, CallSlots
    <3>3. QED
      BY <1>2, <1>12, <3>1, <3>2
  <2>3. QED
    BY <2>1, <2>2
<1>13. ASSUME NEW c \in Calls, Gate(c) \/ Body(c) PROVE Holds' /\ Logged'
  <2>1. UNCHANGED <<log, owner, job>>
    BY <1>13 DEF Gate, Body, gateway, queue
  <2>2. \/ UNCHANGED <<workAt, workEv>> \/ Crash(HostOf[c])
        \/ \E x \in {"ok", "err"} : Respond(c, x)
    BY <1>13 DEF Gate, Body, worker
  <2>3. QED
    BY <1>2, <1>11, <1>12, <2>1, <2>2
<1>14. ASSUME NEW c \in Calls, Timeout(c) PROVE Holds' /\ Logged'
  <2>1. /\ UNCHANGED <<workEv, log, owner, job>>
        /\ workAt' = [workAt EXCEPT ![callFor[c]] = "err"] /\ workAt[callFor[c]] = "wait"
    BY <1>14 DEF Timeout, gateway, queue, Base, Slots, CallSlots
  <2>2. QED
    BY <1>0, <1>2, <2>1
<1>15. ASSUME PeriodBegins \/ \E h \in Containers : ContainerCrash(h) PROVE Holds' /\ Logged'
  <2>1. UNCHANGED <<log, owner, job>>
    BY <1>15 DEF PeriodBegins, ContainerCrash, gateway, queue
  <2>2. UNCHANGED <<workAt, workEv>> \/ \E h : Crash(h)
    BY <1>15 DEF PeriodBegins, ContainerCrash, worker
  <2>3. QED
    BY <1>2, <1>11, <2>1, <2>2
<1>16. CASE UNCHANGED vars
  BY <1>2, <1>16 DEF vars, gateway, queue, worker
<1>17. QED
  BY <1>3, <1>4, <1>7, <1>8, <1>9, <1>10, <1>13, <1>14, <1>15, <1>16 DEF Next

\* As long as no worker loses the lock of a job it runs, a completed job has
\* the log status 'success'.
THEOREM CompletedLogged == Spec => []CompletedIsLogged
<1>1. Init => LoggedInv
  BY DEF Init, LoggedInv, Holds, Logged
<1>2. LoggedInv => CompletedIsLogged
  BY DEF LoggedInv, Logged, CompletedIsLogged
<1>3. QED
  BY <1>1, <1>2, LoggedStep, BaseAlways, PTL DEF Spec

-----------------------------------------------------------------------------
(* The ledger of a delivery (DeliveryLedger): a worker about to complete a *)
(* job is past the gate too, and then every step of the pipeline is a step *)
(* of the ledger or none.                                                  *)

DoneGate == \A w \in Workers : workAt[w] = "done" => workEv[w] \in processed

DeliveryInv == OnceInv /\ PastGate /\ DoneGate

\* A worker gets to "done" from "ok" only, with the delivery it has.
LEMMA DoneGateStep == Base /\ PastGate /\ DoneGate /\ [Next]_vars => DoneGate'
<1> SUFFICES ASSUME Base, PastGate, DoneGate, [Next]_vars PROVE DoneGate'
  OBVIOUS
<1>0. /\ workAt \in [Workers -> {"idle", "mark", "post", "wait", "ok", "err", "done", "fail"}]
      /\ workEv \in [Workers -> Events \cup {NoEvent}]
      /\ processed \subseteq processed'
  BY ProcessedGrows DEF Base, TypeOK, WorkerOK
<1> DEFINE Steady == \A w \in Workers : workAt'[w] = "done" =>
                         workAt[w] \in {"ok", "done"} /\ workEv'[w] = workEv[w]
<1>1. ASSUME Steady PROVE DoneGate'
  BY <1>0, <1>1 DEF DoneGate, PastGate
<1>2. ASSUME UNCHANGED worker PROVE Steady
  BY <1>2 DEF worker
<1>3. ASSUME NEW w \in Workers, NEW to \in {"idle", "mark", "post", "wait", "err", "fail"},
             workAt' = [workAt EXCEPT ![w] = to],
             UNCHANGED workEv \/ \E e : workEv' = [workEv EXCEPT ![w] = e]
      PROVE  Steady
  BY <1>0, <1>3
<1>4. ASSUME NEW h, Crash(h) PROVE Steady
  BY <1>4 DEF Crash
<1>5. ASSUME NEW c, NEW x \in {"ok", "err"}, Respond(c, x) PROVE Steady
  BY <1>4, <1>5 DEF Respond
<1>6. ASSUME NEW w \in Workers, WorkerStep(w) PROVE Steady
  <2>1. CASE LogSuccess(w)
    <3>1. /\ UNCHANGED workEv /\ workAt[w] = "ok"
          /\ \E to \in {"done", "err"} : workAt' = [workAt EXCEPT ![w] = to]
      BY <2>1 DEF LogSuccess, At
    <3>2. QED
      BY <1>0, <3>1
  <2>2. CASE MarkRunning(w) \/ (\E c \in Calls : Post(w, c)) \/ PostFails(w) \/ LogFailed(w)
    <3>1. UNCHANGED workEv /\ \E to \in {"post", "fail", "wait", "err"} : workAt' = [workAt EXCEPT ![w] = to]
      BY <2>2 DEF MarkRunning, Post, PostFails, LogFailed, At
    <3>2. QED
      BY <1>3, <3>1
  <2>3. CASE Complete(w) \/ Fail(w)
    <3>1. workAt' = [workAt EXCEPT ![w] = "idle"] /\ workEv' = [workEv EXCEPT ![w] = NoEvent]
      BY <2>3 DEF Complete, Fail, Settled, At
    <3>2. QED
      BY <1>3, <3>1
  <2>4. QED
    BY <1>6, <2>1, <2>2, <2>3 DEF WorkerStep
<1>7. ASSUME NEW w \in Workers, WorkerCrash(w) \/ \E e \in Events : Take(w, e) PROVE Steady
  <2>1. \E to \in {"idle", "mark"} : workAt' = [workAt EXCEPT ![w] = to]
    BY <1>7 DEF WorkerCrash, Take, At
  <2>2. \E e : workEv' = [workEv EXCEPT ![w] = e]
    BY <1>7 DEF WorkerCrash, Take
  <2>3. QED
    BY <1>3, <2>1, <2>2
<1>8. ASSUME NEW c \in Calls, Gate(c) PROVE Steady
  BY <1>2, <1>4, <1>5, <1>8 DEF Gate
<1>9. ASSUME NEW c \in Calls, Body(c) PROVE Steady
  BY <1>5, <1>9 DEF Body
<1>10. ASSUME NEW c \in Calls, Timeout(c) PROVE Steady
  <2>1. workAt' = [workAt EXCEPT ![callFor[c]] = "err"] /\ UNCHANGED workEv
    BY <1>10 DEF Timeout
  <2>2. QED
    BY <1>0, <2>1
<1>11. ASSUME NEW h \in Containers, ContainerCrash(h) PROVE Steady
  BY <1>4, <1>11 DEF ContainerCrash
<1>12. ASSUME \/ \E q \in Requests : RequestStep(q)
              \/ PeriodBegins \/ (\E w \in Workers : LockRunsOut(w)) \/ (\E e \in Events : Stalled(e))
       PROVE  Steady
  BY <1>2, <1>12 DEF RequestStep, Deliver, CheckQuota, Count, EnqueueWebhook, RequestFails, PeriodBegins,
     LockRunsOut, Stalled, worker
<1>13. UNCHANGED vars => Steady
  BY <1>2 DEF vars
<1>14. QED
  BY <1>1, <1>6, <1>7, <1>8, <1>9, <1>10, <1>11, <1>12, <1>13 DEF Next

LEMMA DeliveryInit == Init => Delivery!Init
BY DEF Init, Delivery!Init, Finished

\* What the ledger does not show.
LEMMA DeliveryStutters ==
    ASSUME UNCHANGED <<log, counted, job, processed, starts>>
    PROVE  UNCHANGED Delivery!delivery
BY DEF Delivery!delivery

\* A job moves on: it is over now, or the ledger does not see it.
LEMMA DeliverySettles ==
    ASSUME QueueOK, NEW e \in Events, job[e] \in {"waiting", "active"},
           NEW x \in {"waiting", "active", "completed", "failed"}, job' = [job EXCEPT ![e] = x],
           x = "completed" => e \in processed, UNCHANGED <<log, counted, processed, starts>>
    PROVE  [Delivery!Next]_Delivery!delivery
<1> DEFINE Queued  == {f \in Events : job[f] # "none"}
           Verdict == [f \in Events |-> IF job[f] \in Finished THEN job[f] ELSE "open"]
<1>1. Queued' = Queued /\ e \in Queued /\ Verdict[e] = "open"
  BY DEF QueueOK, Finished
<1>2. \A f \in Events \ {e} : job'[f] = job[f]
  BY DEF QueueOK
<1>3. CASE x \in Finished
  <2>1. Verdict' = [Verdict EXCEPT ![e] = x]
    BY <1>2, <1>3 DEF QueueOK
  <2>2. Delivery!Settle(e)
    BY <1>1, <1>3, <2>1 DEF Delivery!Settle, Finished
  <2>3. QED
    BY <2>2 DEF Delivery!Next
<1>4. CASE x \notin Finished
  <2>1. Verdict' = Verdict
    BY <1>2, <1>4 DEF QueueOK, Finished
  <2>2. QED
    BY <1>1, <2>1 DEF Delivery!delivery
<1>5. QED
  BY <1>3, <1>4

\* A job is added.
LEMMA DeliveryQueues ==
    ASSUME QueueOK, NEW e \in Events, job[e] = "none", counted[e] = 1,
           job' = [job EXCEPT ![e] = "waiting"], UNCHANGED <<log, counted, processed, starts>>
    PROVE  [Delivery!Next]_Delivery!delivery
<1> DEFINE Queued  == {f \in Events : job[f] # "none"}
           Verdict == [f \in Events |-> IF job[f] \in Finished THEN job[f] ELSE "open"]
<1>1. Queued' = Queued \cup {e} /\ e \notin Queued
  BY DEF QueueOK
<1>2. Verdict' = Verdict
  BY DEF QueueOK, Finished
<1>3. Delivery!Queue(e)
  BY <1>1, <1>2 DEF Delivery!Queue
<1>4. QED
  BY <1>3 DEF Delivery!Next

LEMMA DeliveryStep ==
    ASSUME DeliveryInv, [Next]_vars
    PROVE  [Delivery!Next]_Delivery!delivery
<1> DEFINE Queued  == {f \in Events : job[f] # "none"}
           Verdict == [f \in Events |-> IF job[f] \in Finished THEN job[f] ELSE "open"]
<1>0. /\ Base /\ CountedOnce /\ StartedOnce /\ GatewayOK /\ QueueOK /\ WorkerOK /\ HandlerOK /\ HistoryOK
      /\ ReqSlots /\ CallSlots
  BY DEF DeliveryInv, OnceInv, Base, TypeOK, Slots
<1>1. ASSUME NEW q \in Requests, reqAt[q] # "idle" PROVE reqEv[q] \in Events
  BY <1>0, <1>1 DEF ReqSlots, GatewayOK
<1>2. ASSUME NEW w \in Workers, workAt[w] # "idle" PROVE workEv[w] \in Events /\ job[workEv[w]] # "none"
  BY <1>0, <1>2 DEF CallSlots, WorkerOK, StartedOnce
<1>3. ASSUME NEW q \in Requests, NEW e \in Events, Deliver(q, e) PROVE [Delivery!Next]_Delivery!delivery
  <2>1. CASE log[e] = "none"
    <3>1. log' = [log EXCEPT ![e] = "queued"] /\ UNCHANGED <<counted, job, processed, starts>>
      BY <1>3, <2>1 DEF Deliver, queue, handler
    <3>2. Delivery!Record(e)
      BY <2>1, <3>1 DEF Delivery!Record
    <3>3. QED
      BY <3>2 DEF Delivery!Next
  <2>2. CASE log[e] # "none"
    BY <1>3, <2>2, DeliveryStutters DEF Deliver, queue, handler
  <2>3. QED
    BY <2>1, <2>2
<1>4. ASSUME NEW q \in Requests, reqAt[q] = "count", Increment(q), UNCHANGED <<log, job, processed, starts>>
      PROVE  [Delivery!Next]_Delivery!delivery
  <2>1. reqEv[q] \in Events /\ counted[reqEv[q]] = 0 /\ log[reqEv[q]] # "none"
    BY <1>0, <1>1, <1>4, ConstantsOK DEF CountedOnce
  <2>2. counted' = [counted EXCEPT ![reqEv[q]] = 1]
    BY <1>0, <1>4, <2>1 DEF Increment, HistoryOK
  <2>3. Delivery!Charge(reqEv[q])
    BY <1>4, <2>1, <2>2 DEF Delivery!Charge
  <2>4. QED
    BY <2>1, <2>3 DEF Delivery!Next
<1>5. ASSUME NEW q \in Requests, reqAt[q] = "enqueue", Add(reqEv[q]), UNCHANGED <<log, counted, processed, starts>>
      PROVE  [Delivery!Next]_Delivery!delivery
  <2>1. reqEv[q] \in Events /\ counted[reqEv[q]] = 1
    BY <1>0, <1>1, <1>5 DEF CountedOnce
  <2>2. CASE job[reqEv[q]] = "none"
    <3>1. job' = [job EXCEPT ![reqEv[q]] = "waiting"]
      BY <1>5, <2>2 DEF Add
    <3>2. QED
      BY <1>0, <1>5, <2>1, <2>2, <3>1, DeliveryQueues
  <2>3. CASE job[reqEv[q]] # "none"
    <3>1. UNCHANGED job
      BY <1>0, <1>5, <2>3 DEF Add, QueueOK
    <3>2. QED
      BY <1>5, <3>1, DeliveryStutters
  <2>4. QED
    BY <2>2, <2>3
<1>6. ASSUME NEW q \in Requests, RequestStep(q) PROVE [Delivery!Next]_Delivery!delivery
  <2>1. CASE \E e \in Events : Deliver(q, e)
    BY <1>3, <2>1
  <2>2. CASE CheckQuota(q)
    BY <2>2, DeliveryStutters DEF CheckQuota, queue, handler
  <2>3. CASE Count(q)
    BY <1>4, <2>3 DEF Count, queue, handler
  <2>4. CASE EnqueueWebhook(q)
    BY <1>5, <2>4 DEF EnqueueWebhook, handler
  <2>5. CASE RequestFails(q)
    <3>1. UNCHANGED <<log, processed, starts>>
      BY <2>5 DEF RequestFails, handler
    <3>2. \/ reqAt[q] = "count" /\ Increment(q) /\ UNCHANGED job
          \/ reqAt[q] = "enqueue" /\ Add(reqEv[q]) /\ UNCHANGED counted
          \/ UNCHANGED <<counted, job>>
      BY <2>5 DEF RequestFails, queue
    <3>3. QED
      BY <1>4, <1>5, <3>1, <3>2, DeliveryStutters
  <2>6. QED
    BY <1>6, <2>1, <2>2, <2>3, <2>4, <2>5 DEF RequestStep
<1>7. ASSUME NEW w \in Workers, workAt[w] # "idle", NEW x \in {"running", "failed", "success"},
             log' = [log EXCEPT ![workEv[w]] = x], x = "success" => workEv[w] \in processed,
             UNCHANGED <<counted, job, processed, starts>>
      PROVE  [Delivery!Next]_Delivery!delivery
  <2>1. workEv[w] \in Queued
    BY <1>2, <1>7
  <2>2. Delivery!Show(workEv[w])
    BY <1>7, <2>1 DEF Delivery!Show
  <2>3. QED
    BY <2>1, <2>2 DEF Delivery!Next
<1>8. ASSUME NEW w \in Workers, MarkRunning(w) \/ LogSuccess(w) \/ LogFailed(w)
      PROVE  [Delivery!Next]_Delivery!delivery
  <2>1. workAt[w] # "idle" /\ UNCHANGED <<counted, job, processed, starts>>
    BY <1>8 DEF MarkRunning, LogSuccess, LogFailed, At, queue, handler, history
  <2>2. \/ UNCHANGED log
        \/ \E x \in {"running", "failed"} : log' = [log EXCEPT ![workEv[w]] = x]
        \/ workAt[w] = "ok" /\ log' = [log EXCEPT ![workEv[w]] = "success"]
    BY <1>8 DEF MarkRunning, LogSuccess, LogFailed, At, SetLog, gateway
  <2>3. workAt[w] = "ok" => workEv[w] \in processed
    BY DEF DeliveryInv, PastGate
  <2>4. CASE UNCHANGED log
    BY <2>1, <2>4, DeliveryStutters
  <2>5. CASE \E x \in {"running", "failed"} : log' = [log EXCEPT ![workEv[w]] = x]
    BY <1>7, <2>1, <2>5
  <2>6. CASE workAt[w] = "ok" /\ log' = [log EXCEPT ![workEv[w]] = "success"]
    BY <1>7, <2>1, <2>3, <2>6
  <2>7. QED
    BY <2>2, <2>4, <2>5, <2>6
<1>9. ASSUME NEW w \in Workers, Complete(w) \/ Fail(w) PROVE [Delivery!Next]_Delivery!delivery
  <2>1. workEv[w] \in Events /\ UNCHANGED <<log, counted, processed, starts>>
    BY <1>2, <1>9 DEF Complete, Fail, At, Settled, gateway, handler, history
  <2>2. CASE owner[workEv[w]] = w
    <3>1. job[workEv[w]] = "active"
      BY <1>0, <2>1, <2>2, ConstantsOK DEF Base, Locks
    <3>2. \E x \in {"waiting", "completed", "failed"} :
             job' = [job EXCEPT ![workEv[w]] = x] /\ (x = "completed" => workAt[w] = "done")
      BY <1>9, <2>2 DEF Complete, Fail, At, Settled
    <3>3. workAt[w] = "done" => workEv[w] \in processed
      BY DEF DeliveryInv, DoneGate
    <3>4. QED
      BY <1>0, <2>1, <3>1, <3>2, <3>3, DeliverySettles
  <2>3. CASE owner[workEv[w]] # w
    <3>1. UNCHANGED job
      BY <1>9, <2>3 DEF Complete, Fail, Settled
    <3>2. QED
      BY <2>1, <3>1, DeliveryStutters
  <2>4. QED
    BY <2>2, <2>3
<1>10. ASSUME NEW e \in Events, Stalled(e) \/ \E w \in Workers : Take(w, e)
       PROVE  [Delivery!Next]_Delivery!delivery
  <2>1. UNCHANGED <<log, counted, processed, starts>>
    BY <1>10 DEF Stalled, Take, gateway, handler, history
  <2>2. job[e] \in {"waiting", "active"} /\ \E x \in {"waiting", "active", "failed"} : job' = [job EXCEPT ![e] = x]
    BY <1>10 DEF Stalled, Take
  <2>3. QED
    BY <1>0, <2>1, <2>2, DeliverySettles
<1>11. ASSUME NEW c \in Calls, Gate(c) PROVE [Delivery!Next]_Delivery!delivery
  <2>1. callEv[c] \in Events /\ job[callEv[c]] # "none" /\ UNCHANGED <<log, counted, job>>
    BY <1>0, <1>11, ConstantsOK DEF Gate, CallSlots, HandlerOK, StartedOnce, gateway, queue
  <2>2. CASE UNCHANGED <<processed, starts>>
    BY <2>1, <2>2, DeliveryStutters
  <2>3. CASE ~UNCHANGED <<processed, starts>>
    <3>1. callEv[c] \notin processed /\ processed' = processed \cup {callEv[c]}
      BY <1>11, <2>3 DEF Gate
    <3>2. \/ UNCHANGED starts
          \/ callEv[c] \notin UnknownTopics /\ starts' = [starts EXCEPT ![callEv[c]] = @ + 1]
      BY <1>11, <2>3 DEF Gate
    <3>3. starts[callEv[c]] = 0 /\ starts \in [Events -> Nat]
      BY <1>0, <2>1, <3>1 DEF StartedOnce, HistoryOK
    <3>4. \/ UNCHANGED starts
          \/ callEv[c] \in Events \ UnknownTopics /\ starts' = [starts EXCEPT ![callEv[c]] = 1]
      BY <2>1, <3>2, <3>3
    <3>5. Delivery!Pass(callEv[c])
      BY <2>1, <3>1, <3>4 DEF Delivery!Pass
    <3>6. QED
      BY <2>1, <3>5 DEF Delivery!Next
  <2>4. QED
    BY <2>2, <2>3
<1>12. ASSUME \/ PeriodBegins
              \/ \E w \in Workers : \/ WorkerCrash(w) \/ LockRunsOut(w) \/ PostFails(w)
                                    \/ \E c \in Calls : Post(w, c)
              \/ \E c \in Calls : Body(c) \/ Timeout(c)
              \/ \E h \in Containers : ContainerCrash(h)
       PROVE  UNCHANGED <<log, counted, job, processed, starts>>
  BY <1>12 DEF PeriodBegins, WorkerCrash, LockRunsOut, PostFails, Post, Body, Timeout, ContainerCrash,
     gateway, queue, handler, history
<1>13. UNCHANGED vars => UNCHANGED <<log, counted, job, processed, starts>>
  BY DEF vars, gateway, queue, handler, history
<1>14. QED
  BY <1>6, <1>8, <1>9, <1>10, <1>11, <1>12, <1>13, DeliveryStutters DEF Next, WorkerStep

\* The pipeline implements the ledger of its deliveries, for any number of deliveries,
\* requests, workers, calls and containers: recorded, charged, queued and let through
\* in this order and once each, by three stores that share no transaction.
THEOREM PipelineImplementsDelivery == Spec => ImplementsDelivery
<1>1. Init => DeliveryInv
  BY BaseInit, ConstantsOK DEF Init, DeliveryInv, OnceInv, CountedOnce, StartedOnce, PastGate, DoneGate
<1>2. DeliveryInv /\ [Next]_vars => DeliveryInv'
  BY BaseStep, CountedStep, StartedStep, PastGateStep, DoneGateStep DEF DeliveryInv, OnceInv
<1>3. DeliveryInv /\ [Next]_vars => [Delivery!Next]_Delivery!delivery
  BY DeliveryStep
<1>4. QED
  BY <1>1, <1>2, <1>3, DeliveryInit, PTL DEF Spec, ImplementsDelivery, Delivery!Spec
=============================================================================
