----------------------------- MODULE CronRunner -----------------------------
(***************************************************************************)
(* The cron queue of one generated app: the cron_queue table, the pg_cron  *)
(* tick and enqueueJob that fill it, and the cron runner that every        *)
(* container instance of the app's handler boots (templates/handler:       *)
(* lib/cron-runner.ts, lib/cron-enqueue.ts, 0001_template_baseline.sql).   *)
(*                                                                         *)
(* One SQL statement is one step; everything between two awaits of the     *)
(* runner may interleave with the other drains, instances and producers.   *)
(* A drain is one call of drainOnce(): the boot drain, one started by a    *)
(* notification, or one started by the safety poll; several may run in the *)
(* same instance because awaken() never looks for one already running.     *)
(*                                                                         *)
(* Clock values are reduced to the two comparisons the SQL makes with      *)
(* them: visible[r] is "next_visible_at IS NULL OR next_visible_at <=      *)
(* NOW()", expired[r] is "started_at < NOW() - LEASE" of a processing row. *)
(***************************************************************************)
EXTENDS Naturals, FiniteSets

CONSTANTS
    Rows,           \* the ids (BIGSERIAL) the rows of cron_queue may get
    NoRow,          \* "no row": a drain that runs no job
    Instances,      \* the container instances of the handler
    Drains,         \* the calls of drainOnce() that may be in progress
    Host,           \* Host[d]: the instance drain d belongs to
    NoKey,          \* dedup_key IS NULL
    DedupKey,       \* DedupKey[r]: the (job_name, dedup_key) pair, or NoKey
    UnknownJobs,    \* rows whose job_name is not in the jobs map
    MaxAttempts,    \* MAX_ATTEMPTS
    BatchSize,      \* BATCH_SIZE
    LeaseOverrun,   \* which rows may outlive their lease while a drain holds
                    \* them: "any", or only those "queued" behind the row
                    \* whose body runs (each body alone meets the lease); the
                    \* code bounds neither
    MaxDisruptions, \* bound: crashes, shutdowns and overrun leases
    MaxDbErrors     \* bound: SQL statements whose call rejects

Statuses == {"absent", "pending", "processing", "done", "failed"}
Phases   == {"down", "boot", "failed", "up"}
DrainPcs == {"idle", "sweep", "claim", "next", "body", "unknown", "done", "caught"}

ASSUME ConstantsOK ==
    /\ Rows \subseteq Nat /\ IsFiniteSet(Rows)
    /\ NoRow \notin Rows
    /\ Host \in [Drains -> Instances]
    /\ UnknownJobs \subseteq Rows
    /\ MaxAttempts \in Nat \ {0}
    /\ BatchSize \in Nat \ {0}
    /\ LeaseOverrun \in {"queued", "any"}
    /\ MaxDisruptions \in Nat /\ MaxDbErrors \in Nat

VARIABLES
    status,      \* status[r]; "absent": no such row
    attempts,    \* attempts[r]
    visible,     \* next_visible_at is NULL or in the past
    expired,     \* the row is processing and its started_at is past the lease
    phase,       \* phase[i] of an instance; "failed": the boot sequence threw
    stopping,    \* stopping[i]: stop() was called
    listening,   \* LISTEN is set up
    wake,        \* a NOTIFY is on its way to instance i
    pc,          \* pc[d]: where drain d is
    cur,         \* cur[d]: the row whose runJob is in progress
    batch,       \* batch[d]: the claimed rows it has not come to yet
    got,         \* got[d][r]: row.attempts as the claim returned it
    retried,     \* history: the attempt numbers that ended in a requeue of r
    sweeps,      \* history: how often the sweeper reclaimed r
    overran,     \* history: a lease ran out while a drain held the row
    disruptions, \* disruptions so far
    dbErrors     \* rejected SQL calls so far

table    == <<status, attempts, visible, expired>>
process  == <<phase, stopping, listening, wake>>
drain    == <<pc, cur, batch, got>>
history  == <<retried, sweeps, overran>>
budget   == <<disruptions, dbErrors>>
vars     == <<table, process, drain, history, budget>>

Active(r)  == status[r] \in {"pending", "processing"}
Holds(d)   == batch[d] \cup ({cur[d]} \ {NoRow})
Held(r)    == \E d \in Drains : r \in Holds(d)

\* Mutant of KeyTaken: an index that forgets the rows being processed.
MutKeyTaken(r) == \E s \in Rows \ {r} : /\ status[s] = "pending"
                                       /\ DedupKey[r] # NoKey
                                       /\ DedupKey[s] = DedupKey[r]

(***************************************************************************)
(* cron_queue_dedup_active_idx: a row may become (or stay) active only if  *)
(* no other active row carries its key.                                    *)
(***************************************************************************)
KeyTaken(r) == \E s \in Rows \ {r} : /\ Active(s)
                                    /\ DedupKey[r] # NoKey
                                    /\ DedupKey[s] = DedupKey[r]

Init ==
    /\ status = [r \in Rows |-> "absent"]
    /\ attempts = [r \in Rows |-> 0]
    /\ visible = [r \in Rows |-> TRUE]
    /\ expired = [r \in Rows |-> FALSE]
    /\ phase = [i \in Instances |-> "down"]
    /\ stopping = [i \in Instances |-> FALSE]
    /\ listening = [i \in Instances |-> FALSE]
    /\ wake = [i \in Instances |-> FALSE]
    /\ pc = [d \in Drains |-> "idle"]
    /\ cur = [d \in Drains |-> NoRow]
    /\ batch = [d \in Drains |-> {}]
    /\ got = [d \in Drains |-> [r \in Rows |-> 0]]
    /\ retried = [r \in Rows |-> {}]
    /\ sweeps = [r \in Rows |-> 0]
    /\ overran = FALSE
    /\ disruptions = 0
    /\ dbErrors = 0

Disrupt == disruptions < MaxDisruptions /\ disruptions' = disruptions + 1
DbError == dbErrors < MaxDbErrors /\ dbErrors' = dbErrors + 1

-----------------------------------------------------------------------------
(* Producers.  Ids are drawn in increasing order; an insert that conflicts *)
(* draws an id and leaves no row, so ids may be skipped.                   *)

Insert(r) ==
    /\ \A s \in Rows : s >= r => status[s] = "absent"
    /\ ~KeyTaken(r)                                \* ON CONFLICT DO NOTHING
    /\ status' = [status EXCEPT ![r] = "pending"]
    /\ UNCHANGED <<attempts, visible, expired>>

\* enqueueJob: inserts, and notifies nobody.
Enqueue(r) ==
    /\ Insert(r)
    /\ UNCHANGED <<process, drain, history, budget>>

\* The pg_cron command: an insert without a key, then NOTIFY.
CronTick(r) ==
    /\ DedupKey[r] = NoKey
    /\ Insert(r)
    /\ wake' = [i \in Instances |-> IF listening[i] THEN TRUE ELSE wake[i]]
    /\ UNCHANGED <<phase, stopping, listening, drain, history, budget>>

-----------------------------------------------------------------------------
(* The life of an instance.                                                *)

\* startCronRunner: the boot sequence sweeps, then drains in d.
Start(i, d) ==
    /\ phase[i] = "down" /\ Host[d] = i
    /\ phase' = [phase EXCEPT ![i] = "boot"]
    /\ pc' = [pc EXCEPT ![d] = "sweep"]
    /\ UNCHANGED <<table, stopping, listening, wake, cur, batch, got, history, budget>>

\* The LISTEN callback: awaken(), which starts a drain unless stopping.
Notified(d) ==
    /\ wake[Host[d]] /\ listening[Host[d]] /\ pc[d] = "idle"
    /\ wake' = [wake EXCEPT ![Host[d]] = FALSE]
    /\ pc' = [pc EXCEPT ![d] = IF stopping[Host[d]] THEN "idle" ELSE "claim"]
    /\ UNCHANGED <<table, phase, stopping, listening, cur, batch, got, history, budget>>

\* Mutant of Poll: a safety poll that wakes the drain and does not sweep.
MutPoll(d) ==
    /\ phase[Host[d]] = "up" /\ ~stopping[Host[d]] /\ pc[d] = "idle"
    /\ pc' = [pc EXCEPT ![d] = "claim"]
    /\ UNCHANGED <<table, process, cur, batch, got, history, budget>>

\* The safety poll of a booted instance: sweepStale().then(awaken).
Poll(d) ==
    /\ phase[Host[d]] = "up" /\ ~stopping[Host[d]] /\ pc[d] = "idle"
    /\ pc' = [pc EXCEPT ![d] = "sweep"]
    /\ UNCHANGED <<table, process, cur, batch, got, history, budget>>

\* stop(): no new drains; the drains in progress finish their batch.
Stop(i) ==
    /\ phase[i] # "down" /\ ~stopping[i]
    /\ Disrupt
    /\ stopping' = [stopping EXCEPT ![i] = TRUE]
    /\ listening' = [listening EXCEPT ![i] = FALSE]
    /\ wake' = [wake EXCEPT ![i] = FALSE]
    /\ UNCHANGED <<table, phase, drain, history, dbErrors>>

\* The process is gone, and with it every drain of the instance.
Gone(i) ==
    /\ phase' = [phase EXCEPT ![i] = "down"]
    /\ stopping' = [stopping EXCEPT ![i] = FALSE]
    /\ listening' = [listening EXCEPT ![i] = FALSE]
    /\ wake' = [wake EXCEPT ![i] = FALSE]
    /\ pc' = [d \in Drains |-> IF Host[d] = i THEN "idle" ELSE pc[d]]
    /\ cur' = [d \in Drains |-> IF Host[d] = i THEN NoRow ELSE cur[d]]
    /\ batch' = [d \in Drains |-> IF Host[d] = i THEN {} ELSE batch[d]]
    /\ got' = [d \in Drains |-> IF Host[d] = i THEN [r \in Rows |-> 0] ELSE got[d]]
    /\ UNCHANGED <<table, history>>

\* process.exit(0) after stop(): drained, or past SHUTDOWN_DRAIN_MS.
Exit(i) == stopping[i] /\ Gone(i) /\ UNCHANGED budget

Crash(i) == phase[i] # "down" /\ Disrupt /\ Gone(i) /\ UNCHANGED dbErrors

-----------------------------------------------------------------------------
(* One drain.                                                              *)

\* drainOnce() resolved.  If it was the boot drain the boot sequence goes on:
\* startListening() (whose failure is logged only), then the safety poll.
Return(d) ==
    LET i == Host[d] IN
    /\ pc' = [pc EXCEPT ![d] = "idle"]
    /\ UNCHANGED <<stopping, wake, cur, batch, got>>
    /\ \/ /\ phase[i] = "boot"
          /\ phase' = [phase EXCEPT ![i] = "up"]
          /\ \/ listening' = [listening EXCEPT ![i] = TRUE] /\ UNCHANGED dbErrors
             \/ UNCHANGED listening /\ DbError
       \/ phase[i] # "boot" /\ UNCHANGED <<phase, listening, dbErrors>>

\* drainOnce() rejected: awaken() logs it, the boot sequence ends there.
\* The rows the drain still holds are dropped with it.
Reject(d) ==
    LET i == Host[d] IN
    /\ pc' = [pc EXCEPT ![d] = "idle"]
    /\ cur' = [cur EXCEPT ![d] = NoRow]
    /\ batch' = [batch EXCEPT ![d] = {}]
    /\ got' = [got EXCEPT ![d] = [r \in Rows |-> 0]]
    /\ phase' = [phase EXCEPT ![i] = IF @ = "boot" THEN "failed" ELSE @]
    /\ UNCHANGED <<stopping, listening, wake>>

\* Mutant of Stale: a sweep that takes back rows whose lease still runs.
MutStale(r) == status[r] = "processing"

Stale(r) == status[r] = "processing" /\ expired[r]

SweepRows ==
    /\ status' = [r \in Rows |-> IF Stale(r) THEN "pending" ELSE status[r]]
    /\ visible' = [r \in Rows |-> IF Stale(r) THEN TRUE ELSE visible[r]]
    /\ expired' = [r \in Rows |-> FALSE]
    /\ sweeps' = [r \in Rows |-> IF Stale(r) THEN sweeps[r] + 1 ELSE sweeps[r]]
    /\ UNCHANGED attempts

\* sweepStale(); it returns at once when stopping and swallows its errors.
Sweep(d) ==
    /\ pc[d] = "sweep"
    /\ pc' = [pc EXCEPT ![d] = "claim"]
    /\ \/ ~stopping[Host[d]] /\ SweepRows /\ UNCHANGED dbErrors
       \/ stopping[Host[d]] /\ UNCHANGED <<table, sweeps, dbErrors>>
       \/ ~stopping[Host[d]] /\ DbError /\ UNCHANGED <<table, sweeps>>
    /\ UNCHANGED <<process, cur, batch, got, retried, overran, disruptions>>

\* Mutants of Claimable: a claim that also takes rows in processing, and one
\* that filters on "not being processed" instead of "pending".
MutClaimableActive(r)   == Active(r) /\ visible[r]
MutClaimableFinished(r) == status[r] \notin {"absent", "processing"} /\ visible[r]

Claimable(r) == status[r] = "pending" /\ visible[r]

\* ORDER BY created_at LIMIT BATCH_SIZE.  FOR UPDATE SKIP LOCKED makes two
\* overlapping claims behave as one after the other.
Oldest == {r \in Rows : /\ Claimable(r)
                        /\ Cardinality({s \in Rows : Claimable(s) /\ s < r}) < BatchSize}

ClaimRows ==
    /\ status' = [r \in Rows |-> IF r \in Oldest THEN "processing" ELSE status[r]]
    /\ attempts' = [r \in Rows |-> IF r \in Oldest THEN attempts[r] + 1 ELSE attempts[r]]
    /\ expired' = [r \in Rows |-> IF r \in Oldest THEN FALSE ELSE expired[r]]
    /\ UNCHANGED visible

\* The head of drainOnce's loop: give up if stopping, else claimBatch().
Claim(d) ==
    /\ pc[d] = "claim"
    /\ UNCHANGED <<history, disruptions>>
    /\ \/ /\ stopping[Host[d]] \/ Oldest = {}
          /\ Return(d)
          /\ UNCHANGED table
       \/ /\ ~stopping[Host[d]] /\ Oldest # {}
          /\ ClaimRows
          /\ batch' = [batch EXCEPT ![d] = Oldest]
          /\ got' = [got EXCEPT ![d] = [r \in Rows |-> IF r \in Oldest THEN attempts[r] + 1
                                                                      ELSE 0]]
          /\ pc' = [pc EXCEPT ![d] = "next"]
          /\ UNCHANGED <<process, cur, dbErrors>>
       \/ /\ ~stopping[Host[d]] /\ DbError
          /\ ClaimRows \/ UNCHANGED table
          /\ Reject(d)

\* for (const row of claimed): RETURNING promises no order.
NextRow(d) ==
    /\ pc[d] = "next"
    /\ \E r \in batch[d] :
         /\ cur' = [cur EXCEPT ![d] = r]
         /\ batch' = [batch EXCEPT ![d] = @ \ {r}]
         /\ pc' = [pc EXCEPT ![d] = IF r \in UnknownJobs THEN "unknown" ELSE "body"]
    /\ UNCHANGED <<table, process, got, history, budget>>

\* await job(row.payload), which returns or throws.
Body(d) ==
    /\ pc[d] = "body"
    /\ \E outcome \in {"done", "caught"} : pc' = [pc EXCEPT ![d] = outcome]
    /\ UNCHANGED <<table, process, cur, batch, got, history, budget>>

\* runJob is over: on to the next row, or back to the head of the loop.
NextOf(d) ==
    /\ pc' = [pc EXCEPT ![d] = IF batch[d] = {} THEN "claim" ELSE "next"]
    /\ cur' = [cur EXCEPT ![d] = NoRow]
    /\ got' = [got EXCEPT ![d] = [@ EXCEPT ![cur[d]] = 0]]
    /\ UNCHANGED <<process, batch>>

\* UPDATE cron_queue SET status = s WHERE id = row.id: whatever it was.
SetFinal(r, s) ==
    /\ status' = [status EXCEPT ![r] = s]
    /\ expired' = [expired EXCEPT ![r] = FALSE]
    /\ UNCHANGED <<attempts, visible>>

\* Both updates inside runJob's try: 'done' after the body, 'failed' for a
\* job nobody registered.  If the call rejects (whether or not the update
\* took effect) the catch block handles it like a failure of the job.
Settle(d) ==
    LET final == IF pc[d] = "done" THEN "done" ELSE "failed" IN
    /\ pc[d] \in {"done", "unknown"}
    /\ \/ SetFinal(cur[d], final) /\ NextOf(d) /\ UNCHANGED dbErrors
       \/ /\ DbError
          /\ SetFinal(cur[d], final) \/ UNCHANGED table
          /\ pc' = [pc EXCEPT ![d] = "caught"]
          /\ UNCHANGED <<process, cur, batch, got>>
    /\ UNCHANGED <<history, disruptions>>

\* Mutant of MayRetry: one attempt too many.
MutMayRetry(d) == got[d][cur[d]] <= MaxAttempts

MayRetry(d) == got[d][cur[d]] < MaxAttempts

RequeueRow(d) ==
    LET r == cur[d] IN
    /\ status' = [status EXCEPT ![r] = "pending"]
    /\ visible' = [visible EXCEPT ![r] = FALSE]
    /\ expired' = [expired EXCEPT ![r] = FALSE]
    /\ retried' = [retried EXCEPT ![r] = @ \cup {got[d][r]}]
    /\ UNCHANGED attempts

\* The catch block below MAX_ATTEMPTS: requeue with a backoff.  Making a
\* finished row active again may hit the dedup index; then, as when the call
\* rejects, the error leaves runJob and drainOnce.
Retry(d) ==
    /\ pc[d] = "caught" /\ MayRetry(d)
    /\ \/ ~KeyTaken(cur[d]) /\ RequeueRow(d) /\ NextOf(d) /\ UNCHANGED dbErrors
       \/ KeyTaken(cur[d]) /\ Reject(d) /\ UNCHANGED <<table, retried, dbErrors>>
       \/ /\ DbError /\ Reject(d)
          /\ \/ ~KeyTaken(cur[d]) /\ RequeueRow(d)
             \/ UNCHANGED <<table, retried>>
    /\ UNCHANGED <<sweeps, overran, disruptions>>

\* The catch block at MAX_ATTEMPTS.
GiveUp(d) ==
    /\ pc[d] = "caught" /\ ~MayRetry(d)
    /\ \/ SetFinal(cur[d], "failed") /\ NextOf(d) /\ UNCHANGED dbErrors
       \/ /\ DbError /\ Reject(d)
          /\ SetFinal(cur[d], "failed") \/ UNCHANGED table
    /\ UNCHANGED <<history, disruptions>>

-----------------------------------------------------------------------------
(* Time.                                                                   *)

\* The backoff of a requeued row is over.
BackoffEnds(r) ==
    /\ ~visible[r]
    /\ visible' = [visible EXCEPT ![r] = TRUE]
    /\ UNCHANGED <<status, attempts, expired, process, drain, history, budget>>

Expire(r) ==
    /\ status[r] = "processing" /\ ~expired[r]
    /\ expired' = [expired EXCEPT ![r] = TRUE]
    /\ UNCHANGED <<status, attempts, visible, process, drain, retried, sweeps>>

\* The lease of a row nobody works on any more runs out.
LeaseEnds(r) == ~Held(r) /\ Expire(r) /\ UNCHANGED <<overran, budget>>

\* The lease of a row runs out while a drain still holds it.
LeaseOverruns(r) ==
    /\ Held(r)
    /\ \/ LeaseOverrun = "any"
       \/ LeaseOverrun = "queued" /\ \A d \in Drains : r \in Holds(d) => cur[d] \notin {r, NoRow}
    /\ Expire(r)
    /\ Disrupt
    /\ overran' = TRUE
    /\ UNCHANGED dbErrors

-----------------------------------------------------------------------------
DrainStep(d) == Sweep(d) \/ Claim(d) \/ NextRow(d) \/ Body(d) \/ Settle(d)
                         \/ Retry(d) \/ GiveUp(d)

Next ==
    \/ \E r \in Rows : Enqueue(r) \/ CronTick(r) \/ BackoffEnds(r)
                          \/ LeaseEnds(r) \/ LeaseOverruns(r)
    \/ \E i \in Instances : Stop(i) \/ Exit(i) \/ Crash(i)
    \/ \E d \in Drains : Start(Host[d], d) \/ Notified(d) \/ Poll(d) \/ DrainStep(d)

Spec == Init /\ [][Next]_vars

(***************************************************************************)
(* Fairness: the event loop of a live instance keeps running its drains,   *)
(* setInterval keeps firing once the poll is installed, Cloud Run replaces *)
(* an instance that went away, a process told to stop exits, and clocks    *)
(* advance.  Nothing makes a producer insert or an instance crash.         *)
(***************************************************************************)
Fairness ==
    /\ \A d \in Drains : WF_vars(DrainStep(d)) /\ WF_vars(Notified(d))
    /\ \A i \in Instances :
         /\ WF_vars(\E d \in Drains : Start(i, d))
         /\ WF_vars(\E d \in Drains : Host[d] = i /\ Poll(d))
         /\ WF_vars(Exit(i))
    /\ \A r \in Rows : WF_vars(BackoffEnds(r)) /\ WF_vars(LeaseEnds(r))

FairSpec == Spec /\ Fairness

-----------------------------------------------------------------------------
(* Properties.                                                             *)

TableOK ==
    /\ status \in [Rows -> Statuses]
    /\ attempts \in [Rows -> Nat]
    /\ visible \in [Rows -> BOOLEAN]
    /\ expired \in [Rows -> BOOLEAN]

ProcessOK ==
    /\ phase \in [Instances -> Phases]
    /\ stopping \in [Instances -> BOOLEAN]
    /\ listening \in [Instances -> BOOLEAN]
    /\ wake \in [Instances -> BOOLEAN]

DrainOK ==
    /\ pc \in [Drains -> DrainPcs]
    /\ cur \in [Drains -> Rows \cup {NoRow}]
    /\ batch \in [Drains -> SUBSET Rows]
    /\ got \in [Drains -> [Rows -> Nat]]

HistoryOK ==
    /\ retried \in [Rows -> SUBSET Nat]
    /\ sweeps \in [Rows -> Nat]
    /\ overran \in BOOLEAN
    /\ disruptions \in 0 .. MaxDisruptions
    /\ dbErrors \in 0 .. MaxDbErrors

\* Every variable has its type.
TypeOK == TableOK /\ ProcessOK /\ DrainOK /\ HistoryOK

\* In-flight deduplication (cron-enqueue.ts:6-13): at no time are two rows of
\* the same (job_name, dedup_key) pending or processing, although a stale
\* runner may requeue a row that was finished and enqueued afresh meanwhile.
DedupUnique ==
    \A r, s \in Rows : /\ r # s /\ Active(r) /\ Active(s)
                       /\ DedupKey[r] # NoKey
                      => DedupKey[r] # DedupKey[s]

\* While no lease has overrun, a claimed row is worked on by one drain only,
\* of whichever instance, across crashes, sweeps and rejected SQL calls: the
\* promise of FOR UPDATE SKIP LOCKED (cron-runner.ts:6-10).
ExclusiveDispatch ==
    ~overran => \A d, e \in Drains : d # e => Holds(d) \cap Holds(e) = {}

\* However leases overrun and whoever requeues the row, a row is claimed at
\* most MAX_ATTEMPTS times plus once for every sweep that reclaimed it.
ClaimsBounded == \A r \in Rows : attempts[r] <= MaxAttempts + sweeps[r]

\* While no lease has overrun and no SQL call has rejected, 'done' is final:
\* no step takes a row out of it (the lifecycle of cron-runner.ts:19-25).
DoneIsFinal ==
    [][~overran /\ dbErrors = 0 =>
          \A r \in Rows : status[r] = "done" => status'[r] = "done"]_vars

\* The queue and all who work on it implement the job queue of JobQueue: a
\* drain holds the rows of its batch it has not settled, `late` is a lease
\* that overran and `lost` an SQL call that rejected (cron-runner.ts:6-25).
Queue == INSTANCE JobQueue WITH
    Jobs <- Rows, Workers <- Drains, Known <- Rows \ UnknownJobs,
    Key <- DedupKey, MaxTries <- MaxAttempts,
    state <- status, tries <- attempts, reclaims <- sweeps,
    hold <- [d \in Drains |-> Holds(d)], late <- overran, lost <- dbErrors > 0

ImplementsQueue == Queue!Spec

\* Every row that was enqueued is eventually done or failed, across crashes
\* and restarts of the instances.
RowsSettle == \A r \in Rows : status[r] = "pending" ~> status[r] \in {"done", "failed"}

\* cron-runner.ts:8-10: "N container instances never dispatch the same row
\* twice": the body of a row is not started while another drain is in it.
NoDoubleDispatch ==
    \A d, e \in Drains : d # e /\ pc[d] = "body" /\ pc[e] = "body" => cur[d] # cur[e]

\* cron-runner.ts:11-13: the safety poll catches what was missed, so a row
\* in the queue does not stay pending for ever.
PendingIsClaimed == \A r \in Rows : status[r] = "pending" ~> status[r] # "pending"
=============================================================================
