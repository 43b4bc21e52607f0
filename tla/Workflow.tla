------------------------------- MODULE Workflow -------------------------------
(***************************************************************************)
(* The row lifecycle of the handler template (lib/workflow.ts): claim a    *)
(* row, run the app's callback, mark it completed or failed; a periodic    *)
(* sweep fails the rows whose claim is older than the limit.  The          *)
(* attempts on a row are deliveries of the app's cron jobs, in any number  *)
(* of containers, any of which may be killed.                              *)
(***************************************************************************)
EXTENDS Naturals, FiniteSets

CONSTANTS
    WorkRows,
    Attempts,          \* calls of attempt, each used once
    MaxWorkflowFaults  \* bound: statements that fail, containers killed

ASSUME WorkflowAssumption == MaxWorkflowFaults \in Nat

VARIABLES
    work,       \* each row's status column
    stale,      \* rows whose started_at is older than the sweep's limit
    attempt,    \* progress of each attempt: [at, row]
    swept,      \* history: rows a sweep failed
    workFaults

workflowVars == <<work, stale, attempt, swept, workFaults>>

NoWork == "no row"

WorkflowInit ==
    /\ work = [r \in WorkRows |-> "pending"]
    /\ stale = {} /\ swept = {} /\ workFaults = 0
    /\ attempt = [a \in Attempts |-> [at |-> "ready", row |-> NoWork]]

On(a)       == attempt[a].row
Step(a, to) == attempt' = [attempt EXCEPT ![a].at = to]
WorkFault   == workFaults < MaxWorkflowFaults /\ workFaults' = workFaults + 1
NoFault     == UNCHANGED workFaults

\* The states an app retries from.
From == {"pending", "failed"}

\* Mutant: the status is not part of the WHERE.
MutClaimableWork == WorkRows

ClaimableWork == {r \in WorkRows : work[r] \in From}

\* One UPDATE ... WHERE status = ANY(from): no row, no callback.
claim(a, r) ==
    /\ attempt[a].at = "ready"
    /\ IF r \in ClaimableWork
       THEN /\ work' = [work EXCEPT ![r] = "running"]
            /\ stale' = stale \ {r}
            /\ attempt' = [attempt EXCEPT ![a] = [at |-> "callback", row |-> r]]
       ELSE Step(a, "over") /\ UNCHANGED <<work, stale>>
    /\ NoFault
    /\ UNCHANGED swept

\* The callback returns or throws.
Callback(a) ==
    /\ attempt[a].at = "callback"
    /\ \E outcome \in {"completed", "failed"} : Step(a, outcome)
    /\ NoFault
    /\ UNCHANGED <<work, stale, swept>>

\* complete, fail: whatever the row's status is by now.  The statement may
\* fail: attempt rethrows, and the row stays as it is.
Terminate(a) ==
    /\ attempt[a].at \in {"completed", "failed"}
    /\ \/ work' = [work EXCEPT ![On(a)] = attempt[a].at] /\ NoFault
       \/ WorkFault /\ UNCHANGED work
    /\ Step(a, "over")
    /\ UNCHANGED <<stale, swept>>

\* The limit passes.
Age(r) ==
    /\ r \notin stale /\ work[r] = "running"
    /\ stale' = stale \cup {r}
    /\ UNCHANGED <<work, attempt, swept, workFaults>>

Swept == {r \in stale : work[r] = "running"}

sweepStale ==
    /\ Swept # {}
    /\ work' = [r \in WorkRows |-> IF r \in Swept THEN "failed" ELSE work[r]]
    /\ swept' = swept \cup Swept
    /\ UNCHANGED <<stale, attempt, workFaults>>

\* The container is killed.
KillAttempt(a) ==
    /\ attempt[a].at \notin {"ready", "over"}
    /\ WorkFault /\ Step(a, "over")
    /\ UNCHANGED <<work, stale, swept>>

WorkflowNext ==
    \/ \E a \in Attempts :
          (\E r \in WorkRows : claim(a, r)) \/ Callback(a) \/ Terminate(a) \/ KillAttempt(a)
    \/ (\E r \in WorkRows : Age(r)) \/ sweepStale

WorkflowSpec == WorkflowInit /\ [][WorkflowNext]_workflowVars

-----------------------------------------------------------------------------
WorkflowTypeOK ==
    /\ work \in [WorkRows -> {"pending", "running", "completed", "failed"}]
    /\ stale \subseteq WorkRows /\ swept \subseteq WorkRows
    /\ attempt \in [Attempts -> [at  : {"ready", "callback", "completed", "failed", "over"},
                                row : WorkRows \cup {NoWork}]]
    /\ workFaults \in 0 .. MaxWorkflowFaults

Working(r) == {a \in Attempts : attempt[a].at = "callback" /\ On(a) = r}

(* Two callbacks work on one row at a time only if the sweep once took it   *)
(* from a slow one; and after that they may, without another sweep, since  *)
(* the slow one's result opens the row again.                              *)
OverlapWasSwept == \A r \in WorkRows : Cardinality(Working(r)) > 1 => r \in swept
================================================================================
