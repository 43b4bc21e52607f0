--------------------------- MODULE DeliveryLedger ---------------------------
(***************************************************************************)
(* What three stores without a common transaction promise of a delivery,   *)
(* whatever requests, workers, containers, retries and crashes do: it is   *)
(* recorded, then charged against the quota, then queued, then let through *)
(* to the app, each at most once and in this order; the app's code is      *)
(* started at most once, as it is let through; the log says 'success' and  *)
(* the queue says "completed" of deliveries let through only, and what the *)
(* queue says in the end it says for good.  What the log says is no        *)
(* verdict: a job that is run again overwrites it.                         *)
(***************************************************************************)
EXTENDS Naturals

CONSTANTS
    Deliveries,
    Handled      \* those whose topic the app has code for

VARIABLES
    shown,       \* the status in the log; "none": not recorded
    charges,     \* executions counted against the quota for it
    queued,      \* deliveries that have a job
    passed,      \* deliveries let through to the app
    runs,        \* how often the app's code was started for it
    verdict      \* how its job ended, "open" before

delivery == <<shown, charges, queued, passed, runs, verdict>>

Init ==
    /\ shown = [d \in Deliveries |-> "none"]
    /\ charges = [d \in Deliveries |-> 0]
    /\ queued = {} /\ passed = {}
    /\ runs = [d \in Deliveries |-> 0]
    /\ verdict = [d \in Deliveries |-> "open"]

Record(d) ==
    /\ shown[d] = "none"
    /\ shown' = [shown EXCEPT ![d] = "queued"]
    /\ UNCHANGED <<charges, queued, passed, runs, verdict>>

Charge(d) ==
    /\ shown[d] # "none" /\ charges[d] = 0
    /\ charges' = [charges EXCEPT ![d] = 1]
    /\ UNCHANGED <<shown, queued, passed, runs, verdict>>

Queue(d) ==
    /\ charges[d] = 1 /\ d \notin queued
    /\ queued' = queued \cup {d}
    /\ UNCHANGED <<shown, charges, passed, runs, verdict>>

\* A crash between the two may cost the delivery its only run.
Pass(d) ==
    /\ d \in queued \ passed
    /\ passed' = passed \cup {d}
    /\ \/ d \in Handled /\ runs' = [runs EXCEPT ![d] = 1]
       \/ UNCHANGED runs
    /\ UNCHANGED <<shown, charges, queued, verdict>>

Show(d) ==
    /\ d \in queued
    /\ \/ \E status \in {"running", "failed"} : shown' = [shown EXCEPT ![d] = status]
       \/ d \in passed /\ shown' = [shown EXCEPT ![d] = "success"]
    /\ UNCHANGED <<charges, queued, passed, runs, verdict>>

Settle(d) ==
    /\ d \in queued /\ verdict[d] = "open"
    /\ \/ verdict' = [verdict EXCEPT ![d] = "failed"]
       \/ d \in passed /\ verdict' = [verdict EXCEPT ![d] = "completed"]
    /\ UNCHANGED <<shown, charges, queued, passed, runs>>

Next ==
    \E d \in Deliveries :
        Record(d) \/ Charge(d) \/ Queue(d) \/ Pass(d) \/ Show(d) \/ Settle(d)

Spec == Init /\ [][Next]_delivery
=============================================================================
