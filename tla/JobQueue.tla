------------------------------ MODULE JobQueue ------------------------------
(***************************************************************************)
(* What a queue in one table promises of its jobs, whatever process works  *)
(* on it, stops, crashes or comes back.  A job goes from "absent" to       *)
(* "pending" while no other job with its key is in progress; workers take  *)
(* pending jobs, and a job they took ends "done" if they know it, "failed" *)
(* if they do not or have tried it MaxTries times, and is "pending" again  *)
(* otherwise.  A job whose worker is gone is reclaimed.                    *)
(*                                                                         *)
(* Two things weaken the promise, and how far is what this module says.    *)
(* `late`: a lease ran out under a worker, so a job may be taken away from *)
(* it and taken by another.  `lost`: a worker did not hear that its write  *)
(* took effect, so it may write again.  Neither lets anybody take a job    *)
(* that is not pending, write one it does not hold, or put two jobs with   *)
(* the same key in progress.                                               *)
(***************************************************************************)
EXTENDS Naturals

CONSTANTS
    Jobs, Workers,
    Known,       \* the jobs the workers have code for
    Key, NoKey,  \* Key[j]: what j is deduplicated by, if it is
    MaxTries

VARIABLES
    state,       \* "absent", "pending", "processing", "done" or "failed"
    tries,       \* how often the job was taken
    reclaims,    \* how often it was reclaimed
    hold,        \* hold[w]: the jobs worker w works on
    late, lost

queue == <<state, tries, reclaims, hold, late, lost>>

Init ==
    /\ state = [j \in Jobs |-> "absent"]
    /\ tries = [j \in Jobs |-> 0] /\ reclaims = [j \in Jobs |-> 0]
    /\ hold = [w \in Workers |-> {}]
    /\ late = FALSE /\ lost = FALSE

Free(j) ==
    \A k \in Jobs \ {j} :
        Key[k] = Key[j] /\ Key[j] # NoKey => state[k] \notin {"pending", "processing"}

Unheld(S) == \A w \in Workers : hold[w] \cap S = {}

\* Both promises stand: what a worker holds is in progress.
InProgress(j) == late \/ lost \/ state[j] = "processing"

Add(j) ==
    /\ state[j] = "absent" /\ Free(j)
    /\ state' = [state EXCEPT ![j] = "pending"]
    /\ UNCHANGED <<tries, reclaims, hold, late, lost>>

Take(w, S) ==
    /\ \A j \in S : state[j] = "pending"
    /\ late \/ Unheld(S)
    /\ state' = [j \in Jobs |-> IF j \in S THEN "processing" ELSE state[j]]
    /\ tries' = [j \in Jobs |-> IF j \in S THEN tries[j] + 1 ELSE tries[j]]
    /\ \/ hold' = [hold EXCEPT ![w] = S] /\ UNCHANGED lost
       \/ UNCHANGED hold /\ lost' = TRUE
    /\ UNCHANGED <<reclaims, late>>

\* The worker hears of its write and is done with the job; or it does not,
\* and keeps the job or drops all it holds.
Wrote(w, j) ==
    \/ hold' = [hold EXCEPT ![w] = @ \ {j}] /\ UNCHANGED lost
    \/ hold' \in {hold, [hold EXCEPT ![w] = {}]} /\ lost' = TRUE

Finish(w, j) ==
    /\ j \in hold[w] /\ InProgress(j)
    /\ \/ j \in Known /\ state' = [state EXCEPT ![j] = "done"]
       \/ /\ j \notin Known \/ tries[j] >= MaxTries \/ late \/ lost
          /\ state' = [state EXCEPT ![j] = "failed"]
    /\ Wrote(w, j)
    /\ UNCHANGED <<tries, reclaims, late>>

Retry(w, j) ==
    /\ j \in hold[w] /\ InProgress(j) /\ Free(j)
    /\ tries[j] < MaxTries \/ late
    /\ state' = [state EXCEPT ![j] = "pending"]
    /\ Wrote(w, j)
    /\ UNCHANGED <<tries, reclaims, late>>

Reclaim(S) ==
    /\ \A j \in S : state[j] = "processing"
    /\ late \/ Unheld(S)
    /\ state' = [j \in Jobs |-> IF j \in S THEN "pending" ELSE state[j]]
    /\ reclaims' = [j \in Jobs |-> IF j \in S THEN reclaims[j] + 1 ELSE reclaims[j]]
    /\ UNCHANGED <<tries, hold, late, lost>>

\* Workers are gone, or a promise is.
Drop(W) ==
    /\ hold' = [w \in Workers |-> IF w \in W THEN {} ELSE hold[w]]
    /\ UNCHANGED late \/ late' = TRUE
    /\ UNCHANGED lost \/ lost' = TRUE
    /\ UNCHANGED <<state, tries, reclaims>>

Next ==
    \/ \E j \in Jobs : Add(j)
    \/ \E w \in Workers : \/ \E S \in SUBSET Jobs : Take(w, S)
                          \/ \E j \in hold[w] : Finish(w, j) \/ Retry(w, j)
    \/ \E S \in SUBSET Jobs : Reclaim(S)
    \/ \E W \in SUBSET Workers : Drop(W)

Spec == Init /\ [][Next]_queue
=============================================================================
