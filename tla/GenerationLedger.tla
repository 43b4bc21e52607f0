-------------------------- MODULE GenerationLedger --------------------------
(***************************************************************************)
(* What the generations table promises the dashboard and the deployer,     *)
(* whatever publishers, the generator and the subscribers do: a job is     *)
(* requested once, a verdict is only recorded for a requested job, a row   *)
(* only names a bundle that is kept, a deploy is only begun for a success  *)
(* that names its bundle, only a deploy that was begun is marked, and      *)
(* neither the bundle nor the mark is ever lost.  The generator may report *)
(* a success without a bundle or a failure with one, and a cancellation is *)
(* only provisional: the generator is not told, its verdict may follow.    *)
(***************************************************************************)
CONSTANT Jobs

VARIABLES
    verdict,     \* of each job, as the sessions list shows it
    kept,        \* the jobs whose bundle.json is in the bucket
    named,       \* the jobs whose row names the bundle
    deploying,   \* the jobs a deploy request is served for
    deployed     \* the jobs marked as deployed

ledger == <<verdict, kept, named, deploying, deployed>>

Init ==
    /\ verdict = [j \in Jobs |-> "absent"]
    /\ kept = {} /\ named = {} /\ deploying = {} /\ deployed = {}

Request(j) ==
    /\ verdict[j] = "absent"
    /\ verdict' = [verdict EXCEPT ![j] = "pending"]
    /\ UNCHANGED <<kept, named, deploying, deployed>>

Cancel(j) ==
    /\ verdict[j] = "pending"
    /\ verdict' = [verdict EXCEPT ![j] = "cancelled"]
    /\ UNCHANGED <<kept, named, deploying, deployed>>

Keep(j) ==
    /\ verdict[j] # "absent"
    /\ kept' = kept \cup {j}
    /\ UNCHANGED <<verdict, named, deploying, deployed>>

Record(j) ==
    /\ verdict[j] # "absent"
    /\ \E v \in {"success", "failed"} : verdict' = [verdict EXCEPT ![j] = v]
    /\ \/ named' = named \ {j}
       \/ j \in kept /\ named' = named \cup {j}
    /\ UNCHANGED <<kept, deploying, deployed>>

BeginDeploy(j) ==
    /\ verdict[j] = "success" /\ j \in named
    /\ deploying' = deploying \cup {j}
    /\ UNCHANGED <<verdict, kept, named, deployed>>

EndDeploy(j) ==
    /\ j \in deploying
    /\ deploying' \in {deploying, deploying \ {j}}
    /\ deployed' \in {deployed, deployed \cup {j}}
    /\ UNCHANGED <<verdict, kept, named>>

Next == \E j \in Jobs : \/ Request(j) \/ Cancel(j) \/ Keep(j) \/ Record(j)
                        \/ BeginDeploy(j) \/ EndDeploy(j)

Spec == Init /\ [][Next]_ledger
=============================================================================
