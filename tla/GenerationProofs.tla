--------------------------- MODULE GenerationProofs ---------------------------
(***************************************************************************)
(* Proofs about the way from a prompt to a bundle, for any number of jobs, *)
(* messages, deploy requests, faults and API instances, and for any bounds *)
(* of the agents' loops.                                                   *)
(*                                                                         *)
(* GenerationPipeline: handleMessage stores before it serves, serves       *)
(* before it promises and promises before it records, so whatever is       *)
(* recorded or marked has its bundle, and the pipeline implements the      *)
(* ledger.  GenerationClient: what the page takes for success came from a  *)
(* run's explanation or a stored bundle.  GeneratorAgents: each phase      *)
(* knows what the state file says of the phases before it.                 *)
(***************************************************************************)
EXTENDS GenerationClient, GeneratorAgents, FiniteSetTheorems, TLAPS

-----------------------------------------------------------------------------
(* GenerationPipeline                                                      *)

\* Only a job the API accepted is asked for, run, reported or deployed.
Asked ==
    /\ \A j \in Jobs : row[j].status = "absent" => row[j] = NoRow
    /\ \A j \in Jobs : intake[j] \in {"inserted", "accepted"} => row[j].status # "absent"
    /\ \A j \in Jobs : j \in requests \/ runs[j] > 0 => row[j].status # "absent"
    /\ \A m \in Messages : at[m] # "none" => row[m.job].status # "absent"
    /\ \A j \in Jobs, r \in Routes : deployAt[j][r] # "idle" => row[j].status # "absent"

\* A bundle is stored before it is served or recorded.
Kept ==
    /\ \A m \in Messages : at[m] \in {"store", "serve", "archetype"} => m.bundle
    /\ \A m \in Messages :
          m.bundle /\ at[m] \in {"serve", "archetype", "persist", "ack"} => m.job \in stored
    /\ \A j \in Jobs : row[j].path => j \in stored

\* An error says why a row failed.
Explained == \A j \in Jobs : row[j].status # "failed" => row[j].error = "none"

\* What a message has uploaded, and all of it before it moves on, is served.
Serving ==
    /\ \A m \in Messages : at[m] = "serve" =>
          \A s \in Surfaces[m.job] \ uploads[m] : served[s] # 0
    /\ \A m \in Messages : at[m] = "archetype" => \A s \in Surfaces[m.job] : served[s] # 0
    /\ ArchetypeIsServed

PipelineInv == TypeOK /\ Asked /\ Kept /\ Explained /\ Serving

CallStates == {"idle", "checked", "started"}

LEMMA RowWritten ==
    ASSUME row \in [Jobs -> Rows], NEW j \in Jobs, NEW y \in Rows
    PROVE  [row EXCEPT ![j] = y] \in [Jobs -> Rows]
OBVIOUS

LEMMA VerdictWritten ==
    ASSUME NEW x \in Rows, NEW v \in Statuses, NEW e \in {"none", "cancelled", "failed"},
           NEW p \in BOOLEAN
    PROVE  [x EXCEPT !.status = v, !.error = e, !.path = p] \in Rows
BY DEF Rows

LEMMA MarkWritten ==
    ASSUME NEW x \in Rows, NEW d \in BOOLEAN, NEW v \in BOOLEAN
    PROVE  [x EXCEPT !.deployed = d, !.version = v] \in Rows
BY DEF Rows

LEMMA CallMoved ==
    ASSUME deployAt \in [Jobs -> [Routes -> CallStates]],
           NEW j \in Jobs, NEW r \in Routes, NEW v \in CallStates
    PROVE  [deployAt EXCEPT ![j][r] = v] \in [Jobs -> [Routes -> CallStates]]
OBVIOUS

LEMMA PipelineTypeStep ==
    ASSUME TypeOK, [Next]_vars
    PROVE  TypeOK'
<1> USE DEF TypeOK
<1>0. MaxLosses \in Nat /\ MaxFaults \in Nat /\ Surfaces \in [Jobs -> SUBSET AllSurfaces]
  BY PipelineAssumption DEF PipelineAssumption
<1>1. ASSUME NEW j \in Jobs, Accept(j) PROVE TypeOK'
  <2>1. row' \in [Jobs -> Rows]
    BY <1>1 DEF Accept, createPendingGeneration, Rows, Statuses, NoRow
  <2>2. QED
    BY <1>1, <2>1 DEF Accept, NoFault, completion, deployment
<1>2. ASSUME NEW j \in Jobs, Refuse(j) \/ Publish(j) \/ PublishFails(j) PROVE TypeOK'
  <2>1. CASE Refuse(j)
    BY <2>1 DEF Refuse, NoFault, completion, deployment
  <2>2. CASE Publish(j)
    BY <2>2 DEF Publish, NoFault, completion, deployment
  <2>3. CASE PublishFails(j)
    BY <1>0, <2>3 DEF PublishFails, Loss, completion, deployment
  <2>4. QED
    BY <1>2, <2>1, <2>2, <2>3
<1>3. ASSUME NEW j \in Jobs, Cancel(j) PROVE TypeOK'
  <2> DEFINE y == IF row[j].status = "pending"
                  THEN [row[j] EXCEPT !.status = "failed", !.error = "cancelled"] ELSE row[j]
  <2>0. y \in Rows
    BY DEF Rows, Statuses
  <2>1. row' \in [Jobs -> Rows]
    BY <1>3, <2>0, RowWritten DEF Cancel, CancelRow
  <2>2. QED
    BY <1>3, <2>1 DEF Cancel, NoFault, completion, deployment
<1>4. ASSUME NEW j \in Jobs, Deliver(j) PROVE TypeOK'
  <2>1. runs' \in [Jobs -> Nat] /\ requests' \subseteq Jobs
    BY <1>4 DEF Deliver
  <2>2. losses' \in 0 .. MaxLosses /\ faults' \in 0 .. MaxFaults
    BY <1>0, <1>4 DEF Deliver, NoFault, Fault
  <2>3. QED
    BY <1>4, <2>1, <2>2 DEF Deliver, completion, deployment
<1>5. ASSUME NEW j \in Jobs, Report(j) PROVE TypeOK'
  BY <1>5 DEF Report, Events, Kinds, NoFault, completion, deployment
<1>6. ASSUME NEW j \in Jobs, Finish(j) PROVE TypeOK'
  BY <1>6
  DEF Finish, Events, Kinds, Messages, Verdicts, MsgPlaces, Handling, NoFault, deployment
<1>7. ASSUME NEW j \in Jobs, RunLost(j) PROVE TypeOK'
  BY <1>0, <1>7 DEF RunLost, Events, Kinds, Loss, completion, deployment
<1>8. ASSUME NEW m \in Messages, Take(m) \/ Ack(m) \/ updateAppArchetype(m) PROVE TypeOK'
  BY <1>0, <1>8
  DEF Take, Ack, updateAppArchetype, Goto, Messages, MsgPlaces, Handling, NoFault,
      submission, deployment
<1>9. ASSUME NEW m \in Messages, Store(m) PROVE TypeOK'
  BY <1>0, <1>9
  DEF Store, Goto, Messages, MsgPlaces, Handling, NoFault, submission, deployment
<1>10. ASSUME NEW m \in Messages, NEW s \in AllSurfaces, Upload(m, s) PROVE TypeOK'
  BY <1>10 DEF Upload, Goto, Messages, MsgPlaces, Handling, NoFault, submission, deployment
<1>11. ASSUME NEW m \in Messages, upsertGeneration(m) PROVE TypeOK'
  <2>1. m.job \in Jobs /\ m.status \in {"success", "failed"} /\ m.bundle \in BOOLEAN
    BY DEF Messages, Verdicts
  <2> DEFINE y == [row[m.job] EXCEPT
                     !.status = m.status,
                     !.error  = IF m.status = "failed" THEN "failed" ELSE "none",
                     !.path   = m.bundle]
  <2>0. y \in Rows
    <3>1. /\ row[m.job] \in Rows /\ m.status \in Statuses
          /\ m.bundle \in BOOLEAN
          /\ (IF m.status = "failed" THEN "failed" ELSE "none") \in {"none", "cancelled", "failed"}
      BY <2>1 DEF Statuses
    <3>2. QED
      BY <3>1, VerdictWritten, Zenon
  <2>2. row' \in [Jobs -> Rows]
    BY <1>11, <2>0, <2>1, RowWritten DEF upsertGeneration
  <2>3. at' \in [Messages -> MsgPlaces]
    BY <1>11 DEF upsertGeneration, Goto, MsgPlaces, Handling
  <2>4. QED
    BY <1>11, <2>2, <2>3 DEF upsertGeneration, NoFault, deployment
<1>12. ASSUME NEW m \in Messages, Redeliver(m) PROVE TypeOK'
  BY <1>0, <1>12 DEF Redeliver, Goto, MsgPlaces, Handling, Fault, submission, deployment
<1>13. ASSUME NEW j \in Jobs, NEW r \in Routes, Check(j, r) \/ DeployRefused(j, r)
       PROVE TypeOK'
  <2>1. deployAt' \in [Jobs -> [Routes -> CallStates]]
    <3>1. CASE Check(j, r)
      BY <3>1, CallMoved DEF CallStates, Check
    <3>2. CASE DeployRefused(j, r)
      BY <3>2, CallMoved DEF CallStates, DeployRefused
    <3>3. QED
      BY <1>13, <3>1, <3>2
  <2>2. QED
    BY <1>13, <2>1 DEF CallStates, Check, DeployRefused, NoFault, submission, completion
<1>14. ASSUME NEW j \in Jobs, NEW r \in Routes, startDeploy(j, r) PROVE TypeOK'
  <2>1. deployAt' \in [Jobs -> [Routes -> CallStates]]
    BY <1>14, CallMoved DEF CallStates, startDeploy
  <2>2. deploys' \subseteq [job : Jobs, cron : BOOLEAN]
    <3>1. [job |-> j, cron |-> r = "deploy" /\ j \in HasCron] \in [job : Jobs, cron : BOOLEAN]
      OBVIOUS
    <3>2. deploys \subseteq [job : Jobs, cron : BOOLEAN]
      OBVIOUS
    <3>3. QED
      BY <1>14, <3>1, <3>2 DEF startDeploy
  <2>3. QED
    BY <1>14, <2>1, <2>2 DEF CallStates, startDeploy, NoFault, submission, completion
<1>15. ASSUME NEW j \in Jobs, NEW r \in Routes, Mark(j, r) PROVE TypeOK'
  <2>1. deployAt' \in [Jobs -> [Routes -> CallStates]]
    BY <1>15, CallMoved DEF CallStates, Mark
  <2>2. row' \in [Jobs -> Rows] /\ losses' \in 0 .. MaxLosses /\ faults' \in 0 .. MaxFaults
    <3>1. PICK marked \in BOOLEAN, named \in BOOLEAN :
            /\ IF marked /\ named THEN NoFault ELSE Fault
            /\ row' = [row EXCEPT ![j].deployed = @ \/ marked,
                                  ![j].version  = @ \/ (named /\ r = "approve")]
      BY <1>15 DEF Mark
    <3>2. losses' \in 0 .. MaxLosses /\ faults' \in 0 .. MaxFaults
      BY <1>0, <3>1 DEF NoFault, Fault
    <3> DEFINE y == [row[j] EXCEPT !.deployed = row[j].deployed \/ marked,
                                   !.version  = row[j].version \/ (named /\ r = "approve")]
    <3>3. row' = [row EXCEPT ![j] = y]
      BY <3>1
    <3>4. y \in Rows
      <4>1. /\ row[j] \in Rows
            /\ (row[j].deployed \/ marked) \in BOOLEAN
            /\ (row[j].version \/ (named /\ r = "approve")) \in BOOLEAN
        BY DEF Rows
      <4>2. QED
        BY <4>1, MarkWritten, Zenon
    <3>6. row' \in [Jobs -> Rows]
      BY <3>3, <3>4, RowWritten
    <3>7. QED
      BY <3>2, <3>6
  <2>3. QED
    BY <1>15, <2>1, <2>2 DEF CallStates, Mark, completion
<1>16. ASSUME NEW e \in Events, Pull(e) PROVE TypeOK'
  BY <1>16 DEF Pull, NoFault, completion, deployment
<1>17. CASE UNCHANGED vars
  BY <1>17 DEF vars, submission, completion, deployment
<1>18. QED
  BY <1>1, <1>2, <1>3, <1>4, <1>5, <1>6, <1>7, <1>8, <1>9, <1>10, <1>11, <1>12, <1>13,
     <1>14, <1>15, <1>16, <1>17
  DEF Next, JobStep, MessageStep, Handle, DeployStep

LEMMA AskedStep ==
    ASSUME PipelineInv, [Next]_vars
    PROVE  Asked'
<1> USE DEF PipelineInv, TypeOK, Asked
<1>1. ASSUME NEW j \in Jobs, Accept(j) PROVE Asked'
  BY <1>1 DEF Accept, createPendingGeneration, completion, deployment
<1>2. ASSUME NEW j \in Jobs, Refuse(j) \/ Publish(j) \/ PublishFails(j) PROVE Asked'
  BY <1>2 DEF Refuse, Publish, PublishFails, completion, deployment
<1>3. ASSUME NEW j \in Jobs, Cancel(j) PROVE Asked'
  BY <1>3 DEF Cancel, CancelRow, completion, deployment
<1>4. ASSUME NEW j \in Jobs, Deliver(j) PROVE Asked'
  BY <1>4 DEF Deliver, completion, deployment
<1>5. ASSUME NEW j \in Jobs, Report(j) \/ RunLost(j) PROVE Asked'
  BY <1>5 DEF Report, RunLost, completion, deployment
<1>6. ASSUME NEW j \in Jobs, Finish(j) PROVE Asked'
  BY <1>6 DEF Finish, Messages, Handling, deployment
<1>7. ASSUME NEW m \in Messages, Take(m) \/ Ack(m) PROVE Asked'
  BY <1>7 DEF Take, Ack, Goto, submission, deployment
<1>8. ASSUME NEW m \in Messages, Store(m) PROVE Asked'
  BY <1>8 DEF Store, Goto, submission, deployment
<1>9. ASSUME NEW m \in Messages, NEW s \in AllSurfaces, Upload(m, s) PROVE Asked'
  BY <1>9 DEF Upload, Goto, submission, deployment
<1>10. ASSUME NEW m \in Messages, updateAppArchetype(m) PROVE Asked'
  BY <1>10 DEF updateAppArchetype, Goto, submission, deployment
<1>11. ASSUME NEW m \in Messages, upsertGeneration(m) PROVE Asked'
  <2>1. m.job \in Jobs /\ m.status \in {"success", "failed"} /\ at[m] = "persist"
    BY <1>11 DEF Messages, Verdicts, upsertGeneration
  <2>2. row[m.job].status # "absent" /\ row'[m.job].status = m.status
    BY <1>11, <2>1 DEF upsertGeneration, Asked, Rows
  <2>3. \A j \in Jobs : j # m.job => row'[j] = row[j]
    BY <1>11 DEF upsertGeneration
  <2>4. \A n \in Messages : at'[n] # "none" => at[n] # "none"
    BY <1>11 DEF upsertGeneration, Goto
  <2>5. intake' = intake /\ requests' = requests /\ runs' = runs /\ deployAt' = deployAt
    BY <1>11 DEF upsertGeneration, deployment
  <2>6. QED
    BY <2>1, <2>2, <2>3, <2>4, <2>5 DEF Asked, Messages
<1>12. ASSUME NEW m \in Messages, Redeliver(m) PROVE Asked'
  BY <1>12 DEF Redeliver, Goto, Handling, submission, deployment
<1>13. ASSUME NEW j \in Jobs, NEW r \in Routes, Check(j, r) \/ DeployRefused(j, r) PROVE Asked'
  BY <1>13 DEF Check, DeployRefused, submission, completion
<1>14. ASSUME NEW j \in Jobs, NEW r \in Routes, startDeploy(j, r) PROVE Asked'
  BY <1>14 DEF startDeploy, submission, completion
<1>15. ASSUME NEW j \in Jobs, NEW r \in Routes, Mark(j, r) PROVE Asked'
  <2>1. \A k \in Jobs : row'[k].status = row[k].status /\ (k # j => row'[k] = row[k])
    BY <1>15 DEF Mark, Rows
  <2>2. row[j].status # "absent"
    BY <1>15 DEF Mark
  <2>3. \A k \in Jobs, q \in Routes : deployAt'[k][q] # "idle" => deployAt[k][q] # "idle"
    BY <1>15 DEF Mark
  <2>4. intake' = intake /\ requests' = requests /\ runs' = runs /\ at' = at
    BY <1>15 DEF Mark, completion
  <2>5. QED
    BY <2>1, <2>2, <2>3, <2>4 DEF Messages
<1>16. ASSUME NEW e \in Events, Pull(e) PROVE Asked'
  BY <1>16 DEF Pull, completion, deployment
<1>17. CASE UNCHANGED vars
  BY <1>17 DEF vars, submission, completion, deployment
<1>18. QED
  BY <1>1, <1>2, <1>3, <1>4, <1>5, <1>6, <1>7, <1>8, <1>9, <1>10, <1>11, <1>12, <1>13, <1>14, <1>15, <1>16, <1>17
  DEF Next, JobStep, MessageStep, Handle, DeployStep

LEMMA KeptStep ==
    ASSUME PipelineInv, [Next]_vars
    PROVE  Kept'
<1> USE DEF PipelineInv, TypeOK, Kept
<1>1. ASSUME NEW j \in Jobs, Accept(j) PROVE Kept'
  BY <1>1 DEF Accept, createPendingGeneration, NoRow, Rows, completion, deployment
<1>2. ASSUME NEW j \in Jobs, Refuse(j) \/ Publish(j) \/ PublishFails(j) PROVE Kept'
  BY <1>2 DEF Refuse, Publish, PublishFails, completion, deployment
<1>3. ASSUME NEW j \in Jobs, Cancel(j) PROVE Kept'
  BY <1>3 DEF Cancel, CancelRow, completion, deployment
<1>4. ASSUME NEW j \in Jobs, Deliver(j) PROVE Kept'
  BY <1>4 DEF Deliver, completion, deployment
<1>5. ASSUME NEW j \in Jobs, Report(j) \/ RunLost(j) PROVE Kept'
  BY <1>5 DEF Report, RunLost, completion, deployment
<1>6. ASSUME NEW j \in Jobs, Finish(j) PROVE Kept'
  BY <1>6 DEF Finish, Messages, Handling, deployment
<1>7. ASSUME NEW m \in Messages, Take(m) \/ Ack(m) PROVE Kept'
  BY <1>7 DEF Take, Ack, Goto, submission, deployment
<1>8. ASSUME NEW m \in Messages, Store(m) PROVE Kept'
  BY <1>8 DEF Store, Goto, submission, deployment
<1>9. ASSUME NEW m \in Messages, NEW s \in AllSurfaces, Upload(m, s) PROVE Kept'
  BY <1>9 DEF Upload, Goto, submission, deployment
<1>10. ASSUME NEW m \in Messages, updateAppArchetype(m) PROVE Kept'
  BY <1>10 DEF updateAppArchetype, Goto, submission, deployment
<1>11. ASSUME NEW m \in Messages, upsertGeneration(m) PROVE Kept'
  <2>1. m.job \in Jobs /\ m.bundle \in BOOLEAN /\ at[m] = "persist"
    BY <1>11 DEF Messages, upsertGeneration
  <2>2. row'[m.job].path = m.bundle
    BY <1>11, <2>1 DEF upsertGeneration, Rows
  <2>3. \A j \in Jobs : j # m.job => row'[j] = row[j]
    BY <1>11 DEF upsertGeneration
  <2>4. \A n \in Messages : at'[n] = IF n = m THEN "ack" ELSE at[n]
    BY <1>11 DEF upsertGeneration, Goto
  <2>5. stored' = stored /\ deployAt' = deployAt
    BY <1>11 DEF upsertGeneration, deployment
  <2>6. QED
    BY <2>1, <2>2, <2>3, <2>4, <2>5
<1>12. ASSUME NEW m \in Messages, Redeliver(m) PROVE Kept'
  BY <1>12 DEF Redeliver, Goto, submission, deployment
<1>13. ASSUME NEW j \in Jobs, NEW r \in Routes, Check(j, r) \/ DeployRefused(j, r) PROVE Kept'
  BY <1>13 DEF Check, DeployRefused, submission, completion
<1>14. ASSUME NEW j \in Jobs, NEW r \in Routes, startDeploy(j, r) PROVE Kept'
  BY <1>14 DEF startDeploy, submission, completion
<1>15. ASSUME NEW j \in Jobs, NEW r \in Routes, Mark(j, r) PROVE Kept'
  BY <1>15 DEF Mark, completion
<1>16. ASSUME NEW e \in Events, Pull(e) PROVE Kept'
  BY <1>16 DEF Pull, completion, deployment
<1>17. CASE UNCHANGED vars
  BY <1>17 DEF vars, submission, completion, deployment
<1>18. QED
  BY <1>1, <1>2, <1>3, <1>4, <1>5, <1>6, <1>7, <1>8, <1>9, <1>10, <1>11, <1>12, <1>13, <1>14, <1>15, <1>16, <1>17
  DEF Next, JobStep, MessageStep, Handle, DeployStep

LEMMA ExplainedStep ==
    ASSUME PipelineInv, [Next]_vars
    PROVE  Explained'
<1> USE DEF PipelineInv, TypeOK, Explained
<1>1. ASSUME NEW j \in Jobs, Accept(j) PROVE Explained'
  BY <1>1 DEF Accept, createPendingGeneration, NoRow, Rows, completion, deployment
<1>2. ASSUME NEW j \in Jobs, Refuse(j) \/ Publish(j) \/ PublishFails(j) PROVE Explained'
  BY <1>2 DEF Refuse, Publish, PublishFails, completion, deployment
<1>3. ASSUME NEW j \in Jobs, Cancel(j) PROVE Explained'
  BY <1>3 DEF Cancel, CancelRow, completion, deployment
<1>4. ASSUME NEW j \in Jobs, Deliver(j) PROVE Explained'
  BY <1>4 DEF Deliver, completion, deployment
<1>5. ASSUME NEW j \in Jobs, Report(j) \/ RunLost(j) PROVE Explained'
  BY <1>5 DEF Report, RunLost, completion, deployment
<1>6. ASSUME NEW j \in Jobs, Finish(j) PROVE Explained'
  BY <1>6 DEF Finish, Messages, Handling, deployment
<1>7. ASSUME NEW m \in Messages, Take(m) \/ Ack(m) PROVE Explained'
  BY <1>7 DEF Take, Ack, Goto, submission, deployment
<1>8. ASSUME NEW m \in Messages, Store(m) PROVE Explained'
  BY <1>8 DEF Store, Goto, submission, deployment
<1>9. ASSUME NEW m \in Messages, NEW s \in AllSurfaces, Upload(m, s) PROVE Explained'
  BY <1>9 DEF Upload, Goto, submission, deployment
<1>10. ASSUME NEW m \in Messages, updateAppArchetype(m) PROVE Explained'
  BY <1>10 DEF updateAppArchetype, Goto, submission, deployment
<1>11. ASSUME NEW m \in Messages, upsertGeneration(m) PROVE Explained'
  BY <1>11 DEF upsertGeneration, Goto, deployment
<1>12. ASSUME NEW m \in Messages, Redeliver(m) PROVE Explained'
  BY <1>12 DEF Redeliver, Goto, submission, deployment
<1>13. ASSUME NEW j \in Jobs, NEW r \in Routes, Check(j, r) \/ DeployRefused(j, r) PROVE Explained'
  BY <1>13 DEF Check, DeployRefused, submission, completion
<1>14. ASSUME NEW j \in Jobs, NEW r \in Routes, startDeploy(j, r) PROVE Explained'
  BY <1>14 DEF startDeploy, submission, completion
<1>15. ASSUME NEW j \in Jobs, NEW r \in Routes, Mark(j, r) PROVE Explained'
  BY <1>15 DEF Mark, completion
<1>16. ASSUME NEW e \in Events, Pull(e) PROVE Explained'
  BY <1>16 DEF Pull, completion, deployment
<1>17. CASE UNCHANGED vars
  BY <1>17 DEF vars, submission, completion, deployment
<1>18. QED
  BY <1>1, <1>2, <1>3, <1>4, <1>5, <1>6, <1>7, <1>8, <1>9, <1>10, <1>11, <1>12, <1>13, <1>14, <1>15, <1>16, <1>17
  DEF Next, JobStep, MessageStep, Handle, DeployStep

LEMMA ServingStep ==
    ASSUME PipelineInv, [Next]_vars
    PROVE  Serving'
<1> USE DEF PipelineInv, TypeOK, Serving, ArchetypeIsServed
<1>1. ASSUME NEW j \in Jobs, Accept(j) PROVE Serving'
  BY <1>1 DEF Accept, createPendingGeneration, completion, deployment
<1>2. ASSUME NEW j \in Jobs, Refuse(j) \/ Publish(j) \/ PublishFails(j) PROVE Serving'
  BY <1>2 DEF Refuse, Publish, PublishFails, completion, deployment
<1>3. ASSUME NEW j \in Jobs, Cancel(j) PROVE Serving'
  BY <1>3 DEF Cancel, CancelRow, completion, deployment
<1>4. ASSUME NEW j \in Jobs, Deliver(j) PROVE Serving'
  BY <1>4 DEF Deliver, completion, deployment
<1>5. ASSUME NEW j \in Jobs, Report(j) \/ RunLost(j) PROVE Serving'
  BY <1>5 DEF Report, RunLost, completion, deployment
<1>6. ASSUME NEW j \in Jobs, Finish(j) PROVE Serving'
  BY <1>6 DEF Finish, Messages, Handling, deployment
<1>7. ASSUME NEW m \in Messages, Take(m) \/ Ack(m) PROVE Serving'
  BY <1>7 DEF Take, Ack, Goto, submission, deployment
<1>8. ASSUME NEW m \in Messages, Store(m) PROVE Serving'
  BY <1>8 DEF Store, Goto, submission, deployment
<1>9. ASSUME NEW m \in Messages, NEW s \in AllSurfaces, Upload(m, s) PROVE Serving'
  <2>1. m.job # 0 /\ archetype' = archetype /\ at[m] = "serve"
    BY <1>9, PipelineAssumption DEF PipelineAssumption, Messages, Upload
  <2>2. \A t \in AllSurfaces : served'[t] = IF t = s THEN m.job ELSE served[t]
    BY <1>9 DEF Upload
  <2>3. \A n \in Messages : /\ n # m => at'[n] = at[n] /\ uploads'[n] = uploads[n]
                            /\ uploads'[m] = uploads[m] \ {s}
                            /\ at'[m] = IF uploads[m] = {s} THEN "archetype" ELSE "serve"
    BY <1>9 DEF Upload, Goto
  <2>4. \A n \in Messages : Surfaces[n.job] \subseteq AllSurfaces
    BY PipelineAssumption DEF Messages
  <2>5. QED
    BY <2>1, <2>2, <2>3, <2>4
<1>10. ASSUME NEW m \in Messages, updateAppArchetype(m) PROVE Serving'
  BY <1>10 DEF updateAppArchetype, Goto, submission, deployment
<1>11. ASSUME NEW m \in Messages, upsertGeneration(m) PROVE Serving'
  BY <1>11 DEF upsertGeneration, Goto, deployment
<1>12. ASSUME NEW m \in Messages, Redeliver(m) PROVE Serving'
  BY <1>12 DEF Redeliver, Goto, submission, deployment
<1>13. ASSUME NEW j \in Jobs, NEW r \in Routes, Check(j, r) \/ DeployRefused(j, r) PROVE Serving'
  BY <1>13 DEF Check, DeployRefused, submission, completion
<1>14. ASSUME NEW j \in Jobs, NEW r \in Routes, startDeploy(j, r) PROVE Serving'
  BY <1>14 DEF startDeploy, submission, completion
<1>15. ASSUME NEW j \in Jobs, NEW r \in Routes, Mark(j, r) PROVE Serving'
  BY <1>15 DEF Mark, completion
<1>16. ASSUME NEW e \in Events, Pull(e) PROVE Serving'
  BY <1>16 DEF Pull, completion, deployment
<1>17. CASE UNCHANGED vars
  BY <1>17 DEF vars, submission, completion, deployment
<1>18. QED
  BY <1>1, <1>2, <1>3, <1>4, <1>5, <1>6, <1>7, <1>8, <1>9, <1>10, <1>11, <1>12, <1>13, <1>14, <1>15, <1>16, <1>17
  DEF Next, JobStep, MessageStep, Handle, DeployStep

LEMMA PipelineInvStart == Init => PipelineInv
<1>1. Init => TypeOK
  BY PipelineAssumption DEF Init, TypeOK, Rows, NoRow, Statuses, MsgPlaces
<1>2. Init => Asked /\ Kept /\ Explained /\ Serving
  BY DEF Init, Asked, Kept, Explained, Serving, ArchetypeIsServed, NoRow, Messages
<1>3. QED
  BY <1>1, <1>2 DEF PipelineInv

LEMMA PipelineInvStep == PipelineInv /\ [Next]_vars => PipelineInv'
BY PipelineTypeStep, AskedStep, KeptStep, ExplainedStep, ServingStep DEF PipelineInv

LEMMA PipelineInvariant == Spec => []PipelineInv
BY PipelineInvStart, PipelineInvStep, PTL DEF Spec

\* The tables, topics and places of the pipeline keep their types.
THEOREM PipelineTypeCorrect == Spec => []TypeOK
<1>1. PipelineInv => TypeOK
  BY DEF PipelineInv
<1>2. QED
  BY <1>1, PipelineInvariant, PTL

\* What apps.app_archetype promises the storefront and the admin list is served,
\* whatever other completions, retries and crashes are under way (subscriber.ts).
THEOREM ArchetypesAreServed == Spec => []ArchetypeIsServed
<1>1. PipelineInv => ArchetypeIsServed
  BY DEF PipelineInv, Serving
<1>2. QED
  BY <1>1, PipelineInvariant, PTL

-----------------------------------------------------------------------------
(* The pipeline implements the ledger                                      *)

\* A step that leaves rows, bundles and deploys alone is no step of the ledger.
LEMMA LedgerStutters ==
    ASSUME UNCHANGED <<row, stored, deployAt>>
    PROVE  UNCHANGED Ledger!ledger
BY DEF Ledger!ledger, Verdict

\* The jobs a deploy request is served for, as one of its calls moves.
LEMMA CallBegins ==
    ASSUME deployAt \in [Jobs -> [Routes -> CallStates]], NEW j \in Jobs, NEW r \in Routes,
           NEW v \in CallStates \ {"idle"}, deployAt' = [deployAt EXCEPT ![j][r] = v]
    PROVE  LET D == {k \in Jobs : \E q \in Routes : deployAt[k][q] # "idle"}
           IN  D' = D \cup {j} /\ (deployAt[j][r] # "idle" => j \in D)
OBVIOUS

LEMMA CallEnds ==
    ASSUME deployAt \in [Jobs -> [Routes -> CallStates]], NEW j \in Jobs, NEW r \in Routes,
           deployAt[j][r] # "idle", deployAt' = [deployAt EXCEPT ![j][r] = "idle"]
    PROVE  LET D == {k \in Jobs : \E q \in Routes : deployAt[k][q] # "idle"}
           IN  j \in D /\ (D' = D \/ D' = D \ {j})
OBVIOUS

LEMMA LedgerInit == Init => Ledger!Init
BY DEF Init, Ledger!Init, NoRow, Verdict

LEMMA LedgerStep ==
    ASSUME PipelineInv, [Next]_vars
    PROVE  [Ledger!Next]_Ledger!ledger
<1> DEFINE Marked == {j \in Jobs : row[j].deployed \/ row[j].version}
           Shown  == [j \in Jobs |-> Verdict(j)]
           Named  == {j \in Jobs : row[j].path}
           Deploying == {j \in Jobs : \E r \in Routes : deployAt[j][r] # "idle"}
<1> USE DEF Ledger!ledger
<1>0. /\ row \in [Jobs -> Rows] /\ stored \subseteq Jobs
      /\ \A j \in Jobs : row[j].status = "absent" => row[j] = NoRow
      /\ \A m \in Messages : /\ m.job \in Jobs /\ m.status \in {"success", "failed"}
                            /\ m.bundle \in BOOLEAN
      /\ deployAt \in [Jobs -> [Routes -> {"idle", "checked", "started"}]]
  BY DEF PipelineInv, TypeOK, Asked, Messages, Verdicts
<1>1. ASSUME NEW j \in Jobs, Accept(j) PROVE [Ledger!Next]_Ledger!ledger
  <2>1. CASE row[j].status = "absent"
    <3>1. /\ row' = [row EXCEPT ![j] = [NoRow EXCEPT !.status = "pending"]]
          /\ stored' = stored /\ row[j] = NoRow /\ deployAt' = deployAt
      BY <1>0, <1>1, <2>1 DEF Accept, createPendingGeneration, completion, deployment
    <3>2. Shown[j] = "absent" /\ Shown' = [Shown EXCEPT ![j] = "pending"]
      <4>1. Verdict(j) = "absent" /\ Verdict(j)' = "pending"
        BY <1>0, <3>1 DEF Verdict, NoRow
      <4>2. \A k \in Jobs : k # j => Verdict(k)' = Verdict(k)
        BY <1>0, <3>1 DEF Verdict
      <4>3. QED
        BY <4>1, <4>2
    <3>3. Marked' = Marked /\ Named' = Named /\ Deploying' = Deploying
      BY <1>0, <3>1 DEF NoRow
    <3>4. Ledger!Request(j)
      BY <3>1, <3>2, <3>3 DEF Ledger!Request
    <3>5. QED
      BY <3>4 DEF Ledger!Next
  <2>2. CASE row[j].status # "absent"
    <3>1. row' = row /\ stored' = stored /\ deployAt' = deployAt
      BY <1>0, <1>1, <2>2 DEF Accept, createPendingGeneration, completion, deployment
    <3>2. QED
      BY <3>1, LedgerStutters
  <2>3. QED
    BY <2>1, <2>2
<1>2. ASSUME NEW j \in Jobs, Cancel(j) PROVE [Ledger!Next]_Ledger!ledger
  <2>1. CASE row[j].status = "pending"
    <3>1. /\ row' = [row EXCEPT ![j] = [row[j] EXCEPT !.status = "failed", !.error = "cancelled"]]
          /\ stored' = stored /\ deployAt' = deployAt
      BY <1>2, <2>1 DEF Cancel, CancelRow, completion, deployment
    <3>2. Shown[j] = "pending" /\ Shown' = [Shown EXCEPT ![j] = "cancelled"]
      BY <1>0, <2>1, <3>1 DEF PipelineInv, Explained, Verdict, Rows
    <3>3. Marked' = Marked /\ Named' = Named /\ Deploying' = Deploying
      BY <1>0, <3>1 DEF Rows
    <3>4. Ledger!Cancel(j)
      BY <3>1, <3>2, <3>3 DEF Ledger!Cancel
    <3>5. QED
      BY <3>4 DEF Ledger!Next
  <2>2. CASE row[j].status # "pending"
    <3>1. row' = row /\ stored' = stored /\ deployAt' = deployAt
      BY <1>0, <1>2, <2>2 DEF Cancel, CancelRow, completion, deployment
    <3>2. QED
      BY <3>1, LedgerStutters
  <2>3. QED
    BY <2>1, <2>2
<1>3. ASSUME NEW m \in Messages, Store(m) PROVE [Ledger!Next]_Ledger!ledger
  <2>1. /\ row' = row /\ stored' = stored \cup {m.job} /\ row[m.job].status # "absent"
        /\ deployAt' = deployAt
    BY <1>3 DEF Store, submission, deployment, PipelineInv, Asked
  <2>2. /\ Shown[m.job] # "absent" /\ Shown' = Shown
        /\ Marked' = Marked /\ Named' = Named /\ Deploying' = Deploying
    BY <1>0, <2>1 DEF Verdict
  <2>3. Ledger!Keep(m.job)
    BY <2>1, <2>2 DEF Ledger!Keep
  <2>4. QED
    BY <1>0, <2>3 DEF Ledger!Next
<1>4. ASSUME NEW m \in Messages, upsertGeneration(m) PROVE [Ledger!Next]_Ledger!ledger
  <2> DEFINE y == [row[m.job] EXCEPT
                     !.status = m.status,
                     !.error  = IF m.status = "failed" THEN "failed" ELSE "none",
                     !.path   = m.bundle]
  <2>1. row' = [row EXCEPT ![m.job] = y] /\ stored' = stored /\ deployAt' = deployAt
    BY <1>4 DEF upsertGeneration, deployment
  <2>2. row[m.job] \in Rows /\ row[m.job].status # "absent"
    BY <1>0, <1>4 DEF upsertGeneration, PipelineInv, Asked
  <2>3. /\ y.deployed = row[m.job].deployed /\ y.version = row[m.job].version
        /\ y.status = m.status /\ y.path = m.bundle
        /\ y.error = IF m.status = "failed" THEN "failed" ELSE "none"
    BY <2>2 DEF Rows
  <2> HIDE DEF y
  <2>4. /\ Shown[m.job] # "absent"
        /\ Shown' = [Shown EXCEPT ![m.job] = m.status]
    BY <1>0, <2>1, <2>2, <2>3 DEF Verdict
  <2>5. Marked' = Marked /\ Deploying' = Deploying
    BY <1>0, <2>1, <2>3
  <2>6. Named' = Named \ {m.job} \/ (m.job \in stored /\ Named' = Named \cup {m.job})
    <3>1. CASE m.bundle
      <4>1. m.job \in stored
        BY <1>4, <3>1 DEF upsertGeneration, PipelineInv, Kept
      <4>2. Named' = Named \cup {m.job}
        BY <1>0, <2>1, <2>3, <3>1
      <4>3. QED
        BY <4>1, <4>2
    <3>2. CASE ~m.bundle
      BY <1>0, <2>1, <2>3, <3>2
    <3>3. QED
      BY <3>1, <3>2
  <2>7. Ledger!Record(m.job)
    BY <1>0, <2>1, <2>4, <2>5, <2>6 DEF Ledger!Record
  <2>8. QED
    BY <1>0, <2>7 DEF Ledger!Next
<1>5. ASSUME NEW j \in Jobs, NEW r \in Routes, Mark(j, r) PROVE [Ledger!Next]_Ledger!ledger
  <2>1. PICK marked \in BOOLEAN, named \in BOOLEAN :
          row' = [row EXCEPT ![j].deployed = @ \/ marked,
                             ![j].version  = @ \/ (named /\ r = "approve")]
    BY <1>5 DEF Mark
  <2>2. /\ \A k \in Jobs : row'[k].status = row[k].status /\ row'[k].error = row[k].error
        /\ \A k \in Jobs : k # j => row'[k] = row[k]
        /\ row[j].deployed \/ row[j].version => row'[j].deployed \/ row'[j].version
    BY <1>0, <2>1 DEF Rows
  <2>3. row' = [row EXCEPT ![j] = row'[j]] /\ row'[j].path = row[j].path
    BY <1>0, <2>1 DEF Rows
  <2>4. stored' = stored /\ deployAt[j][r] # "idle" /\ r \in Routes
    BY <1>5 DEF Mark, completion
  <2>5. Shown' = Shown /\ Named' = Named
    BY <2>2, <2>3 DEF Verdict
  <2>6. Marked' = Marked \/ Marked' = Marked \cup {j}
    BY <2>2
  <2>7. j \in Deploying /\ (Deploying' = Deploying \/ Deploying' = Deploying \ {j})
    <3>1. deployAt' = [deployAt EXCEPT ![j][r] = "idle"]
      BY <1>5 DEF Mark
    <3>2. QED
      BY <1>0, <2>4, <3>1, CallEnds
  <2>8. Ledger!EndDeploy(j)
    BY <2>4, <2>5, <2>6, <2>7 DEF Ledger!EndDeploy
  <2>9. QED
    BY <2>8 DEF Ledger!Next
<1>6. ASSUME UNCHANGED <<row, stored, deployAt>> PROVE [Ledger!Next]_Ledger!ledger
  BY <1>6, LedgerStutters
<1>7. ASSUME NEW j \in Jobs,
             \/ Refuse(j) \/ Publish(j) \/ PublishFails(j) \/ Deliver(j) \/ Report(j)
             \/ Finish(j) \/ RunLost(j)
      PROVE  UNCHANGED <<row, stored, deployAt>>
  BY <1>7
  DEF Refuse, Publish, PublishFails, Deliver, Report, Finish, RunLost, completion, deployment
<1>8. ASSUME NEW m \in Messages,
             \/ Take(m) \/ updateAppArchetype(m) \/ Ack(m) \/ Redeliver(m)
             \/ \E s \in AllSurfaces : Upload(m, s)
      PROVE  UNCHANGED <<row, stored, deployAt>>
  BY <1>8 DEF Take, updateAppArchetype, Ack, Redeliver, Upload, submission, deployment
<1>9. ASSUME NEW j \in Jobs, NEW r \in Routes, Check(j, r)
      PROVE  [Ledger!Next]_Ledger!ledger
  <2>1. /\ row' = row /\ stored' = stored /\ row[j].status = "success" /\ row[j].path
        /\ deployAt' = [deployAt EXCEPT ![j][r] = "checked"]
    BY <1>9 DEF Check, submission, completion
  <2>2. Verdict(j) = "success"
    BY <1>0, <2>1 DEF PipelineInv, Explained, Verdict
  <2>3. Shown' = Shown /\ Marked' = Marked /\ Named' = Named /\ j \in Named
    BY <2>1 DEF Verdict
  <2>4. Deploying' = Deploying \cup {j}
    BY <1>0, <2>1, CallBegins
  <2>5. Ledger!BeginDeploy(j)
    BY <2>1, <2>2, <2>3, <2>4 DEF Ledger!BeginDeploy
  <2>6. QED
    BY <2>5 DEF Ledger!Next
<1>10. ASSUME NEW j \in Jobs, NEW r \in Routes, startDeploy(j, r)
       PROVE  [Ledger!Next]_Ledger!ledger
  <2>1. /\ row' = row /\ stored' = stored /\ deployAt[j][r] = "checked"
        /\ deployAt' = [deployAt EXCEPT ![j][r] = "started"]
    BY <1>10 DEF startDeploy, submission, completion
  <2>2. Shown' = Shown /\ Marked' = Marked /\ Named' = Named
    BY <2>1 DEF Verdict
  <2>3. Deploying' = Deploying \cup {j} /\ j \in Deploying
    BY <1>0, <2>1, CallBegins
  <2>4. QED
    BY <2>1, <2>2, <2>3
<1>11. ASSUME NEW j \in Jobs, NEW r \in Routes, DeployRefused(j, r)
       PROVE  [Ledger!Next]_Ledger!ledger
  <2>1. /\ row' = row /\ stored' = stored /\ deployAt[j][r] = "checked"
        /\ deployAt' = [deployAt EXCEPT ![j][r] = "idle"]
    BY <1>11 DEF DeployRefused, submission, completion
  <2>2. Shown' = Shown /\ Marked' = Marked /\ Named' = Named
    BY <2>1 DEF Verdict
  <2>3. j \in Deploying /\ (Deploying' = Deploying \/ Deploying' = Deploying \ {j})
    BY <1>0, <2>1, CallEnds
  <2>4. Ledger!EndDeploy(j)
    BY <2>1, <2>2, <2>3 DEF Ledger!EndDeploy
  <2>5. QED
    BY <2>4 DEF Ledger!Next
<1>12. ASSUME NEW e \in Events, Pull(e) PROVE UNCHANGED <<row, stored, deployAt>>
  BY <1>12 DEF Pull, completion, deployment
<1>13. CASE UNCHANGED vars
  BY <1>6, <1>13 DEF vars, submission, completion, deployment
<1>14. QED
  BY <1>1, <1>2, <1>3, <1>4, <1>5, <1>6, <1>7, <1>8, <1>9, <1>10, <1>11, <1>12, <1>13
  DEF Next, JobStep, MessageStep, Handle, DeployStep

\* The pipeline implements the ledger the dashboard and the deployer rely on: a row
\* names a bundle only once it is kept, a deploy begins only for a success that
\* names its bundle, only a deploy that began is marked, and a job that has a
\* verdict is not cancelled (db/generations.ts, pubsub/subscriber.ts,
\* routes/generations.ts).
THEOREM PipelineImplementsLedger == Spec => ImplementsLedger
<1>1. PipelineInv /\ [Next]_vars => [Ledger!Next]_Ledger!ledger
  BY LedgerStep
<1>2. QED
  BY <1>1, LedgerInit, PipelineInvariant, PTL DEF Spec, ImplementsLedger, Ledger!Spec

-----------------------------------------------------------------------------
(* GenerationClient                                                        *)

\* What the page has out about a job: an event stream, a poll loop or a request.
Out(j) == streams[j] # NoInstance \/ polls[j] > 0 \/ j \in starting \cup cancelling

\* Until the page goes astray it has one call out at a time, for the job it shows
\* as running or is starting.
Orderly ==
    /\ \A j, k \in Jobs : Out(j) /\ Out(k) => j = k
    /\ \A j \in Jobs :
          /\ streams[j] # NoInstance => polls[j] = 0 /\ j \notin starting \cup cancelling
          /\ polls[j] > 0 => j \notin starting \cup cancelling
          /\ j \notin starting \cap cancelling
    /\ \A j \in Jobs : Out(j) =>
          /\ ui.status = "running"
          /\ j \in starting \/ j = ui.job
          /\ streams[j] # NoInstance => j = esRef

\* An explanation in flight was given by a run; what an orderly page took for
\* success came from one or from a stored bundle of the job it shows.
ClientInv ==
    /\ PipelineInv /\ ClientTypeOK
    /\ \A e \in events : e.kind = "explained" => e.job \in explained
    /\ ~astray => Orderly
    /\ NoFalseSuccess

\* What the page and the API do around the pipeline is a step of it, or none.
LEMMA ClientStepsPipeline ==
    ASSUME ClientTypeOK, [ClientNext]_all
    PROVE  [Next]_vars
<1>1. ServerStep => Next
  BY DEF ClientTypeOK, ServerStep, Next, JobStep
<1>2. ASSUME NEW j \in Jobs, RunEnds(j) PROVE Next
  BY <1>2 DEF RunEnds, Next, JobStep
<1>3. ASSUME NEW e \in Events, NEW i \in Instances, Receive(e, i) PROVE Next
  BY <1>3 DEF Receive, Next
<1>4. CASE PageStep
  <2>1. ASSUME NEW j \in Jobs, Cancelled(j) PROVE [Next]_vars
    BY <2>1 DEF Cancelled, Next, JobStep
  <2>2. CASE ~ \E j \in Jobs : Cancelled(j)
    BY <1>4, <2>2
    DEF PageStep, Begin, Started, StartRejected, Drop, PollAnswered, PollUnauthorized,
        PollBails, PollErrs, Stop, ShowResult, Navigate, Refetch, Hydrate
  <2>3. QED
    BY <2>1, <2>2
<1>5. CASE UNCHANGED all
  BY <1>5 DEF all
<1>6. QED
  BY <1>1, <1>2, <1>3, <1>4, <1>5 DEF ClientNext

\* A finite set of numbers has a last element: the one with the fewest above it.
LEMMA FiniteSetHasLast ==
    ASSUME NEW S, IsFiniteSet(S), S \subseteq Nat, S # {}
    PROVE  \E k \in S : \A l \in S : ~(l > k)
<1> DEFINE Above(k) == {l \in S : l > k}
           Tops == {Above(k) : k \in S}
<1>1. Tops # {} /\ Tops \subseteq FiniteSubsetsOf(S)
  <2>1. FiniteSubsetsOf(S) = SUBSET S
    BY FS_FiniteSubsetsOfFinite, Zenon
  <2>2. Tops # {} /\ Tops \subseteq SUBSET S
    OBVIOUS
  <2>3. QED
    BY <2>1, <2>2
<1>2. PICK T \in Tops : \A U \in Tops : <<U, T>> \notin StrictSubsetOrdering(S)
  BY <1>1, FS_StrictSubsetOrderingWellFounded, WFMin, Zenon
<1>3. PICK k \in S : T = Above(k)
  OBVIOUS
<1>4. ASSUME NEW l \in S, l > k PROVE FALSE
  <2>1. Above(l) \subseteq Above(k) /\ l \in Above(k) /\ l \notin Above(l)
    <3>1. \A m \in S : m > l => m > k
      BY <1>4
    <3>2. ~(l > l)
      OBVIOUS
    <3>3. QED
      BY <1>4, <3>1, <3>2
  <2>2. <<Above(l), Above(k)>> \in StrictSubsetOrdering(S)
    BY <2>1 DEF StrictSubsetOrdering
  <2>3. QED
    BY <1>2, <1>3, <1>4, <2>2
<1>5. QED
  BY <1>4

LEMMA CardTyped ==
    ASSUME card \in Cards, NEW status, NEW error
    PROVE  CardAfter(status, error) \in Cards
BY DEF CardAfter, Cards

LEMMA ShowTyped ==
    ASSUME ClientTypeOK, NEW status \in Phases, NEW error \in Errors, Show(status, error)
    PROVE  /\ ui' \in [status : Phases, job : Jobs \cup {0}, error : Errors]
           /\ card' \in Cards
BY CardTyped DEF ClientTypeOK, Show

LEMMA ClientTypeStep ==
    ASSUME ClientTypeOK, PipelineInv, [ClientNext]_all, TypeOK'
    PROVE  ClientTypeOK'
<1> USE DEF ClientTypeOK
<1>0. ASSUME GoesOn PROVE astray' \in BOOLEAN
  BY <1>0, Zenon DEF GoesOn
<1>1. CASE ServerStep
  BY <1>1 DEF ServerStep, page, query, history
<1>2. ASSUME NEW j \in Jobs, RunEnds(j) PROVE ClientTypeOK'
  BY <1>2 DEF RunEnds, page, query, TypeOK, Events
<1>3. ASSUME NEW e \in Events, NEW i \in Instances, Receive(e, i) PROVE ClientTypeOK'
  <2>0. e.job \in Jobs /\ row[e.job].error \in Errors
    BY DEF Events, TypeOK, Rows, Errors
  <2>1. CASE UNCHANGED page
    BY <1>3, <2>1 DEF Receive, page, query, history
  <2>2. CASE ref' = ui.status /\ UNCHANGED <<ui, streams, esRef, polls, reconnects, starting, cancelling, card>>
    BY <1>3, <2>2 DEF Receive, query, history
  <2>3. CASE /\ streams' = [streams EXCEPT ![e.job] = NoInstance]
             /\ esRef' = 0
             /\ SetState(IF e.kind = "explained" THEN "completed" ELSE "failed",
                         row[e.job].error)
             /\ UNCHANGED <<polls, reconnects, starting, cancelling>>
    <3>1. (IF e.kind = "explained" THEN "completed" ELSE "failed") \in Phases
      BY DEF Phases
    <3>2. /\ ui' \in [status : Phases, job : Jobs \cup {0}, error : Errors]
          /\ card' \in Cards /\ ref' \in Phases
      BY <2>0, <2>3, <3>1, ShowTyped DEF SetState
    <3>3. streams' \in [Jobs -> Instances \cup {NoInstance}] /\ esRef' \in Jobs \cup {0}
      BY <2>0, <2>3
    <3>4. QED
      BY <1>3, <2>3, <3>2, <3>3 DEF Receive, query, history
  <2>4. QED
    BY <1>3, <2>1, <2>2, <2>3 DEF Receive
<1>4. ASSUME NEW j \in Jobs, Begin(j) PROVE ClientTypeOK'
  <2>1. ui' \in [status : Phases, job : Jobs \cup {0}, error : Errors]
    BY <1>4 DEF Begin, Initial, Phases, Errors
  <2>2. streams' \in [Jobs -> Instances \cup {NoInstance}]
    BY <1>4 DEF Begin, Closed
  <2>3. card' \in Cards /\ reconnects' \in 0 .. MaxReconnects
    BY <1>4, ClientAssumption DEF Begin, Cards
  <2>4. QED
    BY <1>4, <2>1, <2>2, <2>3 DEF Begin, query, history
<1>5. ASSUME NEW j \in Jobs, Started(j) PROVE ClientTypeOK'
  <2>1. ui' \in [status : Phases, job : Jobs \cup {0}, error : Errors]
    BY <1>5 DEF Started, Phases, Errors
  <2>2. card' \in Cards /\ ref' \in Phases
    BY <1>5, CardTyped DEF Started, Phases
  <2>3. streams' \in [Jobs -> Instances \cup {NoInstance}] /\ esRef' \in Jobs \cup {0}
    BY <1>5 DEF Started
  <2>4. QED
    BY <1>5, <2>1, <2>2, <2>3 DEF Started, query, history
<1>6. ASSUME NEW j \in Jobs, StartRejected(j) PROVE ClientTypeOK'
  <2>1. /\ ui' \in [status : Phases, job : Jobs \cup {0}, error : Errors]
        /\ card' \in Cards
    BY <1>6, ShowTyped DEF StartRejected, Phases, Errors
  <2>2. QED
    BY <1>6, <2>1 DEF StartRejected, query, history
<1>6a. ASSUME NEW j \in Jobs, Cancelled(j) PROVE ClientTypeOK'
  <2>1. /\ ui' \in [status : Phases, job : Jobs \cup {0}, error : Errors]
        /\ card' \in Cards
    BY <1>6a, ShowTyped DEF Cancelled, Phases, Errors
  <2>2. QED
    BY <1>6a, <2>1 DEF Cancelled, query, history
<1>7. ASSUME NEW j \in Jobs, Drop(j) PROVE ClientTypeOK'
  BY <1>7, ClientAssumption DEF Drop, query, history
<1>8. ASSUME NEW j \in Jobs, PollAnswered(j) PROVE ClientTypeOK'
  <2>1. PICK bundle \in {FALSE, row[j].path /\ j \in stored} :
          SetState(IF bundle THEN "completed" ELSE "failed",
                   IF bundle THEN "none"
                   ELSE IF row[j].error = "none" THEN "failed" ELSE row[j].error)
    BY <1>8 DEF PollAnswered
  <2>2. /\ (IF bundle THEN "completed" ELSE "failed") \in Phases
        /\ (IF bundle THEN "none"
            ELSE IF row[j].error = "none" THEN "failed" ELSE row[j].error) \in Errors
    BY DEF Phases, Errors, TypeOK, Rows
  <2>3. /\ ui' \in [status : Phases, job : Jobs \cup {0}, error : Errors]
        /\ card' \in Cards /\ ref' \in Phases
    BY <2>1, <2>2, ShowTyped DEF SetState
  <2>4. polls' \in [Jobs -> 0 .. PollAttempts]
    BY <1>8, ClientAssumption DEF PollAnswered
  <2>5. QED
    BY <1>8, <2>3, <2>4 DEF PollAnswered, query, history
<1>9. ASSUME NEW j \in Jobs, PollUnauthorized(j) PROVE ClientTypeOK'
  <2>1. /\ ui' \in [status : Phases, job : Jobs \cup {0}, error : Errors]
        /\ card' \in Cards /\ ref' \in Phases
    BY <1>9, ShowTyped DEF PollUnauthorized, SetState, Phases, Errors
  <2>2. polls' \in [Jobs -> 0 .. PollAttempts]
    BY <1>9, ClientAssumption DEF PollUnauthorized
  <2>3. QED
    BY <1>9, <2>1, <2>2 DEF PollUnauthorized, query, history
<1>10. ASSUME NEW j \in Jobs, PollBails(j) PROVE ClientTypeOK'
  BY <1>10, ClientAssumption DEF PollBails, query, history
<1>11. ASSUME NEW j \in Jobs, PollErrs(j) PROVE ClientTypeOK'
  <2>1. polls' \in [Jobs -> 0 .. PollAttempts]
    BY <1>11, ClientAssumption DEF PollErrs
  <2>2. CASE UNCHANGED <<ui, ref, card, streams, esRef, reconnects>>
    BY <1>11, <2>1, <2>2 DEF PollErrs, query, history
  <2>3. CASE /\ reconnects < MaxReconnects
             /\ reconnects' = reconnects + 1
             /\ \E i \in Instances : streams' = [streams EXCEPT ![j] = i]
             /\ esRef' = j
             /\ UNCHANGED <<ui, ref, card>>
    BY <1>11, <2>1, <2>3, ClientAssumption DEF PollErrs, query, history
  <2>4. CASE SetState("failed", "lost") /\ UNCHANGED <<streams, esRef, reconnects>>
    <3>1. /\ ui' \in [status : Phases, job : Jobs \cup {0}, error : Errors]
          /\ card' \in Cards /\ ref' \in Phases
      BY <2>4, ShowTyped DEF SetState, Phases, Errors
    <3>2. QED
      BY <1>11, <2>1, <2>4, <3>1 DEF PollErrs, query, history
  <2>5. QED
    BY <1>11, <2>2, <2>3, <2>4 DEF PollErrs
<1>12. CASE Stop
  <2>1. streams' \in [Jobs -> Instances \cup {NoInstance}] /\ esRef' \in Jobs \cup {0}
    BY <1>12 DEF Stop, Closed
  <2>2. cancelling' \subseteq Jobs
    BY <1>12 DEF Stop
  <2>3. QED
    BY <1>12, <2>1, <2>2, <1>0 DEF Stop, query
<1>13. CASE ShowResult
  BY <1>13 DEF ShowResult, Cards, query, history
<1>14. LatestSession \in [job : Jobs \cup {0}, status : Statuses]
  <2>1. CASE \A j \in Jobs : row[j].status = "absent"
    BY <2>1 DEF LatestSession, NoSession, Statuses
  <2>2. CASE ~ \A j \in Jobs : row[j].status = "absent"
    <3> DEFINE Newest(k) == /\ row[k].status # "absent"
                            /\ \A l \in Jobs : l > k => row[l].status = "absent"
               newest == CHOOSE k \in Jobs : Newest(k)
    <3>1. PICK k \in Jobs : Newest(k)
      <4> DEFINE Present == {l \in Jobs : row[l].status # "absent"}
      <4>1. Present # {} /\ IsFiniteSet(Present) /\ Present \subseteq Nat
        BY <2>2, PipelineAssumption, FS_Subset
      <4>2. PICK k \in Present : \A l \in Present : ~(l > k)
        BY <4>1, FiniteSetHasLast, Zenon
      <4>3. QED
        BY <4>2
    <3>2. newest \in Jobs
      BY <3>1
    <3>3. row[newest].status \in Statuses
      BY <3>2 DEF TypeOK, Rows
    <3>4. LatestSession = [job |-> newest, status |-> row[newest].status]
      BY <2>2 DEF LatestSession
    <3>5. QED
      BY <3>2, <3>3, <3>4
  <2>3. QED
    BY <2>1, <2>2
<1>15. CASE Navigate
  <2>1. /\ ui' \in [status : Phases, job : Jobs \cup {0}, error : Errors]
        /\ card' \in Cards /\ ref' \in Phases
    BY <1>15 DEF Navigate, Initial, Phases, Errors, Cards
  <2>2. QED
    <3>1. /\ streams' \in [Jobs -> Instances \cup {NoInstance}]
          /\ polls' \in [Jobs -> 0 .. PollAttempts] /\ reconnects' \in 0 .. MaxReconnects
      BY <1>15 DEF Navigate, Closed
    <3>2. QED
      BY <1>0, <1>14, <1>15, <2>1, <3>1 DEF Navigate
<1>16. CASE Refetch
  BY <1>14, <1>16 DEF Refetch, page, history
<1>17. CASE Hydrate
  <2>1. ui' \in [status : Phases, job : Jobs \cup {0}, error : Errors]
    BY <1>17 DEF Hydrate, Phases, Errors
  <2>2. card' \in Cards /\ ref' \in Phases
    BY <1>17, CardTyped DEF Hydrate, Phases
  <2>3. streams' \in [Jobs -> Instances \cup {NoInstance}]
    BY <1>17 DEF Hydrate, Closed
  <2>4. QED
    BY <1>0, <1>17, <2>1, <2>2, <2>3 DEF Hydrate
<1>18. CASE UNCHANGED all
  BY <1>18 DEF all, page, query, history
<1>19. QED
  BY <1>1, <1>2, <1>3, <1>4, <1>5, <1>6, <1>7, <1>8, <1>9, <1>10, <1>11, <1>12, <1>13,
     <1>15, <1>16, <1>17, <1>18, <1>6a
  DEF ClientNext, PageStep

LEMMA NothingOutIsOrderly ==
    ASSUME \A j \in Jobs : ~Out(j)'
    PROVE  Orderly'
BY DEF Orderly, Out

\* Once astray the page stays so; a page that turns away with a call still out
\* is astray from then on.
LEMMA AstrayStep ==
    ASSUME ClientTypeOK, ClientTypeOK', [ClientNext]_all, ~astray'
    PROVE  ~astray /\ (Stop \/ Navigate \/ Hydrate => \A j \in Jobs : ~Calling(j))
<1>1. CASE GoesOn
  <2>1. astray' = (astray \/ \E j \in Jobs : Calling(j))
    BY <1>1 DEF GoesOn
  <2>2. ~astray /\ ~ \E j \in Jobs : Calling(j)
    BY <2>1, Zenon
  <2>3. QED
    BY <2>2
<1>2. CASE astray' = astray /\ ~Stop /\ ~Navigate /\ ~Hydrate
  BY <1>2
<1>3. (Stop \/ Navigate \/ Hydrate) => GoesOn
  BY DEF Stop, Navigate, Hydrate
<1>4. ~Stop /\ ~Navigate /\ ~Hydrate => astray' = astray
  <2>1. CASE ServerStep \/ \E j \in Jobs : RunEnds(j)
    BY <2>1 DEF ServerStep, RunEnds, history
  <2>2. CASE \E e \in Events, i \in Instances : Receive(e, i)
    BY <2>2 DEF Receive, history
  <2>3. CASE PageStep
    BY <2>3
    DEF PageStep, Begin, Started, StartRejected, Cancelled, Drop, PollAnswered,
        PollUnauthorized, PollBails, PollErrs, ShowResult, Refetch, history
  <2>4. CASE UNCHANGED all
    BY <2>4 DEF all, history
  <2>5. QED
    BY <2>1, <2>2, <2>3, <2>4 DEF ClientNext
<1>5. QED
  BY <1>1, <1>2, <1>3, <1>4

LEMMA OrderlyStep ==
    ASSUME ClientTypeOK, ClientTypeOK', [ClientNext]_all, ~astray', ~astray => Orderly
    PROVE  Orderly'
<1> USE DEF Orderly, Out
<1>0. /\ Orderly
      /\ Stop \/ Navigate \/ Hydrate => \A j \in Jobs : ~Calling(j)
      /\ \A j \in Jobs : polls[j] \in Nat
      /\ streams \in [Jobs -> Instances \cup {NoInstance}] /\ esRef \in Jobs \cup {0}
      /\ polls \in [Jobs -> 0 .. PollAttempts]
      /\ ui \in [status : Phases, job : Jobs \cup {0}, error : Errors]
      /\ starting \subseteq Jobs /\ cancelling \subseteq Jobs
  BY AstrayStep, ClientAssumption DEF ClientTypeOK
\* What touches neither the calls nor what is shown.
<1>1. ASSUME UNCHANGED <<ui, streams, esRef, polls, starting, cancelling>> PROVE Orderly'
  BY <1>0, <1>1
<1>2. CASE ServerStep \/ (\E j \in Jobs : RunEnds(j)) \/ ShowResult \/ Refetch \/ UNCHANGED all
  BY <1>1, <1>2 DEF ServerStep, RunEnds, ShowResult, Refetch, page, all
\* The call that was out is over, and it was the only one.
<1>3. ASSUME NEW j \in Jobs, Out(j),
             \A k \in Jobs : ~(Out(k)' /\ ~Out(k)), ~Out(j)'
      PROVE  Orderly'
  BY <1>0, <1>3, NothingOutIsOrderly
<1>4. ASSUME NEW e \in Events, NEW i \in Instances, Receive(e, i) PROVE Orderly'
  <2>0. e.job \in Jobs
    BY DEF Events
  <2>1. CASE UNCHANGED <<ui, streams, esRef, polls, starting, cancelling>>
    BY <1>1, <2>1
  <2>2. CASE /\ streams[e.job] = i
             /\ streams' = [streams EXCEPT ![e.job] = NoInstance]
             /\ UNCHANGED <<polls, starting, cancelling>>
    <3>1. Out(e.job) /\ ~Out(e.job)' /\ \A k \in Jobs : ~(Out(k)' /\ ~Out(k))
      BY <1>0, <2>0, <2>2, ClientAssumption
    <3>2. QED
      BY <1>3, <2>0, <3>1
  <2>3. QED
    BY <1>4, <2>1, <2>2 DEF Receive, page
\* While nothing runs nothing is out: the start request is alone.
<1>5. ASSUME NEW j \in Jobs, Begin(j) PROVE Orderly'
  <2>1. \A k \in Jobs : ~Out(k)
    BY <1>0, <1>5 DEF Begin
  <2>2. /\ streams' = streams /\ polls' = polls /\ cancelling' = cancelling
        /\ starting' = starting \cup {j} /\ ui'.status = "running"
    BY <1>0, <1>5, <2>1 DEF Begin, Closed, Initial
  <2>3. QED
    BY <1>0, <2>1, <2>2
<1>6. ASSUME NEW j \in Jobs, Started(j) PROVE Orderly'
  <2>1. /\ j \in starting /\ starting' = starting \ {j} /\ Out(j)
        /\ UNCHANGED <<polls, cancelling>> /\ ui.status = "running"
    BY <1>0, <1>6 DEF Started
  <2>2. CASE streams' = streams
    BY <1>0, <1>3, <2>1, <2>2
  <2>3. CASE \E i \in Instances : /\ streams' = [streams EXCEPT ![j] = i]
                                  /\ esRef' = j
                                  /\ ui' = [ui EXCEPT !.job = j]
    <3>1. \A k \in Jobs : k # j => ~Out(k) /\ ~Out(k)'
      BY <1>0, <2>1, <2>3
    <3>2. polls[j] = 0 /\ j \notin cancelling
      BY <1>0, <2>1
    <3>3. ui'.status = "running" /\ ui'.job = j /\ esRef' = j
      BY <1>0, <2>1, <2>3
    <3>4. QED
      BY <2>1, <3>1, <3>2, <3>3
  <2>4. QED
    BY <1>6, <2>2, <2>3 DEF Started
<1>7. ASSUME NEW j \in Jobs, StartRejected(j) \/ Cancelled(j) PROVE Orderly'
  <2>1. UNCHANGED <<streams, polls>> /\ Out(j)
    BY <1>7 DEF StartRejected, Cancelled
  <2>2. \/ j \in starting /\ starting' = starting \ {j} /\ cancelling' = cancelling
        \/ j \in cancelling /\ cancelling' = cancelling \ {j} /\ starting' = starting
    BY <1>7 DEF StartRejected, Cancelled
  <2>3. ~Out(j)' /\ \A k \in Jobs : ~(Out(k)' /\ ~Out(k))
    BY <1>0, <2>1, <2>2
  <2>4. QED
    BY <1>3, <2>1, <2>3
<1>8. ASSUME NEW j \in Jobs, Drop(j) PROVE Orderly'
  <2>1. /\ streams[j] # NoInstance /\ Out(j) /\ esRef = j
        /\ UNCHANGED <<ui, starting, cancelling>>
    BY <1>0, <1>8 DEF Drop
  <2>2. \A k \in Jobs : k # j => ~Out(k)
    BY <1>0, <2>1
  <2>3. \/ /\ \E i \in Instances : streams' = [streams EXCEPT ![j] = i]
           /\ UNCHANGED <<esRef, polls>>
        \/ /\ streams' = [streams EXCEPT ![j] = NoInstance]
           /\ polls' = [polls EXCEPT ![j] = PollAttempts]
    BY <1>8 DEF Drop
  <2>4. \A k \in Jobs : k # j => ~Out(k)'
    BY <1>0, <2>1, <2>2, <2>3
  <2>5. j \notin starting \cup cancelling /\ polls[j] = 0
    BY <1>0, <2>1
  <2>6. QED
    BY <1>0, <2>1, <2>3, <2>4, <2>5
<1>9. ASSUME NEW j \in Jobs,
             PollAnswered(j) \/ PollUnauthorized(j) \/ PollBails(j)
      PROVE  Orderly'
  <2>1. /\ polls[j] > 0 /\ polls' = [polls EXCEPT ![j] = 0]
        /\ UNCHANGED <<streams, starting, cancelling>>
    BY <1>9 DEF PollAnswered, PollUnauthorized, PollBails
  <2>2. Out(j) /\ ~Out(j)' /\ \A k \in Jobs : ~(Out(k)' /\ ~Out(k))
    BY <1>0, <2>1
  <2>3. QED
    BY <1>3, <2>2
<1>10. ASSUME NEW j \in Jobs, PollErrs(j) PROVE Orderly'
  <2>1. /\ polls[j] > 0 /\ polls' = [polls EXCEPT ![j] = @ - 1]
        /\ UNCHANGED <<starting, cancelling>> /\ Out(j)
    BY <1>10 DEF PollErrs
  <2>2. /\ \A k \in Jobs : k # j => ~Out(k)
        /\ streams[j] = NoInstance /\ j \notin starting \cup cancelling
        /\ ui.status = "running" /\ ui.job = j
    BY <1>0, <2>1
  <2>3. CASE UNCHANGED <<ui, streams>>
    <3>1. \A k \in Jobs : k # j => ~Out(k)'
      BY <1>0, <2>1, <2>2, <2>3
    <3>2. QED
      BY <2>1, <2>2, <2>3, <3>1
  <2>4. CASE /\ polls[j] = 1 /\ UNCHANGED ui /\ esRef' = j
             /\ \E i \in Instances : streams' = [streams EXCEPT ![j] = i]
    <3>1. polls'[j] = 0
      BY <1>0, <2>1, <2>4
    <3>2. \A k \in Jobs : k # j => ~Out(k)'
      BY <1>0, <2>1, <2>2, <2>4
    <3>3. QED
      BY <2>1, <2>2, <2>4, <3>1, <3>2
  <2>5. CASE polls[j] = 1 /\ UNCHANGED streams
    <3>1. ~Out(j)' /\ \A k \in Jobs : ~(Out(k)' /\ ~Out(k))
      BY <1>0, <2>1, <2>2, <2>5
    <3>2. QED
      BY <1>3, <2>1, <3>1
  <2>6. QED
    BY <1>10, <2>3, <2>4, <2>5 DEF PollErrs
\* The page turns away with nothing out, but for the stream it closes.
<1>11. ASSUME Stop \/ Navigate \/ Hydrate,
              NEW S, S \subseteq Jobs, cancelling' = S, polls' = polls, starting' = starting
       PROVE  /\ \A j \in Jobs : ~Out(j)' \/ j \in S
              /\ \A j \in Jobs : polls'[j] = 0 /\ streams'[j] = NoInstance
              /\ starting' = {}
  <2>1. \A j \in Jobs : /\ polls[j] = 0 /\ j \notin starting \cup cancelling
                        /\ streams[j] # NoInstance => j = esRef
    BY <1>0, <1>11 DEF Calling
  <2>2. \A j \in Jobs : streams'[j] = NoInstance
    <3>1. streams' = Closed
      BY <1>11 DEF Stop, Navigate, Hydrate
    <3>2. CASE esRef = 0
      BY <2>1, <3>1, <3>2, PipelineAssumption DEF Closed
    <3>3. CASE esRef # 0
      BY <1>0, <2>1, <3>1, <3>3 DEF Closed
    <3>4. QED
      BY <3>2, <3>3
  <2>3. QED
    BY <1>0, <1>11, <2>1, <2>2
<1>12. CASE Navigate \/ Hydrate
  <2>1. cancelling' = cancelling /\ polls' = polls /\ starting' = starting
    BY <1>12 DEF Navigate, Hydrate
  <2>2. \A j \in Jobs : ~Out(j)'
    BY <1>0, <1>11, <1>12, <2>1 DEF Calling
  <2>3. QED
    BY <2>2, NothingOutIsOrderly
<1>13. CASE Stop
  <2>1. /\ ui.status = "running" /\ ui.job \in Jobs /\ ui' = ui
        /\ cancelling' = cancelling \cup {ui.job} /\ polls' = polls /\ starting' = starting
    BY <1>0, <1>13 DEF Stop
  <2>2. cancelling = {}
    BY <1>0, <1>13 DEF Calling
  <2>3. QED
    BY <1>11, <1>13, <2>1, <2>2
<1>14. QED
  BY <1>2, <1>4, <1>5, <1>6, <1>7, <1>8, <1>9, <1>10, <1>12, <1>13 DEF ClientNext, PageStep

LEMMA StoredGrows ==
    ASSUME [Next]_vars
    PROVE  stored \subseteq stored'
<1>1. CASE UNCHANGED vars
  BY <1>1 DEF vars, completion
<1>2. ASSUME NEW j \in Jobs, JobStep(j) PROVE stored \subseteq stored'
  BY <1>2
  DEF JobStep, Accept, Refuse, Publish, PublishFails, Cancel, Deliver, Report, Finish, RunLost,
      completion
<1>3. ASSUME NEW m \in Messages, MessageStep(m) PROVE stored \subseteq stored'
  BY <1>3
  DEF MessageStep, Handle, Redeliver, Take, Store, updateAppArchetype, upsertGeneration, Ack,
      Upload
<1>4. ASSUME NEW j \in Jobs, NEW r \in Routes, DeployStep(j, r) PROVE stored \subseteq stored'
  BY <1>4 DEF DeployStep, Check, startDeploy, DeployRefused, Mark, completion
<1>5. ASSUME NEW e \in Events, Pull(e) PROVE stored \subseteq stored'
  BY <1>5 DEF Pull, completion
<1>6. QED
  BY <1>1, <1>2, <1>3, <1>4, <1>5 DEF Next

LEMMA ExplanationsStep ==
    ASSUME ClientInv, [ClientNext]_all, ClientTypeOK'
    PROVE  /\ \A e \in events' : e.kind = "explained" => e.job \in explained'
           /\ NoFalseSuccess'
<1> USE DEF ClientInv, NoFalseSuccess
<1>0. /\ events \subseteq Events /\ explained \subseteq Jobs /\ ui \in [status : Phases,
            job : Jobs \cup {0}, error : Errors]
      /\ \A j \in Jobs : row[j].path => j \in stored
      /\ stored \subseteq stored'
  BY ClientStepsPipeline, StoredGrows DEF ClientTypeOK, TypeOK, PipelineInv, Kept
<1>1. ~astray' => ~astray /\ Orderly
  BY AstrayStep
\* What the page need not answer for: it shows what it showed, or no success.
<1>2. ASSUME ui'.status # "completed" \/ (ui.status = "completed" /\ ui'.job = ui.job),
             explained \subseteq explained'
      PROVE  NoFalseSuccess'
  BY <1>0, <1>1, <1>2
<1>3. CASE ServerStep
  <2>1. \A e \in events' \ events : e.kind # "explained"
    <3>1. ASSUME NEW j, Report(j) PROVE \A e \in events' \ events : e.kind # "explained"
      BY <3>1 DEF Report
    <3>2. CASE ~ \E j \in Jobs : Report(j)
      BY <1>3, <3>2
      DEF ServerStep, Accept, Refuse, Publish, PublishFails, Deliver, MessageStep, Handle,
          Redeliver, Take, Store, updateAppArchetype, upsertGeneration, Ack, Upload,
          DeployStep, Check, startDeploy, DeployRefused, Mark, submission
    <3>3. QED
      BY <3>1, <3>2
  <2>2. ui' = ui /\ explained' = explained
    BY <1>3 DEF ServerStep, page, history
  <2>3. QED
    BY <1>2, <2>1, <2>2
<1>4. ASSUME NEW j \in Jobs, RunEnds(j)
      PROVE  /\ \A e \in events' : e.kind = "explained" => e.job \in explained'
             /\ NoFalseSuccess'
  <2>1. ui' = ui
    BY <1>4 DEF RunEnds, page
  <2>2. QED
    BY <1>2, <1>4, <2>1 DEF RunEnds
\* An explanation ends the stream as a success: the one stream of the job shown.
<1>5. ASSUME NEW e \in Events, NEW i \in Instances, Receive(e, i)
      PROVE  /\ \A x \in events' : x.kind = "explained" => x.job \in explained'
             /\ NoFalseSuccess'
  <2>1. e \in events /\ events' \subseteq events /\ explained' = explained /\ e.job \in Jobs
    BY <1>5 DEF Receive, Pull, Events, history
  <2>2. \/ ui' = ui
        \/ /\ streams[e.job] = i /\ ui'.job = ui.job
           /\ ui'.status = "completed" => e.kind = "explained"
    BY <1>0, <1>5 DEF Receive, page, SetState, Show
  <2>3. CASE streams[e.job] = i /\ ui'.job = ui.job /\ (ui'.status = "completed" => e.kind = "explained")
    <3>1. ASSUME ~astray', ui'.status = "completed" PROVE ui'.job \in explained'
      <4>1. Out(e.job) /\ streams[e.job] # NoInstance
        BY <2>3, ClientAssumption DEF Out
      <4>2. ui.job = e.job
        BY <1>1, <2>1, <3>1, <4>1 DEF Orderly
      <4>3. QED
        BY <2>1, <2>3, <3>1, <4>2
    <3>2. QED
      BY <2>1, <3>1
  <2>4. QED
    BY <1>2, <2>1, <2>2, <2>3
\* A poll completes a generation whose bundle is stored: the one the page polls for.
<1>6. ASSUME NEW j \in Jobs, PollAnswered(j)
      PROVE  /\ \A e \in events' : e.kind = "explained" => e.job \in explained'
             /\ NoFalseSuccess'
  <2>1. UNCHANGED vars /\ explained' = explained
    BY <1>6 DEF PollAnswered, history
  <2>2. events' = events /\ stored' = stored
    BY <2>1 DEF vars, submission, completion
  <2>3. ui'.job = ui.job /\ (ui'.status = "completed" => j \in stored)
    BY <1>0, <1>6 DEF PollAnswered, SetState, Show
  <2>4. ~astray' => ui.job = j
    BY <1>1, <1>6 DEF Orderly, Out, PollAnswered
  <2>5. QED
    BY <2>1, <2>2, <2>3, <2>4
<1>7. CASE /\ PageStep
           /\ ~ \E j \in Jobs : PollAnswered(j)
  <2>1. events' = events
    BY <1>7
    DEF PageStep, Begin, Started, StartRejected, Cancelled, Drop, PollUnauthorized, PollBails,
        PollErrs, Stop, Cancel, ShowResult, Navigate, Refetch, Hydrate, vars, submission
  <2>2. explained' = explained
    BY <1>7
    DEF PageStep, Begin, Started, StartRejected, Cancelled, Drop, PollUnauthorized, PollBails,
        PollErrs, Stop, ShowResult, Navigate, Refetch, Hydrate, history
  <2>3. ASSUME ~astray'
        PROVE  ui'.status # "completed" \/ (ui.status = "completed" /\ ui'.job = ui.job)
    <3>1. ASSUME NEW j, Begin(j) \/ StartRejected(j) \/ Cancelled(j) \/ PollUnauthorized(j)
          PROVE  ui'.status # "completed"
      BY <1>0, <3>1
      DEF Begin, StartRejected, Cancelled, PollUnauthorized, SetState, Show, Initial
    <3>2. ASSUME NEW j \in Jobs, Started(j) PROVE ui'.status # "completed"
      <4>1. ui.status = "running"
        BY <1>1, <2>3, <3>2 DEF Started, Orderly, Out
      <4>2. QED
        BY <1>0, <3>2, <4>1 DEF Started
    <3>3. ASSUME NEW j, PollErrs(j) PROVE ui' = ui \/ ui'.status # "completed"
      BY <1>0, <3>3 DEF PollErrs, SetState, Show
    <3>4. ASSUME NEW j, Drop(j) \/ PollBails(j) PROVE ui' = ui
      BY <3>4 DEF Drop, PollBails
    <3>5. CASE Stop \/ ShowResult \/ Refetch
      BY <3>5 DEF Stop, ShowResult, Refetch, page
    <3>6. CASE Navigate \/ Hydrate
      BY <3>6 DEF Navigate, Hydrate, Initial
    <3>7. QED
      BY <1>7, <3>1, <3>2, <3>3, <3>4, <3>5, <3>6 DEF PageStep
  <2>4. NoFalseSuccess'
    <3>1. CASE astray'
      BY <3>1
    <3>2. CASE ~astray'
      BY <1>2, <2>2, <2>3, <3>2
    <3>3. QED
      BY <3>1, <3>2
  <2>5. QED
    BY <2>1, <2>2, <2>4
<1>8. CASE UNCHANGED all
  <2>1. ui' = ui /\ events' = events /\ explained' = explained
    BY <1>8 DEF all, page, vars, submission, history
  <2>2. QED
    BY <1>2, <2>1
<1>9. QED
  BY <1>3, <1>4, <1>5, <1>6, <1>7, <1>8 DEF ClientNext

LEMMA ClientInvariant == ClientSpec => []ClientInv
<1>1. ClientInit => ClientInv
  <2>1. ClientInit => PipelineInv
    BY PipelineInvStart DEF ClientInit
  <2>2. ClientInit => ClientTypeOK
    <3>1. /\ Initial \in [status : Phases, job : Jobs \cup {0}, error : Errors]
          /\ NoSession \in [job : Jobs \cup {0}, status : Statuses]
      BY DEF Initial, NoSession, Phases, Errors, Statuses
    <3>2. ASSUME ClientInit
          PROVE  ClientTypeOK
      <4>1. /\ TypeOK /\ ui = Initial /\ session = NoSession
            /\ esRef \in Jobs \cup {0} /\ explained \subseteq Jobs
            /\ starting \subseteq Jobs /\ cancelling \subseteq Jobs
        BY <2>1, <3>2 DEF ClientInit, PipelineInv
      <4>2. ref \in Phases /\ card \in Cards /\ reconnects \in 0 .. MaxReconnects
        BY <3>2, ClientAssumption DEF ClientInit, Phases, Cards
      <4>3. streams \in [Jobs -> Instances \cup {NoInstance}]
        BY <3>2 DEF ClientInit
      <4>4. polls \in [Jobs -> 0 .. PollAttempts]
        BY <3>2, ClientAssumption DEF ClientInit
      <4>5. hydrated \in BOOLEAN /\ astray \in BOOLEAN
        BY <3>2 DEF ClientInit
      <4>6. QED
        BY <3>1, <4>1, <4>2, <4>3, <4>4, <4>5, Zenon DEF ClientTypeOK
    <3>3. QED
      BY <3>2
  <2>3. ClientInit => events = {} /\ ui.status = "idle" /\ Orderly
    BY DEF ClientInit, Init, Initial, Orderly, Out
  <2>4. QED
    BY <2>1, <2>2, <2>3 DEF ClientInv, NoFalseSuccess
<1>2. ClientInv /\ [ClientNext]_all => ClientInv'
  <2> SUFFICES ASSUME ClientInv, [ClientNext]_all PROVE ClientInv'
    OBVIOUS
  <2>1. PipelineInv'
    BY ClientStepsPipeline, PipelineInvStep DEF ClientInv
  <2>2. TypeOK'
    BY <2>1 DEF PipelineInv
  <2>3. ClientTypeOK'
    BY <2>2, ClientTypeStep DEF ClientInv
  <2>4. ~astray' => Orderly'
    BY <2>3, OrderlyStep DEF ClientInv
  <2>5. QED
    BY <2>1, <2>3, <2>4, ExplanationsStep DEF ClientInv
<1>3. QED
  BY <1>1, <1>2, PTL DEF ClientSpec

\* The page, its streams and its polls keep their types.
THEOREM ClientTypeCorrect == ClientSpec => []ClientTypeOK
<1>1. ClientInv => ClientTypeOK
  BY DEF ClientInv
<1>2. QED
  BY <1>1, ClientInvariant, PTL

\* A page that shows its job as finished has seen a run explain that job or its
\* bundle stored, whatever streams were dropped, polls were late and jobs followed
\* each other - unless it once turned away while a call of its own was out, which
\* then answers for the wrong job (useGeneration.ts).
THEOREM SuccessWasReal == ClientSpec => []NoFalseSuccess
<1>1. ClientInv => NoFalseSuccess
  BY DEF ClientInv
<1>2. QED
  BY <1>1, ClientInvariant, PTL

-----------------------------------------------------------------------------
(* GeneratorAgents                                                         *)

\* main and the state file agree on all but the intent since the session began.
SameFile ==
    /\ saved.plan = loaded.plan
    /\ saved.review = loaded.review
    /\ saved.revised = loaded.revised

\* What a state file can say: a review is of the plan on file, a revision is
\* one that the review asked for.
SoundFile(f) ==
    /\ f.plan.draft = 0 => f.plan = NoPlan /\ f.review = Unreviewed
    /\ f.review.draft = 0 => f.review = Unreviewed
    /\ f.review.draft # 0 => f.review.draft = f.plan.draft
    /\ f.revised => f.review.found
    /\ f.plan.revisions = IF f.revised THEN 1 ELSE 0

\* What each phase knows.
PhaseKnows ==
    /\ SoundFile(saved) /\ SoundFile(loaded)
    /\ stage # "off" => plan = saved.plan /\ report = "none"
    /\ stage \in {"product", "confirm", "hld"} => SameFile
    /\ stage = "hld" => plan = NoPlan
    /\ stage = "review" => plan.draft # 0 /\ saved.review = Unreviewed /\ ~loaded.revised
    /\ stage = "revise" => saved.review.draft # 0 /\ saved.review.found /\ ~saved.revised
    /\ stage \in {"coding", "dispatch", "final"} =>
          saved.review.draft # 0 /\ (saved.review.found => saved.revised)

\* done() fails at most once per call.
FailedCalls ==
    /\ stage \in {"coding", "dispatch", "final"} \/ gate.failed = 0
    /\ stage = "coding" => gate.failed <= (turn - 1) * MaxToolCalls
    /\ stage = "dispatch" => gate.failed + pending <= turn * MaxToolCalls
    /\ stage = "final" => gate.failed <= turn * MaxToolCalls

AgentsInv == AgentsTypeOK /\ PhaseKnows /\ FailedCalls /\ CleanBuilds

\* The products the bound of done()'s failures is made of.
LEMMA CallsBounded ==
    ASSUME AgentAssumption, NEW t \in 1 .. CodingTurns
    PROVE  /\ t * MaxToolCalls \in Nat /\ CodingTurns * MaxToolCalls \in Nat
           /\ t * MaxToolCalls <= CodingTurns * MaxToolCalls
           /\ (t - 1) * MaxToolCalls + MaxToolCalls = t * MaxToolCalls
           /\ (t - 1) * MaxToolCalls \in Nat
<1>1. MaxToolCalls \in Nat /\ CodingTurns \in Nat
  BY DEF AgentAssumption
<1>2. \A m \in Nat, n \in Nat, k \in Nat :
        /\ k * m \in Nat
        /\ k <= n => k * m <= n * m
  OBVIOUS
<1>3. (t - 1) * MaxToolCalls + MaxToolCalls = t * MaxToolCalls
  BY <1>1
<1>4. QED
  BY <1>1, <1>2, <1>3

LEMMA TurnLimitPositive ==
    ASSUME AgentAssumption
    PROVE  TurnLimit \in Nat \ {0} /\ TurnLimit' \in Nat \ {0}
BY DEF AgentAssumption, TurnLimit, TurnCap

\* Drafts only grow more, so plans and state files stay what they are.
LEMMA FilesKept ==
    ASSUME drafts \in Nat, drafts' \in {drafts, drafts + 1}
    PROVE  Plans \subseteq Plans' /\ StateFiles \subseteq StateFiles'
<1>1. 0 .. drafts \subseteq 0 .. drafts'
  OBVIOUS
<1>2. Plans \subseteq Plans'
  BY <1>1 DEF Plans
<1>3. [draft : 0 .. drafts, found : BOOLEAN] \subseteq [draft : 0 .. drafts', found : BOOLEAN]
  BY <1>1
<1>4. ASSUME NEW f \in StateFiles PROVE f \in StateFiles'
  <2> DEFINE Reviews == [draft : 0 .. drafts, found : BOOLEAN]
             Later   == [draft : 0 .. drafts', found : BOOLEAN]
  <2>1. f \in [intent : BOOLEAN, plan : Plans, review : Reviews, revised : BOOLEAN,
               done : BOOLEAN, torn : BOOLEAN]
    BY <1>4 DEF StateFiles
  <2>2. Reviews \subseteq Later
    BY <1>3
  <2> HIDE DEF Reviews, Later
  <2>3. f \in [intent : BOOLEAN, plan : Plans', review : Later, revised : BOOLEAN,
               done : BOOLEAN, torn : BOOLEAN]
    BY <1>2, <2>1, <2>2
  <2>4. QED
    BY <2>3 DEF StateFiles, Later
<1>5. QED
  BY <1>2, <1>4

LEMMA NewGateTyped == NewGate \in Gates
<1>1. CodingTurns * MaxToolCalls \in Nat
  BY AgentAssumption DEF AgentAssumption
<1>2. QED
  BY <1>1 DEF NewGate, Gates

\* What a phase begins with is in place.
LEMMA GoToTyped ==
    ASSUME NEW next \in Stages, GoTo(next)
    PROVE  /\ stage' \in Stages /\ turn' \in 1 .. TurnLimit' /\ pending' \in 0 .. MaxToolCalls
           /\ gate' \in Gates /\ report' \in {"none", "clean", "incomplete"}
<1>1. TurnLimit' \in Nat \ {0} /\ MaxToolCalls \in Nat
  BY TurnLimitPositive, AgentAssumption DEF AgentAssumption
<1>2. QED
  BY <1>1, NewGateTyped DEF GoTo

LEMMA NextStages ==
    ASSUME NEW l, NEW s, NEW found
    PROVE  /\ CodingStage(l, s) \in {"off", "coding"}
           /\ ReviseStage(l, s, found) \in {"off", "coding", "revise"}
           /\ ReviewStage(l, s) \in {"off", "coding", "revise", "review"}
           /\ DesignStage(l, s) \in {"off", "coding", "revise", "review", "hld"}
           /\ FirstStage(l, s) \in {"off", "coding", "revise", "review", "hld", "product"}
BY DEF CodingStage, ReviseStage, ReviewStage, DesignStage, FirstStage

\* A phase that ends the session or begins another saves what it learnt.
LEMMA AgentsTypeStep ==
    ASSUME AgentsInv, [AgentsNext]_agentVars
    PROVE  AgentsTypeOK'
<1> USE DEF AgentsInv, AgentsTypeOK, Quiet, invocation
<1>0. /\ DesignStage(loaded, stopAfter) \in Stages
      /\ ReviewStage(loaded, stopAfter) \in Stages
      /\ CodingStage(loaded, stopAfter) \in Stages
      /\ \A f : ReviseStage(loaded, stopAfter, f) \in Stages
      /\ \A s : FirstStage(saved, s) \in Stages
      /\ {"off", "product", "confirm"} \subseteq Stages
  BY NextStages DEF Stages
<1>1. CASE Start
  <2>1. PICK s : GoTo(FirstStage(saved, s)) /\ stopAfter' = s
    BY <1>1 DEF Start
  <2>2. /\ stage' \in Stages /\ turn' \in 1 .. TurnLimit' /\ pending' \in 0 .. MaxToolCalls
        /\ gate' \in Gates /\ report' \in {"none", "clean", "incomplete"}
    BY <1>0, <2>1, GoToTyped
  <2>3. sessions' \in 0 .. MaxSessions
    <3>1. MaxSessions \in Nat
      BY AgentAssumption DEF AgentAssumption
    <3>2. QED
      BY <1>1, <3>1 DEF Start
  <2>4. Plans' = Plans /\ StateFiles' = StateFiles /\ saved.plan \in Plans
    BY <1>1 DEF Start, Plans, StateFiles
  <2>5. QED
    BY <1>1, <2>2, <2>3, <2>4 DEF Start
<1>2. ASSUME SaveIntent, Quiet PROVE AgentsTypeOK'
  <2>1. /\ stage' \in Stages /\ turn' \in 1 .. TurnLimit' /\ pending' \in 0 .. MaxToolCalls
        /\ gate' \in Gates /\ report' \in {"none", "clean", "incomplete"}
    BY <1>0, <1>2, GoToTyped DEF SaveIntent
  <2>2. Plans' = Plans /\ StateFiles' = StateFiles /\ saved' \in StateFiles
    BY <1>2 DEF SaveIntent, Plans, StateFiles
  <2>3. QED
    BY <1>2, <2>1, <2>2 DEF SaveIntent
<1>3. ASSUME GiveUp, Quiet PROVE AgentsTypeOK'
  <2>1. /\ stage' \in Stages /\ turn' \in 1 .. TurnLimit' /\ pending' \in 0 .. MaxToolCalls
        /\ gate' \in Gates /\ report' \in {"none", "clean", "incomplete"}
    BY <1>0, <1>3, GoToTyped DEF GiveUp
  <2>2. Plans' = Plans /\ StateFiles' = StateFiles
    BY <1>3 DEF GiveUp, Plans, StateFiles
  <2>3. QED
    BY <1>3, <2>1, <2>2 DEF GiveUp
\* A turn that ends nothing, with a turn left.
<1>4. ASSUME Retry, Quiet, turn < TurnLimit PROVE AgentsTypeOK'
  <2>1. TurnLimit' = TurnLimit /\ TurnLimit \in Nat
    BY <1>4, TurnLimitPositive, AgentAssumption DEF Retry, TurnLimit, TurnCap
  <2>2. turn' \in 1 .. TurnLimit'
    BY <1>4, <2>1 DEF Retry
  <2>3. Plans' = Plans /\ StateFiles' = StateFiles
    BY <1>4 DEF Retry, Plans, StateFiles
  <2>4. QED
    BY <1>4, <2>2, <2>3 DEF Retry
<1>5. CASE run_product_agent
  <2>1. CASE turn < ProductAttempts /\ Retry
    <3>1. turn < TurnLimit
      BY <1>5, <2>1 DEF run_product_agent, TurnLimit
    <3>2. QED
      BY <1>4, <1>5, <2>1, <3>1 DEF run_product_agent
  <2>2. QED
    BY <1>2, <1>3, <1>5, <2>1 DEF run_product_agent
<1>6. CASE run_product_agent_analyze
  <2>1. TurnLimit' = TurnLimit /\ stage' \in Stages
    BY <1>0, <1>6 DEF run_product_agent_analyze, TurnLimit
  <2>2. Plans' = Plans /\ StateFiles' = StateFiles
    BY <1>6 DEF run_product_agent_analyze, Plans, StateFiles
  <2>3. QED
    BY <1>6, <2>1, <2>2 DEF run_product_agent_analyze
<1>7. CASE run_product_analysis
  <2>1. CASE GoTo("product") /\ UNCHANGED <<saved, plan, scaffold, drafts>>
    <3>1. /\ stage' \in Stages /\ turn' \in 1 .. TurnLimit'
          /\ pending' \in 0 .. MaxToolCalls
          /\ gate' \in Gates /\ report' \in {"none", "clean", "incomplete"}
      BY <1>0, <2>1, GoToTyped
    <3>2. Plans' = Plans /\ StateFiles' = StateFiles
      BY <2>1 DEF Plans, StateFiles
    <3>3. QED
      BY <1>7, <2>1, <3>1, <3>2 DEF run_product_analysis
  <2>2. QED
    BY <1>2, <1>3, <1>7, <2>1 DEF run_product_analysis
<1>8. CASE run_hld_loop
  <2>1. turn < TurnLimit
    BY <1>8 DEF run_hld_loop, TurnLimit
  <2>2. QED
    BY <1>4, <1>8, <2>1 DEF run_hld_loop
<1>9. CASE Design
  <2>1. /\ stage' \in Stages /\ turn' \in 1 .. TurnLimit' /\ pending' \in 0 .. MaxToolCalls
        /\ gate' \in Gates /\ report' \in {"none", "clean", "incomplete"}
    BY <1>0, <1>9, GoToTyped DEF Design
  <2>2. drafts' = drafts + 1 /\ plan' = [draft |-> drafts', revisions |-> 0]
        /\ saved' = [saved EXCEPT !.plan = plan'] /\ loaded' = loaded
    BY <1>9 DEF Design
  <2>3. Plans \subseteq Plans' /\ StateFiles \subseteq StateFiles'
    BY <2>2, FilesKept
  <2>4. plan' \in Plans'
    BY <2>2 DEF Plans
  <2>5. saved \in StateFiles' /\ loaded' \in StateFiles'
    BY <2>2, <2>3
  <2>6. saved' \in StateFiles'
    BY <2>2, <2>4, <2>5 DEF StateFiles
  <2>7. QED
    BY <1>9, <2>1, <2>2, <2>4, <2>5, <2>6 DEF Design
<1>10. CASE DesignFails
  BY <1>3, <1>10 DEF DesignFails
<1>11. CASE Review
  <2>1. PICK found \in BOOLEAN :
          /\ saved' = [saved EXCEPT !.review = [draft |-> plan.draft, found |-> found]]
          /\ GoTo(ReviseStage(loaded, stopAfter, found))
    BY <1>11 DEF Review
  <2>2. /\ stage' \in Stages /\ turn' \in 1 .. TurnLimit' /\ pending' \in 0 .. MaxToolCalls
        /\ gate' \in Gates /\ report' \in {"none", "clean", "incomplete"}
    BY <1>0, <2>1, GoToTyped
  <2>3. Plans' = Plans /\ StateFiles' = StateFiles
    BY <1>11 DEF Review, Plans, StateFiles
  <2>4. saved' \in StateFiles
    BY <2>1 DEF StateFiles, Plans
  <2>5. QED
    BY <1>11, <2>2, <2>3, <2>4 DEF Review
\* The plan that is revised was not revised before.
<1>12. CASE Revise
  <2>1. /\ stage' \in Stages /\ turn' \in 1 .. TurnLimit' /\ pending' \in 0 .. MaxToolCalls
        /\ gate' \in Gates /\ report' \in {"none", "clean", "incomplete"}
    BY <1>0, <1>12, GoToTyped DEF Revise
  <2>2. plan.revisions = 0
    BY <1>12 DEF Revise, PhaseKnows, SoundFile
  <2>3. Plans' = Plans /\ StateFiles' = StateFiles
    BY <1>12 DEF Revise, Plans, StateFiles
  <2>4. plan' \in Plans
    BY <1>12, <2>2 DEF Revise, apply_edits, Plans
  <2>5. saved' \in StateFiles
    BY <1>12, <2>4 DEF Revise, StateFiles
  <2>6. QED
    BY <1>12, <2>1, <2>3, <2>4, <2>5 DEF Revise
<1>13. CASE run_loop
  <2>1. TurnLimit' = TurnLimit /\ stage' \in Stages
    BY <1>13 DEF run_loop, TurnLimit, Stages
  <2>2. Plans' = Plans /\ StateFiles' = StateFiles
    BY <1>13 DEF run_loop, Plans, StateFiles
  <2>3. pending' \in 0 .. MaxToolCalls
    <3>1. MaxToolCalls \in Nat
      BY AgentAssumption DEF AgentAssumption
    <3>2. pending' \in 1 .. MaxToolCalls \/ pending' = pending
      BY <1>13 DEF run_loop
    <3>3. QED
      BY <3>1, <3>2
  <2>4. QED
    BY <1>13, <2>1, <2>2, <2>3 DEF run_loop
<1>14. ASSUME Dispatch, gate' \in Gates, scaffold' \in [sound : BOOLEAN, types : BOOLEAN]
       PROVE  AgentsTypeOK'
  <2>1. TurnLimit' = TurnLimit
    BY <1>14 DEF Dispatch, TurnLimit, TurnCap
  <2>2. Plans' = Plans /\ StateFiles' = StateFiles
    BY <1>14 DEF Dispatch, Plans, StateFiles
  <2>3. pending' \in 0 .. MaxToolCalls
    <3>1. MaxToolCalls \in Nat
      BY AgentAssumption DEF AgentAssumption
    <3>2. QED
      BY <1>14, <3>1 DEF Dispatch
  <2>4. QED
    BY <1>14, <2>1, <2>2, <2>3 DEF Dispatch
<1>15. CASE tool_write_file
  BY <1>14, <1>15 DEF tool_write_file
\* One more failure is still one per call.
<1>16. CASE tool_done
  <2>1. stage = "dispatch" /\ pending > 0 /\ turn \in 1 .. CodingTurns
    BY <1>16 DEF tool_done, Dispatch, TurnLimit
  <2>2. gate.failed + 1 \in 0 .. CodingTurns * MaxToolCalls
    <3>1. /\ turn * MaxToolCalls <= CodingTurns * MaxToolCalls
          /\ turn * MaxToolCalls \in Nat /\ CodingTurns * MaxToolCalls \in Nat
      BY <2>1, CallsBounded, AgentAssumption
    <3>2. gate.failed + pending <= turn * MaxToolCalls /\ gate.failed \in Nat /\ pending \in Nat
      BY <2>1 DEF FailedCalls, Gates
    <3>3. QED
      BY <2>1, <3>1, <3>2
  <2>3. gate' \in Gates
    <3>1. PICK issues \in BOOLEAN :
            LET failed == gate.failed + 1
                force  == issues /\ failed >= MaxDoneAttempts
            IN  gate' = [done   |-> gate.done \/ ~issues \/ force,
                         failed |-> IF issues THEN failed ELSE gate.failed,
                         forced |-> gate.forced \/ force]
      BY <1>16 DEF tool_done, run_done_gate
    <3>2. (IF issues THEN gate.failed + 1 ELSE gate.failed) \in 0 .. CodingTurns * MaxToolCalls
      BY <2>2 DEF Gates
    <3>3. QED
      BY <3>1, <3>2 DEF Gates
  <2>4. QED
    BY <1>14, <1>16, <2>3 DEF tool_done
<1>17. CASE EndTurn
  <2>1. TurnLimit' = CodingTurns /\ TurnLimit = CodingTurns /\ stage' \in Stages
    BY <1>17 DEF EndTurn, TurnLimit, Stages
  <2>2. turn' \in 1 .. CodingTurns
    BY <1>17, <2>1, AgentAssumption DEF EndTurn, AgentAssumption
  <2>3. Plans' = Plans /\ StateFiles' = StateFiles
    BY <1>17 DEF EndTurn, Plans, StateFiles
  <2>4. QED
    BY <1>17, <2>1, <2>2, <2>3 DEF EndTurn
<1>18. CASE run_coding_agent
  <2>1. turn' \in 1 .. TurnLimit' /\ stage' \in Stages
    BY <1>18, TurnLimitPositive, AgentAssumption DEF run_coding_agent, Stages
  <2>2. report' \in {"none", "clean", "incomplete"} /\ gate' \in Gates
    BY <1>18, NewGateTyped DEF run_coding_agent
  <2>3. Plans' = Plans /\ StateFiles' = StateFiles
    BY <1>18 DEF run_coding_agent, Plans, StateFiles
  <2>4. saved' \in StateFiles
    BY <1>18 DEF run_coding_agent, StateFiles, Gates
  <2>5. QED
    BY <1>18, <2>1, <2>2, <2>3, <2>4 DEF run_coding_agent
<1>19. CASE Die \/ Tear
  <2>1. /\ stage' \in Stages /\ turn' \in 1 .. TurnLimit' /\ pending' \in 0 .. MaxToolCalls
        /\ gate' \in Gates /\ report' \in {"none", "clean", "incomplete"}
    BY <1>0, <1>19, GoToTyped DEF Die, Tear
  <2>2. Plans' = Plans /\ StateFiles' = StateFiles /\ saved' \in StateFiles
    BY <1>19 DEF Die, Tear, Plans, StateFiles
  <2>3. agentFaults' \in 0 .. MaxAgentFaults
    BY <1>19, AgentAssumption DEF Die, Tear, AgentFault, AgentAssumption
  <2>4. QED
    BY <1>19, <2>1, <2>2, <2>3 DEF Die, Tear
<1>20. CASE UNCHANGED agentVars
  <2>1. TurnLimit' = TurnLimit /\ Plans' = Plans /\ StateFiles' = StateFiles
    BY <1>20 DEF agentVars, TurnLimit, TurnCap, Plans, StateFiles
  <2>2. QED
    BY <1>20, <2>1 DEF agentVars
<1>21. QED
  BY <1>1, <1>5, <1>6, <1>7, <1>8, <1>9, <1>10, <1>11, <1>12, <1>13, <1>15, <1>16, <1>17,
     <1>18, <1>19, <1>20
  DEF AgentsNext

\* From the phase before a phase knows what the state file says.
LEMMA PhaseKnowsStep ==
    ASSUME AgentsInv, [AgentsNext]_agentVars
    PROVE  PhaseKnows'
<1> USE DEF PhaseKnows, SameFile, Quiet, invocation
<1>0. /\ saved \in StateFiles /\ loaded \in StateFiles /\ plan \in Plans
      /\ drafts \in Nat /\ PhaseKnows
  BY DEF AgentsInv, AgentsTypeOK
<1>1. /\ saved \in [intent : BOOLEAN, plan : Plans, review : [draft : 0 .. drafts, found : BOOLEAN],
                    revised : BOOLEAN, done : BOOLEAN, torn : BOOLEAN]
      /\ loaded \in [intent : BOOLEAN, plan : Plans, review : [draft : 0 .. drafts, found : BOOLEAN],
                     revised : BOOLEAN, done : BOOLEAN, torn : BOOLEAN]
      /\ plan \in [draft : 0 .. drafts, revisions : {0, 1}]
  BY <1>0 DEF StateFiles, Plans
\* What each stage may be entered with, from files that agree.
<1>2. CASE Start
  BY <1>0, <1>1, <1>2
  DEF Start, GoTo, FirstStage, DesignStage, ReviewStage, ReviseStage, CodingStage,
      SoundFile, Unreviewed, NoPlan
<1>3. ASSUME SaveIntent, stage \in {"product", "confirm"}, UNCHANGED loaded PROVE PhaseKnows'
  BY <1>0, <1>1, <1>3
  DEF SaveIntent, GoTo, DesignStage, ReviewStage, ReviseStage, CodingStage,
      SoundFile, Unreviewed, NoPlan
<1>4. ASSUME GiveUp, UNCHANGED loaded PROVE PhaseKnows'
  BY <1>0, <1>4 DEF GiveUp, GoTo, SoundFile
<1>5. ASSUME Retry, UNCHANGED loaded PROVE PhaseKnows'
  BY <1>0, <1>5 DEF Retry, SoundFile
<1>6. CASE run_product_agent
  BY <1>3, <1>4, <1>5, <1>6 DEF run_product_agent
<1>7. CASE run_product_agent_analyze
  BY <1>0, <1>7 DEF run_product_agent_analyze, SoundFile
<1>8. CASE run_product_analysis
  <2>1. CASE GoTo("product") /\ UNCHANGED <<saved, plan, scaffold, drafts>>
    BY <1>0, <1>8, <2>1 DEF run_product_analysis, GoTo, SoundFile
  <2>2. QED
    BY <1>3, <1>4, <1>8, <2>1 DEF run_product_analysis
<1>9. CASE run_hld_loop
  BY <1>5, <1>9 DEF run_hld_loop
<1>10. CASE Design
  BY <1>0, <1>1, <1>10
  DEF Design, GoTo, ReviewStage, ReviseStage, CodingStage, SoundFile, Unreviewed, NoPlan
<1>11. CASE DesignFails
  BY <1>4, <1>11 DEF DesignFails
<1>12. CASE Review
  BY <1>0, <1>1, <1>12
  DEF Review, GoTo, ReviseStage, CodingStage, SoundFile, Unreviewed, NoPlan
<1>13. CASE Revise
  BY <1>0, <1>1, <1>13
  DEF Revise, GoTo, CodingStage, apply_edits, SoundFile, Unreviewed, NoPlan
<1>14. CASE run_loop \/ EndTurn
  BY <1>0, <1>14 DEF run_loop, EndTurn, SoundFile
<1>15. CASE tool_write_file \/ tool_done
  BY <1>0, <1>15 DEF tool_write_file, tool_done, Dispatch, SoundFile
<1>16. CASE run_coding_agent
  BY <1>0, <1>1, <1>16 DEF run_coding_agent, SoundFile
<1>17. CASE Die \/ Tear
  BY <1>0, <1>1, <1>17 DEF Die, Tear, GoTo, SoundFile
<1>18. CASE UNCHANGED agentVars
  BY <1>0, <1>18 DEF agentVars, SoundFile
<1>19. QED
  BY <1>2, <1>6, <1>7, <1>8, <1>9, <1>10, <1>11, <1>12, <1>13, <1>14, <1>15, <1>16, <1>17,
     <1>18
  DEF AgentsNext

LEMMA FailedCallsStep ==
    ASSUME AgentsInv, [AgentsNext]_agentVars
    PROVE  FailedCalls'
<1> USE DEF FailedCalls, Quiet
<1>0. /\ gate \in Gates /\ pending \in Nat /\ turn \in Nat \ {0} /\ MaxToolCalls \in Nat
      /\ stage \in {"coding", "dispatch", "final"} => turn \in 1 .. CodingTurns
      /\ FailedCalls
  BY AgentAssumption, TurnLimitPositive DEF AgentsInv, AgentsTypeOK, TurnLimit
<1>1. ASSUME NEW next, GoTo(next), next \notin {"dispatch", "final"} PROVE FailedCalls'
  BY <1>0, <1>1 DEF GoTo, NewGate
<1>2. /\ DesignStage(loaded, stopAfter) \notin {"dispatch", "final"}
      /\ ReviewStage(loaded, stopAfter) \notin {"dispatch", "final"}
      /\ CodingStage(loaded, stopAfter) \notin {"dispatch", "final"}
      /\ \A f : ReviseStage(loaded, stopAfter, f) \notin {"dispatch", "final"}
      /\ \A s : FirstStage(saved, s) \notin {"dispatch", "final"}
  BY NextStages
<1>3. CASE Start \/ Design \/ DesignFails \/ Review \/ Revise \/ Die \/ Tear
  BY <1>1, <1>2, <1>3 DEF Start, Design, DesignFails, GiveUp, Review, Revise, Die, Tear
<1>4. CASE run_product_agent \/ run_product_agent_analyze \/ run_product_analysis \/ run_hld_loop
  BY <1>0, <1>1, <1>2, <1>4
  DEF run_product_agent, run_product_agent_analyze, run_product_analysis, run_hld_loop,
      SaveIntent, GiveUp, Retry
<1>5. CASE run_loop
  <2>1. /\ turn * MaxToolCalls = (turn - 1) * MaxToolCalls + MaxToolCalls
        /\ gate.failed <= (turn - 1) * MaxToolCalls /\ (turn - 1) * MaxToolCalls \in Nat
    BY <1>0, <1>5, CallsBounded, AgentAssumption DEF run_loop
  <2>2. QED
    BY <1>0, <1>5, <2>1 DEF run_loop, Gates
<1>6. CASE tool_write_file
  BY <1>0, <1>6 DEF tool_write_file, Dispatch, Gates
<1>7. CASE tool_done
  <2>1. gate'.failed \in {gate.failed, gate.failed + 1}
    BY <1>7 DEF tool_done
  <2>2. QED
    BY <1>0, <1>7, <2>1 DEF tool_done, Dispatch, Gates
<1>8. CASE EndTurn
  BY <1>0, <1>8 DEF EndTurn, Gates
<1>9. CASE run_coding_agent
  BY <1>9 DEF run_coding_agent, NewGate
<1>10. CASE UNCHANGED agentVars
  BY <1>0, <1>10 DEF agentVars
<1>11. QED
  BY <1>3, <1>4, <1>5, <1>6, <1>7, <1>8, <1>9, <1>10 DEF AgentsNext

LEMMA CleanBuildsStep ==
    ASSUME AgentsInv, [AgentsNext]_agentVars
    PROVE  CleanBuilds'
<1> USE DEF CleanBuilds, Quiet
<1>0. CleanBuilds /\ (stage # "off" => report = "none")
  BY DEF AgentsInv, PhaseKnows
\* Where nothing is said yet, nothing can be wrong.
<1>1. ASSUME report' = "none" PROVE CleanBuilds'
  BY <1>1
<1>2. CASE Start \/ Design \/ DesignFails \/ Review \/ Revise \/ Die \/ Tear
  BY <1>1, <1>2 DEF Start, Design, DesignFails, GiveUp, Review, Revise, Die, Tear, GoTo
<1>3. CASE run_product_agent \/ run_product_agent_analyze \/ run_product_analysis \/ run_hld_loop
  BY <1>0, <1>1, <1>3
  DEF run_product_agent, run_product_agent_analyze, run_product_analysis, run_hld_loop,
      SaveIntent, GiveUp, Retry, GoTo
<1>4. CASE run_loop \/ tool_write_file \/ tool_done \/ EndTurn
  BY <1>0, <1>1, <1>4 DEF run_loop, tool_write_file, tool_done, Dispatch, EndTurn
\* The last check looks at what was edited after done() accepted.
<1>5. CASE run_coding_agent
  BY <1>5 DEF run_coding_agent, FinalErrors, TypeErrors
<1>6. CASE UNCHANGED agentVars
  BY <1>0, <1>6 DEF agentVars
<1>7. QED
  BY <1>2, <1>3, <1>4, <1>5, <1>6 DEF AgentsNext

LEMMA AgentsInvariant == AgentsSpec => []AgentsInv
<1>1. AgentsInit => AgentsInv
  <2> SUFFICES ASSUME AgentsInit PROVE AgentsInv
    OBVIOUS
  <2>1. TurnLimit \in Nat \ {0} /\ NewGate \in Gates
    BY TurnLimitPositive, NewGateTyped, AgentAssumption
  <2>2. NewRun \in StateFiles /\ NoPlan \in Plans
    BY DEF AgentsInit, NewRun, NoPlan, Unreviewed, StateFiles, Plans
  <2>3. MaxToolCalls \in Nat /\ MaxSessions \in Nat /\ MaxAgentFaults \in Nat
    BY AgentAssumption DEF AgentAssumption
  <2>4. AgentsTypeOK
    <3>1. /\ scaffold \in [sound : BOOLEAN, types : BOOLEAN] /\ compiler \in BOOLEAN
          /\ interactive \in BOOLEAN
      BY DEF AgentsInit
    <3>2. /\ stage \in Stages /\ stopAfter \in {"product", "hld", "hld_v", "never"}
          /\ report \in {"none", "clean", "incomplete"}
      BY DEF AgentsInit, Stages
    <3>3. /\ saved \in StateFiles /\ loaded \in StateFiles /\ plan \in Plans /\ gate \in Gates
      BY <2>1, <2>2 DEF AgentsInit
    <3>4. /\ drafts \in Nat /\ turn \in 1 .. TurnLimit /\ pending \in 0 .. MaxToolCalls
          /\ sessions \in 0 .. MaxSessions /\ agentFaults \in 0 .. MaxAgentFaults
      BY <2>1, <2>3 DEF AgentsInit
    <3>5. QED
      BY <3>1, <3>2, <3>3, <3>4 DEF AgentsTypeOK
  <2>5. PhaseKnows
    BY DEF AgentsInit, PhaseKnows, SoundFile, SameFile, NewRun, NoPlan, Unreviewed
  <2>6. FailedCalls /\ CleanBuilds
    BY DEF AgentsInit, FailedCalls, CleanBuilds, NewGate
  <2>7. QED
    BY <2>4, <2>5, <2>6 DEF AgentsInv
<1>2. AgentsInv /\ [AgentsNext]_agentVars => AgentsInv'
  BY AgentsTypeStep, PhaseKnowsStep, FailedCallsStep, CleanBuildsStep DEF AgentsInv
<1>3. QED
  BY <1>1, <1>2, PTL DEF AgentsSpec

\* The state file, the loops' turns and the gate of done() keep their types and
\* bounds.
THEOREM AgentsTypeCorrect == AgentsSpec => []AgentsTypeOK
<1>1. AgentsInv => AgentsTypeOK
  BY DEF AgentsInv
<1>2. QED
  BY <1>1, AgentsInvariant, PTL

\* However often the CLI was stopped, killed and resumed, the app is coded from the
\* plan on file, which goes back to the design the reviewer saw and was revised
\* once if there were findings, else never (cli/chat_local.py).
THEOREM PlansRevisedOnce == AgentsSpec => []PlanRevisedOnce
<1>1. AgentsInv => PlanRevisedOnce
  BY DEF AgentsInv, PhaseKnows, SoundFile, PlanRevisedOnce
<1>2. QED
  BY <1>1, AgentsInvariant, PTL

\* A coding run that reports nothing incomplete leaves a scaffold that type checks,
\* whatever the agent edited after done() accepted (w_coding_agent/agent.py).
THEOREM CleanRunsBuild == AgentsSpec => []CleanBuilds
<1>1. AgentsInv => CleanBuilds
  BY DEF AgentsInv
<1>2. QED
  BY <1>1, AgentsInvariant, PTL
===============================================================================
