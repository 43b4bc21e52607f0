-------------------------- MODULE CronRunnerProofs --------------------------
(***************************************************************************)
(* Proofs about CronRunner, for every number of rows, instances, drains    *)
(* and attempts and for every bound on the disruptions.                    *)
(***************************************************************************)
EXTENDS CronRunner, FiniteSetTheorems, TLAPS

\* Which step may touch the instances, and how.
LEMMA ProcessStep == ProcessOK /\ [Next]_vars => ProcessOK'
<1> SUFFICES ASSUME ProcessOK, [Next]_vars PROVE ProcessOK'
  OBVIOUS
<1>1. CASE UNCHANGED process
  BY <1>1 DEF ProcessOK, process
<1>2. ASSUME NEW r \in Rows, CronTick(r) PROVE ProcessOK'
  BY <1>2 DEF ProcessOK, CronTick
<1>3. ASSUME NEW i \in Instances, Stop(i) \/ Gone(i) PROVE ProcessOK'
  BY <1>3 DEF ProcessOK, Stop, Gone, Phases
<1>4. ASSUME NEW d \in Drains, Start(Host[d], d) \/ Notified(d) PROVE ProcessOK'
  BY <1>4 DEF ProcessOK, Start, Notified, Phases
<1>5. ASSUME NEW d \in Drains, Return(d) \/ Reject(d) PROVE ProcessOK'
  <2>1. Host[d] \in Instances
    BY ConstantsOK
  <2>2. CASE Return(d)
    BY <2>2 DEF ProcessOK, Return, Phases
  <2>3. CASE Reject(d)
    BY <2>1, <2>3 DEF ProcessOK, Reject, Phases
  <2>4. QED
    BY <1>5, <2>2, <2>3
<1>6. ASSUME NEW d \in Drains, DrainStep(d) PROVE UNCHANGED process \/ Return(d) \/ Reject(d)
  BY <1>6 DEF DrainStep, Sweep, Claim, NextRow, Body, Settle, Retry, GiveUp, NextOf, process
<1>7. ASSUME NEW r \in Rows, Enqueue(r) \/ BackoffEnds(r) \/ LeaseEnds(r) \/ LeaseOverruns(r)
      PROVE UNCHANGED process
  BY <1>7 DEF Enqueue, BackoffEnds, LeaseEnds, LeaseOverruns, Expire, process
<1>8. ASSUME NEW d \in Drains, Poll(d) PROVE UNCHANGED process
  BY <1>8 DEF Poll
<1>9. ASSUME NEW i \in Instances, Exit(i) \/ Crash(i) PROVE Gone(i)
  BY <1>9 DEF Exit, Crash
<1>10. CASE UNCHANGED vars
  BY <1>10, <1>1 DEF vars
<1>11. QED
  BY <1>1, <1>2, <1>3, <1>4, <1>5, <1>6, <1>7, <1>8, <1>9, <1>10 DEF Next

\* A step leaves the table alone, or does one of these things to it.
LEMMA TableStep == TableOK /\ [Next]_vars => TableOK'
<1> SUFFICES ASSUME TableOK, [Next]_vars PROVE TableOK'
  OBVIOUS
<1>1. CASE UNCHANGED table
  BY <1>1 DEF TableOK, table
<1>2. ASSUME NEW r \in Rows, Insert(r) PROVE TableOK'
  BY <1>2 DEF TableOK, Insert, Statuses
<1>3. ASSUME NEW r \in Rows, BackoffEnds(r) \/ Expire(r) PROVE TableOK'
  BY <1>3 DEF TableOK, BackoffEnds, Expire
<1>4. CASE SweepRows
  BY <1>4 DEF TableOK, SweepRows, Statuses
<1>5. CASE ClaimRows
  <2>1. status' \in [Rows -> Statuses] /\ attempts' \in [Rows -> Nat]
    BY <1>5 DEF TableOK, ClaimRows, Statuses
  <2>2. expired' \in [Rows -> BOOLEAN] /\ UNCHANGED visible
    BY <1>5 DEF TableOK, ClaimRows
  <2>3. QED
    BY <2>1, <2>2 DEF TableOK
<1>6. ASSUME NEW d \in Drains, RequeueRow(d) PROVE TableOK'
  BY <1>6 DEF TableOK, RequeueRow, Statuses
<1>7. ASSUME NEW r, NEW s \in {"done", "failed"}, SetFinal(r, s) PROVE TableOK'
  <2>1. status' \in [Rows -> Statuses]
    BY <1>7 DEF TableOK, SetFinal, Statuses
  <2>2. QED
    BY <1>7, <2>1 DEF TableOK, SetFinal
<1>8. ASSUME NEW r \in Rows, Enqueue(r) \/ CronTick(r) PROVE Insert(r)
  BY <1>8 DEF Enqueue, CronTick
<1>9. ASSUME NEW r \in Rows, LeaseEnds(r) \/ LeaseOverruns(r) PROVE Expire(r)
  BY <1>9 DEF LeaseEnds, LeaseOverruns
<1>10. ASSUME NEW i \in Instances, Stop(i) \/ Exit(i) \/ Crash(i) PROVE UNCHANGED table
  BY <1>10 DEF Stop, Exit, Crash, Gone
<1>11. ASSUME NEW d \in Drains, Start(Host[d], d) \/ Notified(d) \/ Poll(d) \/ NextRow(d) \/ Body(d)
       PROVE  UNCHANGED table
  BY <1>11 DEF Start, Notified, Poll, NextRow, Body
<1>12. ASSUME NEW d \in Drains, Sweep(d) \/ Claim(d)
       PROVE  UNCHANGED table \/ SweepRows \/ ClaimRows
  BY <1>12 DEF Sweep, Claim, table
<1>13. ASSUME NEW d \in Drains, Settle(d) \/ Retry(d) \/ GiveUp(d)
       PROVE  \/ UNCHANGED table
              \/ RequeueRow(d)
              \/ \E s \in {"done", "failed"} : SetFinal(cur[d], s)
  BY <1>13 DEF Settle, Retry, GiveUp, table
<1>14. CASE UNCHANGED vars
  BY <1>14, <1>1 DEF vars
<1>15. QED
  BY <1>1, <1>2, <1>3, <1>4, <1>5, <1>6, <1>7, <1>8, <1>9, <1>10, <1>11, <1>12, <1>13,
     <1>14 DEF Next, DrainStep

\* The same for the drains; a claim takes its attempt numbers from the table.
LEMMA DrainTypeStep == DrainOK /\ TableOK /\ [Next]_vars => DrainOK'
<1> SUFFICES ASSUME DrainOK, TableOK, [Next]_vars PROVE DrainOK'
  OBVIOUS
<1>1. CASE UNCHANGED drain
  BY <1>1 DEF DrainOK, drain
<1>2. ASSUME NEW i \in Instances, Gone(i) PROVE DrainOK'
  BY <1>2 DEF DrainOK, Gone, DrainPcs
<1>3. ASSUME NEW d \in Drains, Start(Host[d], d) \/ Notified(d) \/ Poll(d) PROVE DrainOK'
  BY <1>3 DEF DrainOK, Start, Notified, Poll, DrainPcs
<1>4. ASSUME NEW d \in Drains, Reject(d) PROVE DrainOK'
  BY <1>4 DEF DrainOK, Reject, DrainPcs
<1>5. ASSUME NEW d \in Drains, Return(d) \/ Sweep(d) \/ Body(d) PROVE DrainOK'
  BY <1>5 DEF DrainOK, Return, Sweep, Body, DrainPcs
<1>6. ASSUME NEW d \in Drains, Claim(d) PROVE DrainOK'
  <2>1. Oldest \subseteq Rows
    BY DEF Oldest
  <2>2. CASE Return(d) \/ Reject(d)
    BY <2>2, <1>4, <1>5
  <2>3. CASE /\ batch' = [batch EXCEPT ![d] = Oldest]
             /\ got' = [got EXCEPT ![d] = [r \in Rows |-> IF r \in Oldest THEN attempts[r] + 1
                                                                         ELSE 0]]
             /\ pc' = [pc EXCEPT ![d] = "next"]
             /\ UNCHANGED cur
    BY <2>1, <2>3 DEF DrainOK, TableOK, DrainPcs
  <2>4. QED
    BY <1>6, <2>2, <2>3 DEF Claim
<1>7. ASSUME NEW d \in Drains, NextRow(d) PROVE DrainOK'
  BY <1>7 DEF DrainOK, NextRow, DrainPcs
<1>8. ASSUME NEW d \in Drains, NextOf(d) PROVE DrainOK'
  BY <1>8 DEF DrainOK, NextOf, DrainPcs
<1>9. ASSUME NEW d \in Drains, Settle(d) PROVE DrainOK'
  <2>1. CASE NextOf(d)
    BY <2>1, <1>8
  <2>2. CASE pc' = [pc EXCEPT ![d] = "caught"] /\ UNCHANGED <<cur, batch, got>>
    BY <2>2 DEF DrainOK, DrainPcs
  <2>3. QED
    BY <1>9, <2>1, <2>2 DEF Settle
<1>10. ASSUME NEW d \in Drains, Retry(d) \/ GiveUp(d) PROVE NextOf(d) \/ Reject(d)
  BY <1>10 DEF Retry, GiveUp
<1>11. ASSUME NEW r \in Rows, Enqueue(r) \/ CronTick(r) \/ BackoffEnds(r) \/ LeaseEnds(r)
                                 \/ LeaseOverruns(r)
       PROVE  UNCHANGED drain
  BY <1>11 DEF Enqueue, CronTick, BackoffEnds, LeaseEnds, LeaseOverruns, Expire, drain
<1>12. ASSUME NEW i \in Instances, Stop(i) \/ Exit(i) \/ Crash(i)
       PROVE  UNCHANGED drain \/ Gone(i)
  BY <1>12 DEF Stop, Exit, Crash
<1>13. CASE UNCHANGED vars
  BY <1>13, <1>1 DEF vars
<1>14. QED
  BY <1>1, <1>2, <1>3, <1>4, <1>5, <1>6, <1>7, <1>8, <1>9, <1>10, <1>11, <1>12, <1>13
     DEF Next, DrainStep

\* The histories and the two bounds.  A requeue records an attempt number
\* that the drain holds.
LEMMA HistoryStep == HistoryOK /\ DrainOK /\ [Next]_vars => HistoryOK'
<1> SUFFICES ASSUME HistoryOK, DrainOK, [Next]_vars PROVE HistoryOK'
  OBVIOUS
<1> DEFINE Budgets == disruptions' \in 0 .. MaxDisruptions /\ dbErrors' \in 0 .. MaxDbErrors
<1>1. (UNCHANGED disruptions \/ Disrupt) /\ (UNCHANGED dbErrors \/ DbError) => Budgets
  BY ConstantsOK DEF HistoryOK, Disrupt, DbError
<1>2. CASE UNCHANGED history /\ Budgets
  BY <1>2 DEF HistoryOK, history
<1>3. ASSUME NEW r \in Rows, Enqueue(r) \/ CronTick(r) \/ BackoffEnds(r) \/ LeaseEnds(r)
      PROVE  UNCHANGED history /\ Budgets
  BY <1>1, <1>3 DEF Enqueue, CronTick, BackoffEnds, LeaseEnds, Expire, history, budget
<1>4. ASSUME NEW r \in Rows, LeaseOverruns(r) PROVE HistoryOK'
  <2>1. Budgets
    BY <1>1, <1>4 DEF LeaseOverruns
  <2>2. QED
    BY <1>4, <2>1 DEF HistoryOK, LeaseOverruns, Expire
<1>5. ASSUME NEW i \in Instances, Stop(i) \/ Exit(i) \/ Crash(i)
      PROVE  UNCHANGED history /\ Budgets
  BY <1>1, <1>5 DEF Stop, Exit, Crash, Gone, history, budget
<1>6. ASSUME NEW d \in Drains, Start(Host[d], d) \/ Notified(d) \/ Poll(d) \/ NextRow(d) \/ Body(d)
      PROVE  UNCHANGED history /\ Budgets
  BY <1>1, <1>6 DEF Start, Notified, Poll, NextRow, Body, history, budget
<1>7. ASSUME NEW d \in Drains, Sweep(d) PROVE HistoryOK'
  <2>1. Budgets
    BY <1>1, <1>7 DEF Sweep
  <2>2. UNCHANGED <<retried, overran>> /\ (SweepRows \/ UNCHANGED sweeps)
    BY <1>7 DEF Sweep
  <2>3. sweeps' \in [Rows -> Nat]
    <3>1. \A r \in Rows : sweeps[r] \in Nat /\ sweeps[r] + 1 \in Nat
      BY DEF HistoryOK
    <3>2. CASE SweepRows
      BY <3>1, <3>2, Zenon DEF SweepRows
    <3>3. QED
      BY <2>2, <3>2 DEF HistoryOK
  <2>4. QED
    BY <2>1, <2>2, <2>3 DEF HistoryOK
<1>8. ASSUME NEW d \in Drains, Claim(d) \/ Settle(d) \/ GiveUp(d)
      PROVE  UNCHANGED history /\ Budgets
  BY <1>1, <1>8 DEF Claim, Settle, GiveUp, Return, history
<1>9. ASSUME NEW d \in Drains, Retry(d) PROVE HistoryOK'
  <2>1. Budgets
    BY <1>1, <1>9 DEF Retry
  <2>2. UNCHANGED <<sweeps, overran>> /\ (RequeueRow(d) \/ UNCHANGED retried)
    BY <1>9 DEF Retry
  <2>3. retried' \in [Rows -> SUBSET Nat]
    BY <2>2 DEF HistoryOK, DrainOK, RequeueRow
  <2>4. QED
    BY <2>1, <2>2, <2>3 DEF HistoryOK
<1>10. CASE UNCHANGED vars
  BY <1>10 DEF vars, history, budget, HistoryOK
<1>11. QED
  BY <1>2, <1>3, <1>4, <1>5, <1>6, <1>7, <1>8, <1>9, <1>10 DEF Next, DrainStep

LEMMA InitTypeOK == Init => TypeOK
<1>1. Init => TableOK
  BY DEF Init, TableOK, Statuses
<1>2. Init => ProcessOK
  BY DEF Init, ProcessOK, Phases
<1>3. Init => DrainOK
  BY DEF Init, DrainOK, DrainPcs
<1>4. Init => HistoryOK
  <2>1. 0 \in 0 .. MaxDisruptions /\ 0 \in 0 .. MaxDbErrors
    BY ConstantsOK
  <2>2. [r \in Rows |-> {}] \in [Rows -> SUBSET Nat] /\ [r \in Rows |-> 0] \in [Rows -> Nat]
    OBVIOUS
  <2>3. QED
    BY <2>1, <2>2 DEF Init, HistoryOK
<1>5. QED
  BY <1>1, <1>2, <1>3, <1>4 DEF TypeOK

LEMMA TypeStep == TypeOK /\ [Next]_vars => TypeOK'
BY ProcessStep, TableStep, DrainTypeStep, HistoryStep DEF TypeOK

\* Every variable has its type, always.
THEOREM TypeCorrect == Spec => []TypeOK
BY InitTypeOK, TypeStep, PTL DEF Spec

-----------------------------------------------------------------------------
(***************************************************************************)
(* ExclusiveDispatch.  Disjoint batches are not inductive by themselves:   *)
(* a claim could take a row that another drain holds.  It cannot, because  *)
(* a held row is never pending and is not seen by a sweep, as long as no   *)
(* lease has overrun.                                                      *)
(***************************************************************************)

\* What a drain holds at each point of drainOnce; an instance that is down
\* runs no drain.
DrainShape ==
    \A d \in Drains :
        /\ pc[d] \in {"idle", "sweep", "claim"} => batch[d] = {} /\ cur[d] = NoRow
        /\ pc[d] = "next" => cur[d] = NoRow
        /\ pc[d] \in {"body", "unknown", "done", "caught"} => cur[d] \in Rows \ batch[d]
        /\ phase[Host[d]] = "down" => pc[d] = "idle" /\ ~listening[Host[d]]

\* The row a drain holds is in processing under a lease that has not run
\* out; in the catch block the row may already be final, when the update
\* took effect although its call rejected.
Locked(d, r) ==
    /\ ~expired[r]
    /\ \/ status[r] = "processing"
       \/ pc[d] = "caught" /\ r = cur[d] /\ status[r] \in {"done", "failed"}

HeldIsLocked == \A d \in Drains : \A r \in Holds(d) : Locked(d, r)

Disjoint == \A d, e \in Drains : d # e => Holds(d) \cap Holds(e) = {}

DispatchInv == TypeOK /\ DrainShape /\ (~overran => HeldIsLocked /\ Disjoint)

LEMMA ShapeStep == DrainOK /\ ProcessOK /\ DrainShape /\ [Next]_vars => DrainShape'
<1> SUFFICES ASSUME DrainOK, ProcessOK, DrainShape, [Next]_vars PROVE DrainShape'
  OBVIOUS
<1>0. Host \in [Drains -> Instances] /\ NoRow \notin Rows
  BY ConstantsOK
<1>1. CASE UNCHANGED <<pc, cur, batch, phase, listening>>
  BY <1>1 DEF DrainShape
<1>2. ASSUME NEW i \in Instances, Gone(i) PROVE DrainShape'
  BY <1>0, <1>2 DEF DrainShape, Gone, ProcessOK
<1>3. ASSUME NEW i \in Instances, Stop(i) PROVE DrainShape'
  BY <1>0, <1>3 DEF DrainShape, Stop, ProcessOK, drain
<1>4. ASSUME NEW d \in Drains, Start(Host[d], d) PROVE DrainShape'
  BY <1>0, <1>4 DEF DrainShape, Start, ProcessOK, DrainOK
<1>5. ASSUME NEW d \in Drains, Notified(d) \/ Poll(d) PROVE DrainShape'
  BY <1>0, <1>5 DEF DrainShape, Notified, Poll, DrainOK, process
<1>6. ASSUME NEW d \in Drains, pc[d] = "claim", Return(d) PROVE DrainShape'
  BY <1>0, <1>6 DEF DrainShape, Return, DrainOK, ProcessOK
<1>7. ASSUME NEW d \in Drains, pc[d] # "idle", Reject(d) PROVE DrainShape'
  BY <1>0, <1>7 DEF DrainShape, Reject, DrainOK, ProcessOK
<1>8. ASSUME NEW d \in Drains, Sweep(d) \/ NextRow(d) \/ Body(d) PROVE DrainShape'
  BY <1>0, <1>8 DEF DrainShape, Sweep, NextRow, Body, DrainOK, process
<1>9. ASSUME NEW d \in Drains, pc[d] \in {"unknown", "done", "caught"}, NextOf(d)
      PROVE  DrainShape'
  BY <1>0, <1>9 DEF DrainShape, NextOf, DrainOK, process
<1>10. ASSUME NEW d \in Drains, Claim(d) PROVE DrainShape'
  <2>1. CASE pc' = [pc EXCEPT ![d] = "next"] /\ UNCHANGED <<process, cur>>
             /\ batch' = [batch EXCEPT ![d] = Oldest]
    BY <1>0, <1>10, <2>1 DEF DrainShape, DrainOK, process, Claim
  <2>2. QED
    BY <1>6, <1>7, <1>10, <2>1 DEF Claim
<1>11. ASSUME NEW d \in Drains, Settle(d) PROVE DrainShape'
  <2>1. CASE pc' = [pc EXCEPT ![d] = "caught"] /\ UNCHANGED <<process, cur, batch>>
    BY <1>0, <1>11, <2>1 DEF DrainShape, DrainOK, process, Settle
  <2>2. QED
    BY <1>9, <1>11, <2>1 DEF Settle
<1>12. ASSUME NEW d \in Drains, Retry(d) \/ GiveUp(d) PROVE DrainShape'
  BY <1>7, <1>9, <1>12 DEF Retry, GiveUp
<1>13. ASSUME NEW r \in Rows, Enqueue(r) \/ CronTick(r) \/ BackoffEnds(r) \/ LeaseEnds(r)
                                 \/ LeaseOverruns(r)
       PROVE  UNCHANGED <<pc, cur, batch, phase, listening>>
  BY <1>13 DEF Enqueue, CronTick, BackoffEnds, LeaseEnds, LeaseOverruns, Expire, drain, process
<1>14. ASSUME NEW i \in Instances, Exit(i) \/ Crash(i) PROVE Gone(i)
  BY <1>14 DEF Exit, Crash
<1>15. CASE UNCHANGED vars
  BY <1>15, <1>1 DEF vars, drain, process
<1>16. QED
  BY <1>1, <1>2, <1>3, <1>4, <1>5, <1>8, <1>10, <1>11, <1>12, <1>13, <1>14, <1>15
     DEF Next, DrainStep

\* If no drain takes a new row and the rows still held stay locked, the rest
\* of the invariant is kept.
LEMMA LockKept ==
    ASSUME HeldIsLocked, Disjoint,
           \A d \in Drains : Holds(d)' \subseteq Holds(d),
           \A d \in Drains : \A r \in Holds(d)' : Locked(d, r) => Locked(d, r)'
    PROVE  HeldIsLocked' /\ Disjoint'
BY DEF HeldIsLocked, Disjoint

\* A step that leaves the drains alone: producers and clocks.
LEMMA LockTable ==
    ASSUME TypeOK, HeldIsLocked, Disjoint, ~overran', NEW r \in Rows,
           \/ Enqueue(r) \/ CronTick(r) \/ BackoffEnds(r) \/ LeaseEnds(r)
           \/ LeaseOverruns(r)
    PROVE  HeldIsLocked' /\ Disjoint'
<1>1. UNCHANGED drain /\ r \in Nat
  BY ConstantsOK DEF Enqueue, CronTick, BackoffEnds, LeaseEnds, LeaseOverruns, Expire
<1>2. \A d \in Drains : Holds(d)' = Holds(d)
  BY <1>1 DEF Holds, drain
<1>3. ASSUME NEW d \in Drains, NEW s \in Holds(d)', Locked(d, s) PROVE Locked(d, s)'
  <2>1. CASE Insert(r)
    <3>1. status[r] = "absent" /\ s # r
      BY <1>1, <1>3, <2>1 DEF Insert, Locked
    <3>2. QED
      BY <1>1, <1>3, <2>1, <3>1 DEF Insert, Locked, drain, TypeOK, TableOK
  <2>2. CASE BackoffEnds(r)
    BY <1>1, <1>3, <2>2 DEF BackoffEnds, Locked, drain
  <2>3. CASE LeaseEnds(r)
    <3>1. s # r
      BY <1>2, <1>3, <2>3 DEF LeaseEnds, Held
    <3>2. QED
      BY <1>1, <1>3, <2>3, <3>1 DEF LeaseEnds, Expire, Locked, drain, TypeOK, TableOK
  <2>4. ~LeaseOverruns(r)
    BY DEF LeaseOverruns
  <2>5. QED
    BY <2>1, <2>2, <2>3, <2>4 DEF Enqueue, CronTick
<1>4. QED
  BY <1>2, <1>3, LockKept

\* The life of an instance: drains start with nothing, a dead instance holds
\* nothing.
LEMMA LockProcess ==
    ASSUME TypeOK, DrainShape, HeldIsLocked, Disjoint,
           \/ \E i \in Instances : Stop(i) \/ Exit(i) \/ Crash(i)
           \/ \E d \in Drains : Start(Host[d], d) \/ Notified(d) \/ Poll(d)
    PROVE  HeldIsLocked' /\ Disjoint'
<1>1. ASSUME NEW i \in Instances, Stop(i) PROVE HeldIsLocked' /\ Disjoint'
  BY <1>1 DEF Stop, HeldIsLocked, Disjoint, Holds, Locked, table, drain
<1>2. ASSUME NEW i \in Instances, Gone(i) PROVE HeldIsLocked' /\ Disjoint'
  <2>1. \A d \in Drains : \/ Holds(d)' = {}
                          \/ Holds(d)' = Holds(d) /\ pc'[d] = pc[d] /\ cur'[d] = cur[d]
    BY <1>2 DEF Gone, Holds
  <2>2. UNCHANGED <<status, expired>>
    BY <1>2 DEF Gone, table
  <2>3. QED
    BY <2>1, <2>2, LockKept DEF Locked
<1>3. ASSUME NEW d \in Drains, Start(Host[d], d) \/ Notified(d) \/ Poll(d)
      PROVE  HeldIsLocked' /\ Disjoint'
  <2>1. pc[d] = "idle" /\ UNCHANGED <<status, expired, cur, batch>>
    BY <1>3 DEF Start, Notified, Poll, DrainShape, table
  <2>2. Holds(d) = {}
    BY <2>1 DEF DrainShape, Holds
  <2>3. \A e \in Drains : Holds(e)' = Holds(e)
    BY <2>1 DEF Holds
  <2>4. \A e \in Drains : e # d => pc'[e] = pc[e]
    BY <1>3 DEF Start, Notified, Poll, TypeOK, DrainOK
  <2>5. QED
    BY <2>1, <2>2, <2>3, <2>4, LockKept DEF Locked
<1>4. QED
  BY <1>1, <1>2, <1>3 DEF Exit, Crash

\* The reads of drainOnce: sweeping, picking the next row, running its body.
LEMMA LockReads ==
    ASSUME TypeOK, DrainShape, HeldIsLocked, Disjoint, ~overran, NEW d \in Drains,
           Sweep(d) \/ NextRow(d) \/ Body(d)
    PROVE  HeldIsLocked' /\ Disjoint'
<1>1. ASSUME Sweep(d) PROVE HeldIsLocked' /\ Disjoint'
  <2>1. \A e \in Drains : Holds(e)' = Holds(e)
    BY <1>1 DEF Sweep, Holds
  <2>2. ASSUME NEW e \in Drains, NEW r \in Holds(e) PROVE r \in Rows /\ ~expired[r]
    BY <2>2 DEF HeldIsLocked, Locked, Holds, TypeOK, DrainOK
  <2>3. ASSUME NEW e \in Drains, NEW r \in Holds(e) PROVE status'[r] = status[r] /\ ~expired'[r]
    BY <1>1, <2>2, <2>3 DEF Sweep, SweepRows, Stale, table
  <2>4. \A e \in Drains : e # d => pc'[e] = pc[e] /\ cur'[e] = cur[e]
    BY <1>1 DEF Sweep, TypeOK, DrainOK
  <2>5. Holds(d) = {}
    BY <1>1 DEF Sweep, DrainShape, Holds
  <2>6. QED
    BY <2>1, <2>3, <2>4, <2>5, LockKept DEF Locked
<1>2. ASSUME NextRow(d) PROVE HeldIsLocked' /\ Disjoint'
  <2>1. PICK r \in batch[d] : /\ cur' = [cur EXCEPT ![d] = r]
                             /\ batch' = [batch EXCEPT ![d] = @ \ {r}]
    BY <1>2 DEF NextRow
  <2>2. cur[d] = NoRow /\ NoRow \notin Rows /\ r \in Rows
    BY <1>2, ConstantsOK DEF NextRow, DrainShape, TypeOK, DrainOK
  <2>3. \A e \in Drains : Holds(e)' = Holds(e)
    BY <2>1, <2>2 DEF Holds, TypeOK, DrainOK
  <2>4. UNCHANGED <<status, expired>>
    BY <1>2 DEF NextRow, table
  <2>5. pc[d] = "next" /\ \A e \in Drains : e # d => pc'[e] = pc[e] /\ cur'[e] = cur[e]
    BY <1>2, <2>1 DEF NextRow, TypeOK, DrainOK
  <2>6. QED
    BY <2>3, <2>4, <2>5, LockKept DEF Locked
<1>3. ASSUME Body(d) PROVE HeldIsLocked' /\ Disjoint'
  <2>1. UNCHANGED <<status, expired, cur, batch>> /\ pc[d] = "body"
    BY <1>3 DEF Body, table
  <2>2. \A e \in Drains : e # d => pc'[e] = pc[e]
    BY <1>3 DEF Body, TypeOK, DrainOK
  <2>3. QED
    BY <2>1, <2>2, LockKept DEF Locked, Holds
<1>4. QED
  BY <1>1, <1>2, <1>3

\* A claim takes pending rows, and no held row is pending.
LEMMA LockClaim ==
    ASSUME TypeOK, DrainShape, HeldIsLocked, Disjoint, NEW d \in Drains, Claim(d)
    PROVE  HeldIsLocked' /\ Disjoint'
<1>1. Holds(d) = {} /\ pc[d] = "claim"
  BY DEF Claim, DrainShape, Holds
<1>2. NoRow \notin Rows
  BY ConstantsOK
<1>3. ASSUME NEW e \in Drains, NEW r \in Holds(e) PROVE r \in Rows \ Oldest
  BY <1>3 DEF HeldIsLocked, Locked, Holds, Oldest, Claimable, TypeOK, DrainOK
<1>4. ASSUME NEW e \in Drains, NEW r \in Holds(e)
      PROVE  status'[r] = status[r] /\ expired'[r] = expired[r]
  BY <1>3, <1>4 DEF Claim, ClaimRows, table
<1>5. \A e \in Drains : e # d => /\ pc'[e] = pc[e] /\ cur'[e] = cur[e]
                               /\ batch'[e] = batch[e]
  BY DEF Claim, Return, Reject, TypeOK, DrainOK
<1>6. \A e \in Drains : e # d => Holds(e)' = Holds(e)
  BY <1>5 DEF Holds
<1>7. CASE Return(d) \/ Reject(d)
  <2>1. Holds(d)' = {}
    BY <1>1, <1>7 DEF Holds, Return, Reject, TypeOK, DrainOK
  <2>2. QED
    BY <1>4, <1>5, <1>6, <2>1, LockKept DEF Locked
<1>8. CASE ClaimRows /\ batch' = [batch EXCEPT ![d] = Oldest] /\ UNCHANGED cur
  <2>1. Holds(d)' = Oldest
    BY <1>1, <1>8 DEF Holds, TypeOK, DrainOK, DrainShape
  <2>2. \A r \in Oldest : r \in Rows /\ status'[r] = "processing" /\ ~expired'[r]
    BY <1>8 DEF ClaimRows, Oldest
  <2>3. \A e \in Drains : e # d => Holds(e) \cap Oldest = {}
    BY <1>3
  <2>4. HeldIsLocked'
    BY <1>4, <1>5, <1>6, <2>1, <2>2 DEF HeldIsLocked, Locked
  <2>5. Disjoint'
    BY <1>6, <2>1, <2>3 DEF Disjoint
  <2>6. QED
    BY <2>4, <2>5
<1>9. QED
  BY <1>7, <1>8 DEF Claim

\* The updates at the end of runJob touch only the row of this drain, and the
\* drain lets go of it, or keeps it in the catch block.
LEMMA LockWrites ==
    ASSUME TypeOK, DrainShape, HeldIsLocked, Disjoint, NEW d \in Drains,
           Settle(d) \/ Retry(d) \/ GiveUp(d)
    PROVE  HeldIsLocked' /\ Disjoint'
<1>1. cur[d] \in Rows \ batch[d] /\ NoRow \notin Rows
  BY ConstantsOK DEF Settle, Retry, GiveUp, DrainShape
<1>2. \/ UNCHANGED <<status, expired>>
      \/ /\ \E s \in {"pending", "done", "failed"} : status' = [status EXCEPT ![cur[d]] = s]
         /\ expired' = [expired EXCEPT ![cur[d]] = FALSE]
  BY DEF Settle, Retry, GiveUp, SetFinal, RequeueRow, table
<1>3. \A e \in Drains : \A r \in Holds(e) :
          r # cur[d] => status'[r] = status[r] /\ expired'[r] = expired[r]
  <2>1. ASSUME NEW e \in Drains, NEW r \in Holds(e) PROVE r \in Rows
    BY <2>1 DEF Holds, TypeOK, DrainOK
  <2>2. ASSUME NEW r \in Rows, r # cur[d]
        PROVE  status'[r] = status[r] /\ expired'[r] = expired[r]
    BY <1>2, <2>2 DEF TypeOK, TableOK
  <2>3. QED
    BY <2>1, <2>2
<1>4. \A e \in Drains : e # d => cur[d] \notin Holds(e)
  BY <1>1 DEF Disjoint, Holds
<1>5. \A e \in Drains : e # d => /\ pc'[e] = pc[e] /\ cur'[e] = cur[e]
                               /\ batch'[e] = batch[e]
  BY DEF Settle, Retry, GiveUp, NextOf, Reject, TypeOK, DrainOK
<1>6. \A e \in Drains : e # d => Holds(e)' = Holds(e)
  BY <1>5 DEF Holds
<1>7. CASE NextOf(d) \/ Reject(d)
  <2>1. Holds(d)' \subseteq Holds(d) \ {cur[d]} /\ cur'[d] = NoRow
    BY <1>1, <1>7 DEF Holds, NextOf, Reject, TypeOK, DrainOK
  <2>2. ASSUME NEW r \in Holds(d)' PROVE status'[r] = "processing" /\ ~expired'[r]
    BY <1>3, <2>1, <2>2 DEF HeldIsLocked, Locked
  <2>3. QED
    BY <1>3, <1>4, <1>5, <1>6, <2>1, <2>2, LockKept DEF Locked
<1>8. CASE /\ pc' = [pc EXCEPT ![d] = "caught"] /\ UNCHANGED <<cur, batch>>
           /\ (\E s \in {"done", "failed"} : SetFinal(cur[d], s)) \/ UNCHANGED table
  <2>1. Holds(d)' = Holds(d) /\ pc'[d] = "caught"
    BY <1>8 DEF Holds, TypeOK, DrainOK
  <2>2. Locked(d, cur[d])'
    <3>1. Locked(d, cur[d])
      BY <1>1 DEF HeldIsLocked, Holds
    <3>2. QED
      BY <1>1, <1>8, <2>1, <3>1 DEF Locked, SetFinal, table, TypeOK, TableOK
  <2>3. \A r \in Holds(d) : r # cur[d] => status[r] = "processing" /\ ~expired[r]
    BY DEF HeldIsLocked, Locked
  <2>4. \A r \in Holds(d)' : Locked(d, r)'
    BY <1>3, <1>8, <2>1, <2>2, <2>3 DEF Locked
  <2>5. QED
    BY <1>3, <1>4, <1>5, <1>6, <2>1, <2>4, LockKept DEF Locked
<1>9. QED
  BY <1>7, <1>8 DEF Settle, Retry, GiveUp

LEMMA InitDispatchInv == Init => DispatchInv
<1>1. Init => TypeOK
  BY InitTypeOK
<1>2. ASSUME Init PROVE DrainShape /\ HeldIsLocked /\ Disjoint
  <2>1. \A d \in Drains : Holds(d) = {}
    BY <1>2 DEF Init, Holds
  <2>2. HeldIsLocked /\ Disjoint
    BY <2>1 DEF HeldIsLocked, Disjoint
  <2>3. DrainShape
    BY <1>2, ConstantsOK DEF Init, DrainShape
  <2>4. QED
    BY <2>2, <2>3
<1>3. QED
  BY <1>1, <1>2 DEF DispatchInv

LEMMA OverranStays == [Next]_vars /\ overran => overran'
BY DEF Next, Enqueue, CronTick, BackoffEnds, LeaseEnds, LeaseOverruns, Stop, Exit, Crash,
   Gone, Start, Notified, Poll, DrainStep, Sweep, Claim, NextRow, Body, Settle, Retry, GiveUp,
   history, vars

LEMMA DispatchStep == DispatchInv /\ [Next]_vars => DispatchInv'
<1> SUFFICES ASSUME DispatchInv, [Next]_vars PROVE DispatchInv'
  OBVIOUS
<1>1. TypeOK' /\ DrainShape'
  BY TypeStep, ShapeStep DEF DispatchInv, TypeOK
<1>2. SUFFICES ASSUME ~overran' PROVE HeldIsLocked' /\ Disjoint'
  BY <1>1 DEF DispatchInv
<1>3. ~overran
  BY <1>2, OverranStays
<1>4. CASE UNCHANGED vars
  BY <1>3, <1>4 DEF DispatchInv, HeldIsLocked, Disjoint, Holds, Locked, vars, table, drain
<1>5. CASE Next
  BY <1>2, <1>3, <1>5, LockTable, LockProcess, LockReads, LockClaim, LockWrites
     DEF DispatchInv, Next, DrainStep
<1>6. QED
  BY <1>4, <1>5

\* A claimed row is worked on by one drain only while no lease has overrun,
\* however many instances drain the queue, crash and restart.
THEOREM DispatchIsExclusive == Spec => []ExclusiveDispatch
<1>1. DispatchInv => ExclusiveDispatch
  BY DEF DispatchInv, Disjoint, ExclusiveDispatch
<1>2. QED
  BY <1>1, InitDispatchInv, DispatchStep, PTL DEF Spec

-----------------------------------------------------------------------------
(* DedupUnique: a step makes at most one row active, after a look at the   *)
(* index.                                                                  *)

LEMMA OneActivated ==
    ASSUME TableOK, DrainShape, [Next]_vars
    PROVE  \/ \A s \in Rows : Active(s)' => Active(s)
           \/ \E r \in Rows : ~KeyTaken(r) /\ \A s \in Rows \ {r} : Active(s)' => Active(s)
<1> DEFINE NoneNew  == \A s \in Rows : Active(s)' => Active(s)
           OneNew(r) == ~KeyTaken(r) /\ \A s \in Rows \ {r} : Active(s)' => Active(s)
<1>1. UNCHANGED status => NoneNew
  BY DEF Active
<1>2. ASSUME NEW r \in Rows, Insert(r) PROVE OneNew(r)
  BY <1>2 DEF Insert, Active, TableOK
<1>3. SweepRows \/ ClaimRows => NoneNew
  BY DEF SweepRows, ClaimRows, Stale, Oldest, Claimable, Active
<1>4. ASSUME NEW r \in Rows, NEW x \in {"done", "failed"}, SetFinal(r, x) PROVE NoneNew
  BY <1>4 DEF SetFinal, Active, TableOK
<1>5. ASSUME NEW d \in Drains, cur[d] \in Rows, RequeueRow(d), ~KeyTaken(cur[d]) PROVE OneNew(cur[d])
  BY <1>5 DEF RequeueRow, Active, TableOK
<1>6. ASSUME NEW r \in Rows, Enqueue(r) \/ CronTick(r) \/ BackoffEnds(r) \/ LeaseEnds(r)
                                \/ LeaseOverruns(r)
      PROVE  Insert(r) \/ UNCHANGED status
  BY <1>6 DEF Enqueue, CronTick, BackoffEnds, LeaseEnds, LeaseOverruns, Expire
<1>7. ASSUME NEW i \in Instances, Stop(i) \/ Exit(i) \/ Crash(i) PROVE UNCHANGED status
  BY <1>7 DEF Stop, Exit, Crash, Gone, table
<1>8. ASSUME NEW d \in Drains, Start(Host[d], d) \/ Notified(d) \/ Poll(d) \/ NextRow(d) \/ Body(d)
      PROVE  UNCHANGED status
  BY <1>8 DEF Start, Notified, Poll, NextRow, Body, table
<1>9. ASSUME NEW d \in Drains, Sweep(d) \/ Claim(d)
      PROVE  SweepRows \/ ClaimRows \/ UNCHANGED status
  BY <1>9 DEF Sweep, Claim, table
<1>10. ASSUME NEW d \in Drains, Settle(d) \/ Retry(d) \/ GiveUp(d)
       PROVE  /\ cur[d] \in Rows
              /\ \/ UNCHANGED status
                 \/ RequeueRow(d) /\ ~KeyTaken(cur[d])
                 \/ \E x \in {"done", "failed"} : SetFinal(cur[d], x)
  BY <1>10 DEF Settle, Retry, GiveUp, DrainShape, table
<1>11. UNCHANGED vars => UNCHANGED status
  BY DEF vars, table
<1>12. QED
  BY <1>1, <1>2, <1>3, <1>4, <1>5, <1>6, <1>7, <1>8, <1>9, <1>10, <1>11 DEF Next, DrainStep

\* No two pending or processing rows share a (job_name, dedup_key), whoever
\* requeues or reclaims what, and whatever the leases do.
THEOREM DedupHolds == Spec => []DedupUnique
<1> DEFINE Inv == DispatchInv /\ DedupUnique
<1>1. Init => Inv
  <2>1. Init => DedupUnique
    BY DEF Init, DedupUnique, Active
  <2>2. QED
    BY <2>1, InitDispatchInv
<1>2. Inv /\ [Next]_vars => Inv'
  <2> SUFFICES ASSUME Inv, [Next]_vars PROVE Inv'
    OBVIOUS
  <2>1. ASSUME \A s \in Rows : Active(s)' => Active(s) PROVE DedupUnique'
    BY <2>1 DEF DedupUnique
  <2>2. ASSUME NEW r \in Rows, ~KeyTaken(r), \A s \in Rows \ {r} : Active(s)' => Active(s)
        PROVE  DedupUnique'
    BY <2>2 DEF DedupUnique, KeyTaken
  <2>3. DedupUnique'
    BY <2>1, <2>2, OneActivated DEF DispatchInv, TypeOK
  <2>4. QED
    BY <2>3, DispatchStep
<1>3. QED
  BY <1>1, <1>2, PTL DEF Spec

-----------------------------------------------------------------------------
(***************************************************************************)
(* ClaimsBounded.  Every claim of a row but the last one ended in a sweep  *)
(* or in a requeue, and no two requeues record the same attempt number,    *)
(* because two drains that hold the same row read different numbers from   *)
(* their claims.  No assumption on the leases is needed.                   *)
(***************************************************************************)

\* What the table owes to the history.
ClaimsAccounted ==
    \A r \in Rows :
        /\ status[r] = "absent" => attempts[r] = 0
        /\ retried[r] \subseteq 1 .. (MaxAttempts - 1)
        /\ \A n \in retried[r] : n <= attempts[r]
        /\ attempts[r] <= sweeps[r] + Cardinality(retried[r])
                                   + IF status[r] \in {"absent", "pending"} THEN 0 ELSE 1

\* What the drains read from their claims.
ClaimsDistinct ==
    \A d \in Drains : \A r \in Holds(d) :
        /\ got[d][r] \in 1 .. attempts[r] /\ got[d][r] \notin retried[r]
        /\ \A e \in Drains : e # d /\ r \in Holds(e) => got[d][r] # got[e][r]

CountInv == TypeOK /\ DrainShape /\ ClaimsAccounted /\ ClaimsDistinct

LEMMA RetriedFinite ==
    ASSUME ClaimsAccounted, NEW r \in Rows
    PROVE  /\ IsFiniteSet(retried[r])
           /\ Cardinality(retried[r]) \in Nat
           /\ Cardinality(retried[r]) <= MaxAttempts - 1
<1>1. MaxAttempts \in Nat \ {0}
  BY ConstantsOK
<1>2. /\ IsFiniteSet(1 .. (MaxAttempts - 1))
      /\ Cardinality(1 .. (MaxAttempts - 1)) = MaxAttempts - 1
  BY <1>1, FS_Interval
<1>3. retried[r] \subseteq 1 .. (MaxAttempts - 1)
  BY DEF ClaimsAccounted
<1>4. QED
  BY <1>2, <1>3, FS_Subset, FS_CardinalityType

\* Steps that count nothing: a row may be inserted or become final.
LEMMA AccountedKept ==
    ASSUME TableOK, ClaimsAccounted, HistoryOK, UNCHANGED <<attempts, retried, sweeps>>,
           \A r \in Rows : \/ status'[r] = status[r]
                           \/ status[r] = "absent" /\ status'[r] = "pending"
                           \/ status'[r] \in {"done", "failed"}
    PROVE  ClaimsAccounted'
<1> SUFFICES ASSUME NEW r \in Rows
             PROVE  /\ status'[r] = "absent" => attempts[r] = 0
                    /\ attempts[r] <= sweeps[r] + Cardinality(retried[r])
                          + IF status'[r] \in {"absent", "pending"} THEN 0 ELSE 1
  BY DEF ClaimsAccounted
<1>1. Cardinality(retried[r]) \in Nat /\ sweeps[r] \in Nat /\ attempts[r] \in Nat
  BY RetriedFinite DEF TableOK, HistoryOK
<1>2. QED
  BY <1>1 DEF ClaimsAccounted

\* Steps that hand out no row keep what the drains read.
LEMMA DistinctKept ==
    ASSUME ClaimsDistinct, UNCHANGED <<attempts, retried>>,
           \A d \in Drains : \A r \in Holds(d)' : r \in Holds(d) /\ got'[d][r] = got[d][r]
    PROVE  ClaimsDistinct'
BY DEF ClaimsDistinct

\* A sweep pays for the attempt it takes back.
LEMMA SweepCounts ==
    ASSUME TypeOK, ClaimsAccounted, SweepRows, UNCHANGED retried
    PROVE  ClaimsAccounted'
<1> SUFFICES ASSUME NEW r \in Rows
             PROVE  /\ status'[r] = "absent" => attempts[r] = 0
                    /\ attempts[r] <= sweeps'[r] + Cardinality(retried[r])
                          + IF status'[r] \in {"absent", "pending"} THEN 0 ELSE 1
  BY DEF ClaimsAccounted, SweepRows
<1>1. Cardinality(retried[r]) \in Nat /\ sweeps[r] \in Nat /\ attempts[r] \in Nat
  BY RetriedFinite DEF TypeOK, TableOK, HistoryOK
<1>2. CASE Stale(r)
  <2>1. status[r] = "processing" /\ status'[r] = "pending" /\ sweeps'[r] = sweeps[r] + 1
    BY <1>2 DEF SweepRows, Stale
  <2>2. QED
    BY <1>1, <2>1 DEF ClaimsAccounted
<1>3. CASE ~Stale(r)
  BY <1>1, <1>3 DEF ClaimsAccounted, SweepRows
<1>4. QED
  BY <1>2, <1>3

\* A claim counts one attempt of rows that were pending.
LEMMA ClaimCounts ==
    ASSUME TypeOK, ClaimsAccounted, ClaimRows, UNCHANGED <<retried, sweeps>>
    PROVE  ClaimsAccounted'
<1> SUFFICES ASSUME NEW r \in Rows
             PROVE  /\ status'[r] = "absent" => attempts'[r] = 0
                    /\ \A n \in retried[r] : n <= attempts'[r]
                    /\ attempts'[r] <= sweeps[r] + Cardinality(retried[r])
                          + IF status'[r] \in {"absent", "pending"} THEN 0 ELSE 1
  BY DEF ClaimsAccounted
<1>1. Cardinality(retried[r]) \in Nat /\ sweeps[r] \in Nat /\ attempts[r] \in Nat
  BY RetriedFinite DEF TypeOK, TableOK, HistoryOK
<1>2. CASE r \in Oldest
  <2>1. status[r] = "pending" /\ status'[r] = "processing" /\ attempts'[r] = attempts[r] + 1
    BY <1>2 DEF ClaimRows, Oldest, Claimable
  <2>2. \A n \in retried[r] : n \in Nat /\ n <= attempts[r]
    BY DEF ClaimsAccounted, TypeOK, HistoryOK
  <2>3. \A n \in retried[r] : n <= attempts'[r]
    BY <1>1, <2>1, <2>2
  <2>4. QED
    BY <1>1, <2>1, <2>3 DEF ClaimsAccounted
<1>3. CASE r \notin Oldest
  BY <1>1, <1>3 DEF ClaimsAccounted, ClaimRows
<1>4. QED
  BY <1>2, <1>3

\* A requeue records a number no requeue of the row has recorded before.
LEMMA RequeueCounts ==
    ASSUME TypeOK, ClaimsAccounted, ClaimsDistinct, NEW d \in Drains, cur[d] \in Rows,
           MayRetry(d), RequeueRow(d), UNCHANGED sweeps
    PROVE  ClaimsAccounted'
<1> DEFINE r == cur[d]
           n == got[d][r]
<1>1. n \in 1 .. attempts[r] /\ n \notin retried[r]
  <2>1. r \in Holds(d)
    BY ConstantsOK DEF Holds
  <2>2. QED
    BY <2>1 DEF ClaimsDistinct
<1>2. attempts[r] \in Nat /\ sweeps[r] \in Nat /\ MaxAttempts \in Nat
  BY ConstantsOK DEF TypeOK, TableOK, HistoryOK
<1>3. n \in 1 .. (MaxAttempts - 1)
  BY <1>1, <1>2 DEF MayRetry
<1>4. /\ retried'[r] = retried[r] \cup {n} /\ status'[r] = "pending"
      /\ attempts' = attempts /\ sweeps' = sweeps
      /\ \A s \in Rows \ {r} : retried'[s] = retried[s] /\ status'[s] = status[s]
  BY DEF RequeueRow, TypeOK, TableOK, HistoryOK
<1>5. /\ Cardinality(retried[r]) \in Nat
      /\ Cardinality(retried'[r]) = Cardinality(retried[r]) + 1
      /\ Cardinality(retried'[r]) \in Nat
  <2>1. IsFiniteSet(retried[r]) /\ Cardinality(retried[r]) \in Nat
    BY RetriedFinite
  <2>2. Cardinality(retried[r] \cup {n}) = Cardinality(retried[r]) + 1
    BY <1>1, <2>1, FS_AddElement
  <2>3. QED
    BY <1>4, <2>1, <2>2
<1>6. retried'[r] \subseteq 1 .. (MaxAttempts - 1) /\ \A m \in retried'[r] : m <= attempts[r]
  BY <1>1, <1>3, <1>4 DEF ClaimsAccounted
<1>7. attempts[r] <= sweeps[r] + Cardinality(retried'[r])
  BY <1>2, <1>5 DEF ClaimsAccounted
<1>8. ASSUME NEW s \in Rows
      PROVE  /\ status'[s] = "absent" => attempts'[s] = 0
             /\ retried'[s] \subseteq 1 .. (MaxAttempts - 1)
             /\ \A m \in retried'[s] : m <= attempts'[s]
             /\ attempts'[s] <= sweeps'[s] + Cardinality(retried'[s])
                   + IF status'[s] \in {"absent", "pending"} THEN 0 ELSE 1
  <2>1. CASE s = r
    <3>1. Cardinality(retried'[s]) \in Nat /\ sweeps'[s] \in Nat
      <4>1. Cardinality(retried'[s]) \in Nat
        BY <1>5, <2>1
      <4>2. QED
        BY <1>2, <1>4, <2>1, <4>1
    <3>2. attempts'[s] <= sweeps'[s] + Cardinality(retried'[s]) /\ status'[s] = "pending"
      BY <1>4, <1>7, <2>1
    <3>3. /\ retried'[s] \subseteq 1 .. (MaxAttempts - 1)
          /\ \A m \in retried'[s] : m <= attempts'[s]
      BY <1>4, <1>6, <2>1
    <3>4. QED
      BY <3>1, <3>2, <3>3
  <2>2. CASE s # r
    BY <1>4, <2>2 DEF ClaimsAccounted
  <2>3. QED
    BY <2>1, <2>2
<1>9. QED
  BY <1>8 DEF ClaimsAccounted

LEMMA RequeueDistinct ==
    ASSUME TypeOK, DrainShape, ClaimsDistinct, NEW d \in Drains, cur[d] \in Rows \ batch[d],
           RequeueRow(d), NextOf(d) \/ Reject(d)
    PROVE  ClaimsDistinct'
<1>1. Holds(d)' \subseteq Holds(d) \ {cur[d]}
  BY DEF Holds, NextOf, Reject, TypeOK, DrainOK
<1>2. \A r \in Holds(d)' : got'[d][r] = got[d][r]
  <2>1. CASE NextOf(d)
    BY <1>1, <2>1 DEF NextOf, TypeOK, DrainOK, Holds
  <2>2. CASE Reject(d)
    BY <2>2 DEF Holds, Reject, TypeOK, DrainOK
  <2>3. QED
    BY <2>1, <2>2
<1>3. \A e \in Drains : e # d => Holds(e)' = Holds(e) /\ got'[e] = got[e]
  BY DEF Holds, NextOf, Reject, TypeOK, DrainOK
<1>4. /\ attempts' = attempts
      /\ \A s \in Rows : s # cur[d] => retried'[s] = retried[s]
      /\ retried'[cur[d]] = retried[cur[d]] \cup {got[d][cur[d]]}
  BY DEF RequeueRow, TypeOK, HistoryOK
<1>5. \A e \in Drains : \A s \in Holds(e)' : s \in Holds(e) /\ s \in Rows /\ got'[e][s] = got[e][s]
  BY <1>1, <1>2, <1>3 DEF Holds, TypeOK, DrainOK
<1>6. cur[d] \in Holds(d)
  BY ConstantsOK DEF Holds
<1>7. ASSUME NEW e \in Drains, NEW s \in Holds(e)' PROVE got[e][s] \notin retried'[s]
  <2>1. CASE s # cur[d]
    BY <1>4, <1>5, <2>1 DEF ClaimsDistinct
  <2>2. CASE s = cur[d]
    <3>1. e # d
      BY <1>1, <2>2
    <3>2. got[e][s] # got[d][s] /\ got[e][s] \notin retried[s]
      BY <1>5, <1>6, <2>2, <3>1 DEF ClaimsDistinct
    <3>3. QED
      BY <1>4, <2>2, <3>2
  <2>3. QED
    BY <2>1, <2>2
<1>8. QED
  BY <1>4, <1>5, <1>7 DEF ClaimsDistinct

\* A claim reads numbers no other drain has read for these rows.
LEMMA ClaimDistinct ==
    ASSUME TypeOK, DrainShape, ClaimsAccounted, ClaimsDistinct, NEW d \in Drains,
           pc[d] = "claim", ClaimRows, UNCHANGED <<cur, retried>>,
           batch' = [batch EXCEPT ![d] = Oldest],
           got' = [got EXCEPT ![d] = [r \in Rows |-> IF r \in Oldest THEN attempts[r] + 1 ELSE 0]]
    PROVE  ClaimsDistinct'
<1>1. Oldest \subseteq Rows
  BY DEF Oldest
<1>2. Holds(d)' = Oldest
  BY DEF Holds, DrainShape, TypeOK, DrainOK
<1>3. \A e \in Drains : e # d => Holds(e)' = Holds(e) /\ got'[e] = got[e]
  BY DEF Holds, TypeOK, DrainOK
<1>4. ASSUME NEW r \in Oldest
      PROVE  /\ attempts[r] \in Nat /\ attempts'[r] = attempts[r] + 1
             /\ got'[d][r] = attempts[r] + 1 /\ attempts[r] + 1 \notin retried[r]
  BY <1>1, <1>4 DEF ClaimRows, ClaimsAccounted, TypeOK, TableOK, DrainOK
<1>5. ASSUME NEW e \in Drains, e # d, NEW r \in Holds(e)
      PROVE  /\ r \in Rows /\ got[e][r] \in 1 .. attempts'[r] /\ got[e][r] \notin retried[r]
             /\ r \in Oldest => got[e][r] # got'[d][r]
  <2>1. got[e][r] \in 1 .. attempts[r] /\ got[e][r] \notin retried[r]
    BY <1>5 DEF ClaimsDistinct
  <2>2. r \in Rows /\ attempts[r] \in Nat
    BY <1>5 DEF Holds, TypeOK, DrainOK, TableOK
  <2>3. attempts'[r] = attempts[r] \/ attempts'[r] = attempts[r] + 1
    BY <2>2 DEF ClaimRows
  <2>4. got[e][r] \in 1 .. attempts'[r]
    BY <2>1, <2>2, <2>3
  <2>5. ASSUME r \in Oldest PROVE got[e][r] # got'[d][r]
    <3>1. got'[d][r] = attempts[r] + 1
      BY <1>4, <2>5
    <3>2. got[e][r] \in Nat /\ got[e][r] <= attempts[r]
      BY <2>1, <2>2
    <3>3. QED
      BY <2>2, <3>1, <3>2
  <2>6. QED
    BY <2>1, <2>2, <2>4, <2>5
<1>6. \A e, f \in Drains : \A r \in Holds(e) :
          e # d /\ f # d /\ e # f /\ r \in Holds(f) => got[e][r] # got[f][r]
  BY DEF ClaimsDistinct
<1>7. ASSUME NEW r \in Oldest PROVE got'[d][r] \in 1 .. attempts'[r] /\ got'[d][r] \notin retried[r]
  BY <1>4, <1>7
<1>8. ASSUME NEW e \in Drains, NEW r \in Holds(e)'
      PROVE  /\ got'[e][r] \in 1 .. attempts'[r] /\ got'[e][r] \notin retried[r]
             /\ \A f \in Drains : f # e /\ r \in Holds(f)' => got'[e][r] # got'[f][r]
  <2>1. CASE e = d
    <3>1. r \in Oldest
      BY <1>2, <1>8, <2>1
    <3>2. got'[d][r] \in 1 .. attempts'[r] /\ got'[d][r] \notin retried[r]
      BY <1>7, <3>1
    <3>3. ASSUME NEW f \in Drains, f # d, r \in Holds(f)' PROVE got'[d][r] # got'[f][r]
      <4>1. r \in Holds(f) /\ got'[f] = got[f]
        BY <1>3, <3>3
      <4>2. QED
        BY <1>5, <3>1, <3>3, <4>1
    <3>4. QED
      BY <2>1, <3>2, <3>3
  <2>2. CASE e # d
    <3>1. r \in Holds(e) /\ got'[e] = got[e]
      BY <1>3, <1>8, <2>2
    <3>2. got[e][r] \in 1 .. attempts'[r] /\ got[e][r] \notin retried[r]
      BY <1>5, <2>2, <3>1
    <3>3. ASSUME NEW f \in Drains, f # e, r \in Holds(f)' PROVE got[e][r] # got'[f][r]
      <4>1. CASE f = d
        BY <1>2, <1>5, <2>2, <3>1, <3>3, <4>1
      <4>2. CASE f # d
        BY <1>3, <1>6, <2>2, <3>1, <3>3, <4>2
      <4>3. QED
        BY <4>1, <4>2
    <3>4. QED
      BY <3>1, <3>2, <3>3
  <2>3. QED
    BY <2>1, <2>2
<1>9. QED
  BY <1>8 DEF ClaimsDistinct

\* The steps other than sweeps, claims and requeues.
LEMMA CountRest ==
    ASSUME CountInv,
           UNCHANGED <<attempts, retried, sweeps>>,
           \A r \in Rows : \/ status'[r] = status[r]
                           \/ status[r] = "absent" /\ status'[r] = "pending"
                           \/ status'[r] \in {"done", "failed"},
           \A d \in Drains : \A r \in Holds(d)' : r \in Holds(d) /\ got'[d][r] = got[d][r]
    PROVE  ClaimsAccounted' /\ ClaimsDistinct'
BY AccountedKept, DistinctKept DEF CountInv, TypeOK

LEMMA CountTable ==
    ASSUME CountInv, NEW r \in Rows,
           \/ Enqueue(r) \/ CronTick(r) \/ BackoffEnds(r) \/ LeaseEnds(r)
           \/ LeaseOverruns(r)
    PROVE  ClaimsAccounted' /\ ClaimsDistinct'
<1>1. UNCHANGED <<pc, cur, batch, got, attempts, retried, sweeps>>
  BY DEF Enqueue, CronTick, BackoffEnds, LeaseEnds, LeaseOverruns, Expire, Insert, drain, history
<1>2. UNCHANGED status \/ (status[r] = "absent" /\ status' = [status EXCEPT ![r] = "pending"])
  <2>1. Insert(r) \/ UNCHANGED status
    BY DEF Enqueue, CronTick, BackoffEnds, LeaseEnds, LeaseOverruns, Expire
  <2>2. r >= r
    BY ConstantsOK
  <2>3. QED
    BY <2>1, <2>2 DEF Insert
<1>3. QED
  BY <1>1, <1>2, CountRest DEF Holds, CountInv, TypeOK, TableOK

LEMMA CountProcess ==
    ASSUME CountInv,
           \/ \E i \in Instances : Stop(i) \/ Exit(i) \/ Crash(i)
           \/ \E d \in Drains : Start(Host[d], d) \/ Notified(d) \/ Poll(d)
    PROVE  ClaimsAccounted' /\ ClaimsDistinct'
<1>1. UNCHANGED <<table, history>>
  BY DEF Stop, Exit, Crash, Gone, Start, Notified, Poll
<1>2. ASSUME NEW d \in Drains
      PROVE  \/ Holds(d)' = {}
             \/ Holds(d)' = Holds(d) /\ got'[d] = got[d]
  BY DEF Stop, Exit, Crash, Gone, Start, Notified, Poll, Holds, drain
<1>3. QED
  BY <1>1, <1>2, CountRest DEF table, history

LEMMA CountReads ==
    ASSUME CountInv, NEW d \in Drains, Sweep(d) \/ NextRow(d) \/ Body(d)
    PROVE  ClaimsAccounted' /\ ClaimsDistinct'
<1>1. UNCHANGED <<attempts, retried, got>>
  BY DEF Sweep, SweepRows, NextRow, Body, table, history
<1>2. \A e \in Drains : Holds(e)' \subseteq Holds(e)
  BY ConstantsOK DEF Sweep, NextRow, Body, Holds, CountInv, TypeOK, DrainOK
<1>3. ClaimsDistinct'
  BY <1>1, <1>2, DistinctKept DEF CountInv
<1>4. SweepRows \/ UNCHANGED <<status, sweeps>>
  BY DEF Sweep, NextRow, Body, table, history
<1>5. ClaimsAccounted'
  BY <1>1, <1>4, SweepCounts, AccountedKept DEF CountInv, TypeOK
<1>6. QED
  BY <1>3, <1>5

LEMMA CountClaim ==
    ASSUME CountInv, NEW d \in Drains, Claim(d)
    PROVE  ClaimsAccounted' /\ ClaimsDistinct'
<1>1. pc[d] = "claim" /\ Holds(d) = {} /\ UNCHANGED <<retried, sweeps>>
  BY DEF Claim, CountInv, DrainShape, Holds, history
<1>2. ClaimsAccounted'
  BY <1>1, ClaimCounts, AccountedKept DEF Claim, CountInv, TypeOK, table
<1>3. CASE Return(d) \/ Reject(d)
  <2>1. Holds(d)' = {}
    BY <1>1, <1>3 DEF Holds, Return, Reject, CountInv, TypeOK, DrainOK
  <2>2. \A e \in Drains : e # d => Holds(e)' = Holds(e) /\ got'[e] = got[e]
    BY <1>3 DEF Holds, Return, Reject, CountInv, TypeOK, DrainOK
  <2>3. ASSUME NEW e \in Drains, NEW r \in Holds(e)
        PROVE  attempts'[r] = attempts[r] \/ (r \in Rows /\ attempts'[r] = attempts[r] + 1)
    <3>1. r \in Rows
      BY DEF Holds, CountInv, TypeOK, DrainOK
    <3>2. ClaimRows \/ UNCHANGED table
      BY DEF Claim
    <3>3. CASE ClaimRows
      BY <3>1, <3>3 DEF ClaimRows
    <3>4. CASE UNCHANGED table
      BY <3>4 DEF table
    <3>5. QED
      BY <3>2, <3>3, <3>4
  <2>4. ASSUME NEW e \in Drains, NEW r \in Holds(e)
        PROVE  got[e][r] \in 1 .. attempts'[r]
    <3>1. got[e][r] \in 1 .. attempts[r]
      BY DEF CountInv, ClaimsDistinct
    <3>2. r \in Rows /\ attempts[r] \in Nat
      BY DEF Holds, CountInv, TypeOK, DrainOK, TableOK
    <3>3. QED
      BY <2>3, <3>1, <3>2
  <2>5. QED
    BY <1>1, <1>2, <2>1, <2>2, <2>4 DEF ClaimsDistinct, CountInv
<1>4. CASE /\ ClaimRows /\ batch' = [batch EXCEPT ![d] = Oldest] /\ UNCHANGED cur
           /\ got' = [got EXCEPT ![d] = [r \in Rows |-> IF r \in Oldest THEN attempts[r] + 1
                                                                       ELSE 0]]
  BY <1>1, <1>2, <1>4, ClaimDistinct DEF CountInv
<1>5. QED
  BY <1>3, <1>4 DEF Claim

LEMMA CountWrites ==
    ASSUME CountInv, NEW d \in Drains, Settle(d) \/ Retry(d) \/ GiveUp(d)
    PROVE  ClaimsAccounted' /\ ClaimsDistinct'
<1>1. cur[d] \in Rows \ batch[d] /\ NoRow \notin Rows
  BY ConstantsOK DEF Settle, Retry, GiveUp, CountInv, DrainShape
<1>2. CASE Retry(d) /\ RequeueRow(d)
  <2>1. MayRetry(d) /\ UNCHANGED sweeps /\ (NextOf(d) \/ Reject(d))
    BY <1>2 DEF Retry
  <2>2. QED
    BY <1>1, <1>2, <2>1, RequeueCounts, RequeueDistinct DEF CountInv
<1>3. CASE /\ UNCHANGED <<retried, sweeps>>
           /\ UNCHANGED table \/ \E x \in {"done", "failed"} : SetFinal(cur[d], x)
           /\ NextOf(d) \/ Reject(d) \/ UNCHANGED <<cur, batch, got>>
  <2>1. UNCHANGED attempts
    BY <1>3 DEF table, SetFinal
  <2>2. \A r \in Rows : status'[r] = status[r] \/ status'[r] \in {"done", "failed"}
    BY <1>3 DEF table, SetFinal, CountInv, TypeOK, TableOK
  <2>3. \A e \in Drains : e # d => Holds(e)' = Holds(e) /\ got'[e] = got[e]
    BY <1>3 DEF Holds, NextOf, Reject, CountInv, TypeOK, DrainOK
  <2>4. \A r \in Holds(d)' : r \in Holds(d) /\ got'[d][r] = got[d][r]
    <3>1. CASE NextOf(d)
      BY <1>1, <3>1 DEF NextOf, CountInv, TypeOK, DrainOK, Holds
    <3>2. CASE Reject(d)
      BY <3>2 DEF Holds, Reject, CountInv, TypeOK, DrainOK
    <3>3. CASE UNCHANGED <<cur, batch, got>>
      BY <3>3 DEF Holds
    <3>4. QED
      BY <1>3, <3>1, <3>2, <3>3
  <2>5. QED
    BY <1>3, <2>1, <2>2, <2>3, <2>4, CountRest
<1>4. QED
  BY <1>2, <1>3 DEF Settle, Retry, GiveUp, history

\* A row is claimed at most MAX_ATTEMPTS times plus once for every sweep that
\* reclaimed it, whatever the leases do and whoever requeues it.
THEOREM ClaimsAreBounded == Spec => []ClaimsBounded
<1>1. Init => CountInv
  <2>1. ASSUME Init PROVE ClaimsAccounted /\ ClaimsDistinct
    BY <2>1, FS_EmptySet DEF Init, ClaimsAccounted, ClaimsDistinct, Holds
  <2>2. Init => TypeOK /\ DrainShape
    BY InitDispatchInv DEF DispatchInv
  <2>3. QED
    BY <2>1, <2>2 DEF CountInv
<1>2. CountInv /\ [Next]_vars => CountInv'
  <2> SUFFICES ASSUME CountInv, [Next]_vars PROVE CountInv'
    OBVIOUS
  <2>1. TypeOK' /\ DrainShape'
    BY TypeStep, ShapeStep DEF CountInv, TypeOK
  <2>2. CASE UNCHANGED vars
    BY <2>1, <2>2 DEF CountInv, ClaimsAccounted, ClaimsDistinct, Holds, vars, table, drain, history
  <2>3. CASE Next
    BY <2>1, <2>3, CountTable, CountProcess, CountReads, CountClaim, CountWrites
       DEF Next, DrainStep, CountInv
  <2>4. QED
    BY <2>2, <2>3
<1>3. CountInv => ClaimsBounded
  <2> SUFFICES ASSUME CountInv, NEW r \in Rows PROVE attempts[r] <= MaxAttempts + sweeps[r]
    BY DEF ClaimsBounded
  <2>1. /\ Cardinality(retried[r]) \in Nat /\ Cardinality(retried[r]) <= MaxAttempts - 1
        /\ MaxAttempts \in Nat /\ attempts[r] \in Nat /\ sweeps[r] \in Nat
    BY RetriedFinite, ConstantsOK DEF CountInv, TypeOK, TableOK, HistoryOK
  <2>2. attempts[r] <= sweeps[r] + Cardinality(retried[r]) + 1
    BY <2>1 DEF CountInv, ClaimsAccounted
  <2>3. QED
    BY <2>1, <2>2
<1>4. QED
  BY <1>1, <1>2, <1>3, PTL DEF Spec

-----------------------------------------------------------------------------
(* DoneIsFinal: without rejected calls the catch block is entered with the *)
(* row still in processing, so nothing but its own drain can move it.      *)

CaughtIsProcessing ==
    \A d \in Drains : pc[d] = "caught" => status[cur[d]] = "processing"

FinalInv == DispatchInv /\ (~overran /\ dbErrors = 0 => CaughtIsProcessing)

\* Once a job has failed, its drain stays in the catch block until it writes.
LEMMA CaughtStays ==
    ASSUME TypeOK, DrainShape, [Next]_vars, ~DbError,
           NEW e \in Drains, pc'[e] = "caught", ~Body(e)
    PROVE  /\ pc[e] = "caught" /\ cur'[e] = cur[e]
           /\ ~(Settle(e) \/ Retry(e) \/ GiveUp(e))
<1>1. ~(Settle(e) \/ Retry(e) \/ GiveUp(e))
  BY DEF Settle, Retry, GiveUp, NextOf, Reject, TypeOK, DrainOK
<1>2. ASSUME NEW d \in Drains, d # e, DrainStep(d) PROVE pc[e] = "caught" /\ cur'[e] = cur[e]
  BY <1>2 DEF DrainStep, Sweep, Claim, NextRow, Body, Settle, Retry, GiveUp, NextOf, Reject,
     Return, TypeOK, DrainOK
<1>3. ~(Sweep(e) \/ Claim(e) \/ NextRow(e))
  BY DEF Sweep, Claim, NextRow, Return, Reject, TypeOK, DrainOK
<1>4. ASSUME NEW d \in Drains, Start(Host[d], d) \/ Notified(d) \/ Poll(d)
      PROVE  pc[e] = "caught" /\ cur'[e] = cur[e]
  BY <1>4 DEF Start, Notified, Poll, TypeOK, DrainOK
<1>5. ASSUME NEW i \in Instances, Stop(i) \/ Exit(i) \/ Crash(i)
      PROVE  pc[e] = "caught" /\ cur'[e] = cur[e]
  BY <1>5 DEF Stop, Exit, Crash, Gone, drain
<1>6. ASSUME NEW r \in Rows, Enqueue(r) \/ CronTick(r) \/ BackoffEnds(r) \/ LeaseEnds(r)
                                \/ LeaseOverruns(r)
      PROVE  pc[e] = "caught" /\ cur'[e] = cur[e]
  BY <1>6 DEF Enqueue, CronTick, BackoffEnds, LeaseEnds, LeaseOverruns, Expire, drain
<1>7. UNCHANGED vars => pc[e] = "caught" /\ cur'[e] = cur[e]
  BY DEF vars, drain
<1>8. QED
  BY <1>1, <1>2, <1>3, <1>4, <1>5, <1>6, <1>7 DEF Next, DrainStep

\* Only the update of a drain moves a row that is neither absent, pending nor
\* in processing under an expired lease.
LEMMA FinishedRowMoves ==
    ASSUME TypeOK, [Next]_vars, NEW r \in Rows,
           status[r] \notin {"absent", "pending"}, ~Stale(r), status'[r] # status[r]
    PROVE  \E d \in Drains : r = cur[d] /\ (Settle(d) \/ Retry(d) \/ GiveUp(d))
<1>2. ~UNCHANGED status
  OBVIOUS
<1>3. ~SweepRows /\ ~ClaimRows
  BY DEF SweepRows, ClaimRows, Oldest, Claimable
<1>4. ASSUME NEW s \in Rows PROVE ~Insert(s)
  BY ConstantsOK DEF Insert, TypeOK, TableOK
<1>5. ASSUME NEW s \in Rows PROVE ~(\/ Enqueue(s) \/ CronTick(s) \/ BackoffEnds(s)
                                    \/ LeaseEnds(s) \/ LeaseOverruns(s))
  BY <1>2, <1>4 DEF Enqueue, CronTick, BackoffEnds, LeaseEnds, LeaseOverruns, Expire
<1>6. ASSUME NEW i \in Instances PROVE ~(Stop(i) \/ Exit(i) \/ Crash(i))
  BY <1>2 DEF Stop, Exit, Crash, Gone, table
<1>7. ASSUME NEW d \in Drains
      PROVE  ~(\/ Start(Host[d], d) \/ Notified(d) \/ Poll(d) \/ Sweep(d) \/ Claim(d)
               \/ NextRow(d) \/ Body(d))
  BY <1>2, <1>3 DEF Start, Notified, Poll, Sweep, Claim, NextRow, Body, table
<1>8. PICK d \in Drains : Settle(d) \/ Retry(d) \/ GiveUp(d)
  BY <1>2, <1>5, <1>6, <1>7 DEF Next, DrainStep, vars, table
<1>9. \/ UNCHANGED status
      \/ \E s \in {"pending", "done", "failed"} : status' = [status EXCEPT ![cur[d]] = s]
  BY <1>8 DEF Settle, Retry, GiveUp, SetFinal, RequeueRow, table
<1>10. r = cur[d]
  BY <1>9 DEF TypeOK, TableOK
<1>11. QED
  BY <1>8, <1>10

\* A step that changes the status of a held row is a write of its holder.
LEMMA HeldRowMoves ==
    ASSUME TypeOK, DrainShape, HeldIsLocked, Disjoint, [Next]_vars,
           NEW e \in Drains, NEW r \in Holds(e), status'[r] # status[r]
    PROVE  r = cur[e] /\ (Settle(e) \/ Retry(e) \/ GiveUp(e))
<1>1. r \in Rows /\ ~expired[r] /\ status[r] \notin {"absent", "pending"}
  BY DEF HeldIsLocked, Locked, Holds, TypeOK, DrainOK
<1>2. PICK d \in Drains : r = cur[d] /\ (Settle(d) \/ Retry(d) \/ GiveUp(d))
  BY <1>1, FinishedRowMoves DEF Stale
<1>3. r \in Holds(d)
  BY <1>1, <1>2, ConstantsOK DEF Holds
<1>4. QED
  BY <1>2, <1>3 DEF Disjoint

LEMMA FinalStep == FinalInv /\ [Next]_vars => FinalInv'
<1> SUFFICES ASSUME FinalInv, [Next]_vars PROVE FinalInv'
  OBVIOUS
<1>1. DispatchInv'
  BY DispatchStep DEF FinalInv
<1>2. SUFFICES ASSUME ~overran', dbErrors' = 0, NEW e \in Drains, pc'[e] = "caught"
               PROVE  status'[cur'[e]] = "processing"
  BY <1>1 DEF FinalInv, CaughtIsProcessing
<1>3. dbErrors = 0 /\ ~DbError
  <2>1. UNCHANGED dbErrors \/ DbError
    BY DEF Next, Enqueue, CronTick, BackoffEnds, LeaseEnds, LeaseOverruns, Stop, Exit, Crash,
       Gone, Start, Notified, Poll, DrainStep, Sweep, Claim, NextRow, Body, Settle, Retry,
       GiveUp, Return, budget, vars
  <2>2. dbErrors \in Nat
    BY ConstantsOK DEF FinalInv, DispatchInv, TypeOK, HistoryOK
  <2>3. QED
    BY <1>2, <2>1, <2>2 DEF DbError
<1>4. ~overran
  BY <1>2, OverranStays
<1>5. TypeOK /\ DrainShape /\ HeldIsLocked /\ Disjoint /\ CaughtIsProcessing
  BY <1>3, <1>4 DEF FinalInv, DispatchInv
<1>6. CASE Body(e)
  <2>1. cur[e] \in Holds(e) /\ pc[e] = "body" /\ UNCHANGED <<status, cur>>
    BY <1>5, <1>6, ConstantsOK DEF Body, DrainShape, Holds, table
  <2>2. QED
    BY <1>5, <2>1 DEF HeldIsLocked, Locked
<1>7. CASE ~Body(e)
  <2>1. /\ pc[e] = "caught" /\ cur'[e] = cur[e]
        /\ ~(Settle(e) \/ Retry(e) \/ GiveUp(e))
    BY <1>2, <1>3, <1>5, <1>7, CaughtStays
  <2>2. cur[e] \in Holds(e) /\ status[cur[e]] = "processing"
    BY <1>5, <2>1, ConstantsOK DEF DrainShape, Holds, CaughtIsProcessing
  <2>3. QED
    BY <1>4, <1>5, <2>1, <2>2, HeldRowMoves
<1>8. QED
  BY <1>6, <1>7

\* 'done' is final while no lease has overrun and no SQL call has rejected.
THEOREM DoneStaysDone == Spec => DoneIsFinal
<1>1. Init => FinalInv
  BY InitDispatchInv DEF FinalInv, CaughtIsProcessing, Init
<1>2. FinalInv /\ [Next]_vars =>
        (~overran /\ dbErrors = 0 => \A r \in Rows : status[r] = "done" => status'[r] = "done")
  <2> SUFFICES ASSUME FinalInv, [Next]_vars, ~overran, dbErrors = 0,
                      NEW r \in Rows, status[r] = "done", status'[r] # "done"
               PROVE  FALSE
    OBVIOUS
  <2>1. TypeOK /\ DrainShape /\ HeldIsLocked /\ Disjoint /\ CaughtIsProcessing
    BY DEF FinalInv, DispatchInv
  <2>2. \E d \in Drains : r = cur[d] /\ (Settle(d) \/ Retry(d) \/ GiveUp(d))
    BY <2>1, FinishedRowMoves DEF Stale
  <2>3. PICK d \in Drains : r = cur[d] /\ (Settle(d) \/ Retry(d) \/ GiveUp(d))
    BY <2>2
  <2>4. r \in Holds(d)
    BY <2>3, ConstantsOK DEF Holds
  <2>5. QED
    BY <2>1, <2>3, <2>4 DEF HeldIsLocked, Locked, CaughtIsProcessing
<1>3. QED
  BY <1>1, <1>2, FinalStep, PTL DEF Spec, DoneIsFinal

-----------------------------------------------------------------------------
(***************************************************************************)
(* ImplementsQueue.  What is needed beyond the invariants above: while no  *)
(* lease has overrun, the attempt number a drain read from its claim is    *)
(* still the number in the table; and the branch a job has taken tells     *)
(* whether it is in the jobs map.                                          *)
(***************************************************************************)

NumberIsKept == \A d \in Drains : \A r \in Holds(d) : got[d][r] = attempts[r]

BodyIsKnown ==
    \A d \in Drains : /\ pc[d] = "unknown" => cur[d] \in UnknownJobs
                      /\ pc[d] \in {"body", "done"} => cur[d] \notin UnknownJobs

QueueInv == FinalInv /\ (~overran => NumberIsKept) /\ BodyIsKnown

\* Drains let go of all they hold, or nothing happens that the queue shows,
\* or a promise is gone.
LEMMA QueueDrops ==
    ASSUME NEW W \in SUBSET Drains,
           \A d \in Drains : Holds(d)' = IF d \in W THEN {} ELSE Holds(d),
           UNCHANGED <<status, attempts, sweeps>>,
           UNCHANGED overran \/ overran' = TRUE, UNCHANGED dbErrors \/ dbErrors' > 0
    PROVE  [Queue!Next]_Queue!queue
<1> DEFINE Hold == [d \in Drains |-> Holds(d)]
           Lost == dbErrors > 0
<1>1. Hold' = [d \in Drains |-> IF d \in W THEN {} ELSE Hold[d]]
  OBVIOUS
<1>2. UNCHANGED Lost \/ Lost' = TRUE
  OBVIOUS
<1>3. Queue!Drop(W)
  BY <1>1, <1>2 DEF Queue!Drop
<1>4. QED
  BY <1>3 DEF Queue!Next

\* A producer adds a row.
LEMMA QueueAdds ==
    ASSUME NEW r \in Rows, Insert(r), \A d \in Drains : Holds(d)' = Holds(d),
           UNCHANGED <<sweeps, overran, dbErrors>>
    PROVE  [Queue!Next]_Queue!queue
<1>1. r >= r
  BY ConstantsOK
<1>2. status[r] = "absent" /\ status' = [status EXCEPT ![r] = "pending"] /\ UNCHANGED attempts
  BY <1>1 DEF Insert
<1>3. Queue!Free(r)
  BY DEF Insert, KeyTaken, Active, Queue!Free
<1>4. Queue!Add(r)
  BY <1>2, <1>3 DEF Queue!Add
<1>5. QED
  BY <1>4 DEF Queue!Next

\* A sweep takes back rows whose lease ran out.
LEMMA QueueReclaims ==
    ASSUME ~overran => HeldIsLocked, SweepRows, \A d \in Drains : Holds(d)' = Holds(d),
           UNCHANGED <<overran, dbErrors>>
    PROVE  [Queue!Next]_Queue!queue
<1> DEFINE S == {r \in Rows : Stale(r)}
<1>1. overran \/ Queue!Unheld(S)
  BY DEF HeldIsLocked, Locked, Stale, Queue!Unheld
<1>2. /\ status' = [r \in Rows |-> IF r \in S THEN "pending" ELSE status[r]]
      /\ sweeps' = [r \in Rows |-> IF r \in S THEN sweeps[r] + 1 ELSE sweeps[r]]
      /\ UNCHANGED attempts
  BY DEF SweepRows
<1>3. \A r \in S : status[r] = "processing"
  BY DEF Stale
<1>4. Queue!Reclaim(S)
  BY <1>1, <1>2, <1>3 DEF Queue!Reclaim
<1>5. QED
  BY <1>4 DEF Queue!Next

\* A drain claims rows; it may not hear of it.
LEMMA QueueTakes ==
    ASSUME TypeOK, ~overran => HeldIsLocked, ClaimRows, NEW d \in Drains,
           \A e \in Drains \ {d} : Holds(e)' = Holds(e),
           \/ Holds(d)' = Oldest /\ UNCHANGED dbErrors
           \/ Holds(d)' = Holds(d) /\ dbErrors' > 0,
           UNCHANGED <<sweeps, overran>>
    PROVE  [Queue!Next]_Queue!queue
<1> DEFINE Hold == [e \in Drains |-> Holds(e)]
           Lost == dbErrors > 0
<1>1. Oldest \subseteq Rows /\ \A r \in Oldest : status[r] = "pending"
  BY DEF Oldest, Claimable
<1>2. overran \/ Queue!Unheld(Oldest)
  BY <1>1 DEF HeldIsLocked, Locked, Queue!Unheld
<1>3. /\ status' = [r \in Rows |-> IF r \in Oldest THEN "processing" ELSE status[r]]
      /\ attempts' = [r \in Rows |-> IF r \in Oldest THEN attempts[r] + 1 ELSE attempts[r]]
  BY DEF ClaimRows
<1>4. \/ Hold' = [Hold EXCEPT ![d] = Oldest] /\ UNCHANGED Lost
      \/ UNCHANGED Hold /\ Lost' = TRUE
  OBVIOUS
<1>5. Queue!Take(d, Oldest)
  BY <1>1, <1>2, <1>3, <1>4 DEF Queue!Take
<1>6. QED
  BY <1>1, <1>5 DEF Queue!Next

\* How a drain goes on after an update of its row.
Wrote(d) ==
    /\ \A e \in Drains \ {d} : Holds(e)' = Holds(e)
    /\ \/ Holds(d)' = Holds(d) \ {cur[d]} /\ UNCHANGED dbErrors
       \/ Holds(d)' \in {Holds(d), {}} /\ dbErrors' > 0

LEMMA QueueWrote ==
    ASSUME NEW d \in Drains, Wrote(d)
    PROVE  Queue!Wrote(d, cur[d])
<1> DEFINE Hold == [e \in Drains |-> Holds(e)]
           Lost == dbErrors > 0
<1>1. \/ Hold' = [Hold EXCEPT ![d] = @ \ {cur[d]}] /\ UNCHANGED Lost
      \/ Hold' \in {Hold, [Hold EXCEPT ![d] = {}]} /\ Lost' = TRUE
  BY DEF Wrote
<1>2. QED
  BY <1>1 DEF Queue!Wrote

\* A drain settles its row.
LEMMA QueueFinishes ==
    ASSUME NEW d \in Drains, cur[d] \in Rows, cur[d] \in Holds(d), Wrote(d),
           overran \/ dbErrors > 0 \/ status[cur[d]] = "processing",
           NEW s \in {"done", "failed"}, SetFinal(cur[d], s), UNCHANGED <<sweeps, overran>>,
           s = "done" => cur[d] \notin UnknownJobs,
           s = "failed" => \/ cur[d] \in UnknownJobs \/ attempts[cur[d]] >= MaxAttempts
                           \/ overran \/ dbErrors > 0
    PROVE  [Queue!Next]_Queue!queue
<1> DEFINE Hold == [e \in Drains |-> Holds(e)]
<1>1. status' = [status EXCEPT ![cur[d]] = s] /\ UNCHANGED attempts
  BY DEF SetFinal
<1>2. cur[d] \in Hold[d] /\ Queue!InProgress(cur[d])
  BY DEF Queue!InProgress
<1>3. Queue!Finish(d, cur[d])
  BY <1>1, <1>2, QueueWrote DEF Queue!Finish
<1>4. QED
  BY <1>2, <1>3 DEF Queue!Next

\* A drain puts its row back.
LEMMA QueueRetries ==
    ASSUME NEW d \in Drains, cur[d] \in Rows, cur[d] \in Holds(d), Wrote(d),
           overran \/ dbErrors > 0 \/ status[cur[d]] = "processing",
           attempts[cur[d]] < MaxAttempts \/ overran,
           ~KeyTaken(cur[d]), RequeueRow(d), UNCHANGED <<sweeps, overran>>
    PROVE  [Queue!Next]_Queue!queue
<1> DEFINE Hold == [e \in Drains |-> Holds(e)]
<1>1. status' = [status EXCEPT ![cur[d]] = "pending"] /\ UNCHANGED attempts
  BY DEF RequeueRow
<1>2. cur[d] \in Hold[d] /\ Queue!InProgress(cur[d])
  BY DEF Queue!InProgress
<1>3. Queue!Free(cur[d])
  BY DEF KeyTaken, Active, Queue!Free
<1>4. Queue!Retry(d, cur[d])
  BY <1>1, <1>2, <1>3, QueueWrote DEF Queue!Retry
<1>5. QED
  BY <1>2, <1>4 DEF Queue!Next

\* The three ways out of an update: runJob is over, drainOnce rejects, or the
\* catch block is entered.
LEMMA WroteCases ==
    ASSUME DrainOK, NEW d \in Drains, cur[d] \in Rows \ batch[d],
           \/ NextOf(d) /\ UNCHANGED dbErrors
           \/ Reject(d) /\ dbErrors' > 0
           \/ UNCHANGED <<cur, batch>> /\ dbErrors' > 0
    PROVE  Wrote(d)
<1>1. NoRow \notin Rows
  BY ConstantsOK
<1>2. CASE NextOf(d) /\ UNCHANGED dbErrors
  BY <1>1, <1>2 DEF NextOf, Wrote, Holds, DrainOK
<1>3. CASE Reject(d) /\ dbErrors' > 0
  BY <1>3 DEF Reject, Wrote, Holds, DrainOK
<1>4. CASE UNCHANGED <<cur, batch>> /\ dbErrors' > 0
  BY <1>4 DEF Wrote, Holds
<1>5. QED
  BY <1>2, <1>3, <1>4

LEMMA DbErrorCounts ==
    ASSUME TypeOK, DbError
    PROVE  dbErrors' > 0
BY ConstantsOK DEF TypeOK, HistoryOK, DbError

\* Sweeping, claiming and the walk through the batch.
LEMMA QueueReads ==
    ASSUME QueueInv, NEW d \in Drains, Sweep(d) \/ Claim(d) \/ NextRow(d) \/ Body(d)
    PROVE  [Queue!Next]_Queue!queue
<1>0. /\ TypeOK /\ DrainShape /\ (~overran => HeldIsLocked) /\ NoRow \notin Rows
      /\ {} \in SUBSET Drains
  BY ConstantsOK DEF QueueInv, FinalInv, DispatchInv
<1>1. CASE Sweep(d)
  <2>1. /\ \A e \in Drains : Holds(e)' = Holds(e)
        /\ UNCHANGED overran
    BY <1>1 DEF Sweep, Holds
  <2>2. CASE SweepRows /\ UNCHANGED dbErrors
    BY <1>0, <2>1, <2>2, QueueReclaims
  <2>3. CASE UNCHANGED <<table, sweeps>> /\ (UNCHANGED dbErrors \/ DbError)
    <3>1. UNCHANGED <<status, attempts, sweeps>> /\ (UNCHANGED dbErrors \/ dbErrors' > 0)
      BY <1>0, <2>3, DbErrorCounts DEF table
    <3>2. QED
      BY <1>0, <2>1, <3>1, QueueDrops
  <2>4. QED
    BY <1>1, <2>2, <2>3 DEF Sweep
<1>2. CASE Claim(d)
  <2>1. /\ Holds(d) = {} /\ UNCHANGED <<sweeps, overran>>
        /\ \A e \in Drains \ {d} : Holds(e)' = Holds(e)
    BY <1>0, <1>2 DEF Claim, Return, Reject, DrainShape, Holds, TypeOK, DrainOK, history
  <2>2. CASE Return(d) /\ UNCHANGED table
    <3>1. \A e \in Drains : Holds(e)' = Holds(e)
      BY <2>2 DEF Return, Holds
    <3>2. UNCHANGED <<status, attempts>> /\ (UNCHANGED dbErrors \/ dbErrors' > 0)
      BY <1>0, <2>2, DbErrorCounts DEF Return, table
    <3>3. QED
      BY <1>0, <2>1, <3>1, <3>2, QueueDrops
  <2>3. CASE ClaimRows /\ batch' = [batch EXCEPT ![d] = Oldest] /\ UNCHANGED <<cur, dbErrors>>
    <3>1. Holds(d)' = Oldest
      BY <1>0, <1>2, <2>3 DEF Claim, DrainShape, Holds, TypeOK, DrainOK
    <3>2. QED
      BY <1>0, <2>1, <2>3, <3>1, QueueTakes
  <2>4. CASE DbError /\ (ClaimRows \/ UNCHANGED table) /\ Reject(d)
    <3>1. Holds(d)' = Holds(d) /\ dbErrors' > 0
      BY <1>0, <2>1, <2>4, DbErrorCounts DEF Reject, Holds, TypeOK, DrainOK
    <3>2. CASE ClaimRows
      BY <1>0, <2>1, <3>1, <3>2, QueueTakes
    <3>3. CASE UNCHANGED table
      <4>1. UNCHANGED <<status, attempts>> /\ \A e \in Drains : Holds(e)' = Holds(e)
        BY <2>1, <3>1, <3>3 DEF table
      <4>2. QED
        BY <1>0, <2>1, <3>1, <4>1, QueueDrops
    <3>4. QED
      BY <2>4, <3>2, <3>3
  <2>5. QED
    BY <1>2, <2>2, <2>3, <2>4 DEF Claim
<1>3. CASE NextRow(d)
  <2>1. \A e \in Drains : Holds(e)' = Holds(e)
    <3>1. PICK r \in batch[d] : /\ cur' = [cur EXCEPT ![d] = r]
                               /\ batch' = [batch EXCEPT ![d] = @ \ {r}]
      BY <1>3 DEF NextRow
    <3>2. cur[d] = NoRow /\ r \in Rows
      BY <1>0, <1>3 DEF NextRow, DrainShape, TypeOK, DrainOK
    <3>3. QED
      BY <1>0, <3>1, <3>2 DEF Holds, TypeOK, DrainOK
  <2>2. UNCHANGED <<status, attempts, sweeps, overran, dbErrors>>
    BY <1>3 DEF NextRow, table, history, budget
  <2>3. QED
    BY <1>0, <2>1, <2>2, QueueDrops
<1>4. CASE Body(d)
  <2>1. /\ UNCHANGED <<status, attempts, sweeps, overran, dbErrors>>
        /\ \A e \in Drains : Holds(e)' = Holds(e)
    BY <1>4 DEF Body, table, history, budget, Holds
  <2>2. QED
    BY <1>0, <2>1, QueueDrops
<1>5. QED
  BY <1>1, <1>2, <1>3, <1>4

\* The updates of a drain.
LEMMA QueueWrites ==
    ASSUME QueueInv, NEW d \in Drains, Settle(d) \/ Retry(d) \/ GiveUp(d)
    PROVE  [Queue!Next]_Queue!queue
<1>0. /\ TypeOK /\ DrainOK /\ DrainShape /\ (~overran => HeldIsLocked) /\ BodyIsKnown
      /\ (~overran => NumberIsKept) /\ (~overran /\ dbErrors = 0 => CaughtIsProcessing)
      /\ {} \in SUBSET Drains /\ NoRow \notin Rows
  BY ConstantsOK DEF QueueInv, FinalInv, DispatchInv, TypeOK
<1>1. /\ pc[d] \in {"done", "unknown", "caught"} /\ cur[d] \in Rows \ batch[d]
      /\ cur[d] \in Holds(d) /\ UNCHANGED <<sweeps, overran>>
  BY <1>0 DEF Settle, Retry, GiveUp, DrainShape, Holds, history
<1>2. overran \/ dbErrors > 0 \/ status[cur[d]] = "processing"
  <2>1. dbErrors \in Nat
    BY <1>0, ConstantsOK DEF TypeOK, HistoryOK
  <2>2. QED
    BY <1>0, <1>1, <2>1 DEF HeldIsLocked, Locked, CaughtIsProcessing
<1>3. overran \/ got[d][cur[d]] = attempts[cur[d]]
  BY <1>0, <1>1 DEF NumberIsKept
<1>4. attempts[cur[d]] \in Nat /\ got[d][cur[d]] \in Nat /\ MaxAttempts \in Nat
  <2>1. got[d] \in [Rows -> Nat] /\ attempts \in [Rows -> Nat]
    BY <1>0 DEF TypeOK, TableOK, DrainOK
  <2>2. QED
    BY <1>1, <2>1, ConstantsOK
<1>5. ASSUME UNCHANGED table, UNCHANGED dbErrors \/ dbErrors' > 0,
             UNCHANGED <<cur, batch>> \/ Reject(d)
      PROVE  [Queue!Next]_Queue!queue
  <2>1. UNCHANGED <<status, attempts>>
    BY <1>5 DEF table
  <2>2. CASE UNCHANGED <<cur, batch>>
    <3>1. \A e \in Drains : Holds(e)' = Holds(e)
      BY <2>2 DEF Holds
    <3>2. QED
      BY <1>0, <1>1, <1>5, <2>1, <3>1, QueueDrops
  <2>3. CASE Reject(d)
    <3>1. \A e \in Drains : Holds(e)' = IF e \in {d} THEN {} ELSE Holds(e)
      BY <1>0, <2>3 DEF Reject, Holds, DrainOK
    <3>2. {d} \in SUBSET Drains
      OBVIOUS
    <3>3. QED
      BY <1>1, <1>5, <2>1, <3>1, <3>2, QueueDrops
  <2>4. QED
    BY <1>5, <2>2, <2>3
<1>6. CASE Settle(d)
  <2> DEFINE final == IF pc[d] = "done" THEN "done" ELSE "failed"
  <2>1. /\ final \in {"done", "failed"}
        /\ final = "done" => cur[d] \notin UnknownJobs
        /\ final = "failed" => cur[d] \in UnknownJobs
    BY <1>0, <1>6 DEF Settle, BodyIsKnown
  <2>2. \/ SetFinal(cur[d], final) /\ NextOf(d) /\ UNCHANGED dbErrors
        \/ SetFinal(cur[d], final) /\ UNCHANGED <<cur, batch>> /\ DbError
        \/ UNCHANGED table /\ UNCHANGED <<cur, batch>> /\ DbError
    BY <1>6 DEF Settle
  <2> HIDE DEF final
  <2>3. CASE SetFinal(cur[d], final) /\ Wrote(d)
    BY <1>1, <1>2, <2>1, <2>3, QueueFinishes
  <2>4. QED
    BY <1>0, <1>1, <1>5, <2>2, <2>3, WroteCases, DbErrorCounts
<1>7. CASE Retry(d)
  <2>1. attempts[cur[d]] < MaxAttempts \/ overran
    BY <1>3, <1>7 DEF Retry, MayRetry
  <2>2. \/ ~KeyTaken(cur[d]) /\ RequeueRow(d) /\ NextOf(d) /\ UNCHANGED dbErrors
        \/ Reject(d) /\ UNCHANGED <<table, dbErrors>>
        \/ DbError /\ Reject(d) /\ ~KeyTaken(cur[d]) /\ RequeueRow(d)
        \/ DbError /\ Reject(d) /\ UNCHANGED table
    BY <1>7 DEF Retry
  <2>3. CASE ~KeyTaken(cur[d]) /\ RequeueRow(d) /\ Wrote(d)
    BY <1>1, <1>2, <2>1, <2>3, QueueRetries
  <2>4. QED
    BY <1>0, <1>1, <1>5, <2>2, <2>3, WroteCases, DbErrorCounts
<1>8. CASE GiveUp(d)
  <2>1. attempts[cur[d]] >= MaxAttempts \/ overran
    BY <1>3, <1>4, <1>8 DEF GiveUp, MayRetry
  <2>2. \/ SetFinal(cur[d], "failed") /\ NextOf(d) /\ UNCHANGED dbErrors
        \/ DbError /\ Reject(d) /\ SetFinal(cur[d], "failed")
        \/ DbError /\ Reject(d) /\ UNCHANGED table
    BY <1>8 DEF GiveUp
  <2>3. CASE SetFinal(cur[d], "failed") /\ Wrote(d)
    BY <1>1, <1>2, <2>1, <2>3, QueueFinishes
  <2>4. QED
    BY <1>0, <1>1, <1>5, <2>2, <2>3, WroteCases, DbErrorCounts
<1>9. QED
  BY <1>6, <1>7, <1>8

\* Every step of the runner is a step of the queue, or the queue does not
\* see it.
LEMMA QueueStep ==
    ASSUME QueueInv, [Next]_vars
    PROVE  [Queue!Next]_Queue!queue
<1>0. TypeOK /\ DrainOK /\ {} \in SUBSET Drains
  BY DEF QueueInv, FinalInv, DispatchInv, TypeOK
<1>1. ASSUME NEW r \in Rows, Enqueue(r) \/ CronTick(r) PROVE [Queue!Next]_Queue!queue
  <2>1. /\ Insert(r) /\ UNCHANGED <<sweeps, overran, dbErrors>>
        /\ \A d \in Drains : Holds(d)' = Holds(d)
    BY <1>1 DEF Enqueue, CronTick, drain, history, budget, Holds
  <2>2. QED
    BY <2>1, QueueAdds
<1>2. ASSUME NEW r \in Rows, BackoffEnds(r) \/ LeaseEnds(r) \/ LeaseOverruns(r)
      PROVE  [Queue!Next]_Queue!queue
  <2>1. /\ UNCHANGED <<status, attempts, sweeps, dbErrors>>
        /\ UNCHANGED overran \/ overran' = TRUE
        /\ \A d \in Drains : Holds(d)' = Holds(d)
    BY <1>2 DEF BackoffEnds, LeaseEnds, LeaseOverruns, Expire, drain, history, budget, Holds
  <2>2. QED
    BY <1>0, <2>1, QueueDrops
<1>3. ASSUME NEW i \in Instances, Stop(i) PROVE [Queue!Next]_Queue!queue
  <2>1. /\ UNCHANGED <<status, attempts, sweeps, overran, dbErrors>>
        /\ \A d \in Drains : Holds(d)' = Holds(d)
    BY <1>3 DEF Stop, table, drain, history, Holds
  <2>2. QED
    BY <1>0, <2>1, QueueDrops
<1>4. ASSUME NEW i \in Instances, Exit(i) \/ Crash(i) PROVE [Queue!Next]_Queue!queue
  <2> DEFINE W == {d \in Drains : Host[d] = i}
  <2>1. Gone(i) /\ UNCHANGED dbErrors
    BY <1>4 DEF Exit, Crash, budget
  <2>2. /\ UNCHANGED <<status, attempts, sweeps, overran>>
        /\ \A d \in Drains : Holds(d)' = IF d \in W THEN {} ELSE Holds(d)
    BY <2>1 DEF Gone, table, history, Holds
  <2>3. W \in SUBSET Drains
    OBVIOUS
  <2>4. QED
    BY <2>1, <2>2, <2>3, QueueDrops
<1>5. ASSUME NEW d \in Drains, Start(Host[d], d) \/ Notified(d) \/ Poll(d)
      PROVE  [Queue!Next]_Queue!queue
  <2>1. /\ UNCHANGED <<status, attempts, sweeps, overran, dbErrors>>
        /\ \A e \in Drains : Holds(e)' = Holds(e)
    BY <1>5 DEF Start, Notified, Poll, table, history, budget, Holds
  <2>2. QED
    BY <1>0, <2>1, QueueDrops
<1>6. CASE UNCHANGED vars
  <2>1. /\ UNCHANGED <<status, attempts, sweeps, overran, dbErrors>>
        /\ \A e \in Drains : Holds(e)' = Holds(e)
    BY <1>6 DEF vars, table, drain, history, budget, Holds
  <2>2. QED
    BY <1>0, <2>1, QueueDrops
<1>7. QED
  BY <1>1, <1>2, <1>3, <1>4, <1>5, <1>6, QueueReads, QueueWrites DEF Next, DrainStep

LEMMA KnownStep == DrainOK /\ DrainShape /\ BodyIsKnown /\ [Next]_vars => BodyIsKnown'
<1> SUFFICES ASSUME DrainOK, DrainShape, BodyIsKnown, [Next]_vars PROVE BodyIsKnown'
  OBVIOUS
<1>1. CASE UNCHANGED <<pc, cur>>
  BY <1>1 DEF BodyIsKnown
<1>2. ASSUME NEW i \in Instances, Gone(i) PROVE BodyIsKnown'
  BY <1>2 DEF BodyIsKnown, Gone
<1>3. ASSUME NEW d \in Drains, Start(Host[d], d) \/ Notified(d) \/ Poll(d) \/ Sweep(d)
      PROVE  BodyIsKnown'
  BY <1>3 DEF BodyIsKnown, Start, Notified, Poll, Sweep, DrainOK
<1>4. ASSUME NEW d \in Drains, Return(d) \/ Reject(d) \/ NextOf(d) PROVE BodyIsKnown'
  BY <1>4 DEF BodyIsKnown, Return, Reject, NextOf, DrainOK
<1>5. ASSUME NEW d \in Drains, Claim(d) PROVE BodyIsKnown'
  <2>1. CASE pc' = [pc EXCEPT ![d] = "next"] /\ UNCHANGED cur
    BY <2>1 DEF BodyIsKnown, DrainOK
  <2>2. QED
    BY <1>4, <1>5, <2>1 DEF Claim
<1>6. ASSUME NEW d \in Drains, NextRow(d) PROVE BodyIsKnown'
  BY <1>6 DEF BodyIsKnown, NextRow, DrainOK
<1>7. ASSUME NEW d \in Drains, Body(d) PROVE BodyIsKnown'
  BY <1>7 DEF BodyIsKnown, Body, DrainOK
<1>8. ASSUME NEW d \in Drains, Settle(d) PROVE BodyIsKnown'
  <2>1. CASE pc' = [pc EXCEPT ![d] = "caught"] /\ UNCHANGED cur
    BY <2>1 DEF BodyIsKnown, DrainOK
  <2>2. QED
    BY <1>4, <1>8, <2>1 DEF Settle
<1>9. ASSUME NEW d \in Drains, Retry(d) \/ GiveUp(d) PROVE BodyIsKnown'
  BY <1>4, <1>9 DEF Retry, GiveUp
<1>10. ASSUME NEW r \in Rows, Enqueue(r) \/ CronTick(r) \/ BackoffEnds(r) \/ LeaseEnds(r)
                                 \/ LeaseOverruns(r)
       PROVE  UNCHANGED <<pc, cur>>
  BY <1>10 DEF Enqueue, CronTick, BackoffEnds, LeaseEnds, LeaseOverruns, Expire, drain
<1>11. ASSUME NEW i \in Instances, Stop(i) \/ Exit(i) \/ Crash(i)
       PROVE  UNCHANGED <<pc, cur>> \/ Gone(i)
  BY <1>11 DEF Stop, Exit, Crash, drain
<1>12. CASE UNCHANGED vars
  BY <1>1, <1>12 DEF vars, drain
<1>13. QED
  BY <1>1, <1>2, <1>3, <1>5, <1>6, <1>7, <1>8, <1>9, <1>10, <1>11, <1>12 DEF Next, DrainStep

\* Only a claim changes the number of a row, and it claims pending rows.
LEMMA NumberMoves ==
    ASSUME [Next]_vars, NEW r \in Rows, TableOK, status[r] # "pending"
    PROVE  attempts'[r] = attempts[r]
<1>1. UNCHANGED attempts \/ ClaimRows
  BY DEF Next, Enqueue, CronTick, Insert, BackoffEnds, LeaseEnds, LeaseOverruns, Expire,
     Stop, Exit, Crash, Gone, Start, Notified, Poll, DrainStep, Sweep, SweepRows, Claim,
     NextRow, Body, Settle, Retry, GiveUp, SetFinal, RequeueRow, table, vars
<1>2. QED
  BY <1>1 DEF ClaimRows, Oldest, Claimable

\* A drain gets rows, with their numbers, from its claims only.
LEMMA HeldMoves ==
    ASSUME DrainOK, DrainShape, [Next]_vars, NEW d \in Drains
    PROVE  \/ /\ Holds(d)' \subseteq Holds(d)
              /\ \A r \in Holds(d)' : got'[d][r] = got[d][r]
           \/ /\ Holds(d)' = Oldest /\ ClaimRows
              /\ \A r \in Oldest : got'[d][r] = attempts[r] + 1
<1> DEFINE Kept == /\ Holds(d)' \subseteq Holds(d)
                   /\ \A r \in Holds(d)' : got'[d][r] = got[d][r]
<1>0. NoRow \notin Rows
  BY ConstantsOK
<1>1. ASSUME UNCHANGED <<cur[d], batch[d], got[d]>> PROVE Kept
  BY <1>1 DEF Holds
<1>2. ASSUME Holds(d)' = {} PROVE Kept
  BY <1>2
<1>3. ASSUME NEW i \in Instances, Stop(i) \/ Exit(i) \/ Crash(i) PROVE Kept
  <2>1. UNCHANGED drain \/ Gone(i)
    BY <1>3 DEF Stop, Exit, Crash
  <2>2. CASE Gone(i)
    BY <2>2, <1>1, <1>2 DEF Gone, Holds
  <2>3. QED
    BY <2>1, <2>2, <1>1 DEF drain
<1>4. ASSUME NEW e \in Drains, e # d, DrainStep(e) PROVE Kept
  <2>1. UNCHANGED <<cur[d], batch[d], got[d]>>
    BY <1>4 DEF DrainStep, Sweep, Claim, Return, Reject, NextRow, Body, Settle, Retry, GiveUp,
       NextOf, DrainOK
  <2>2. QED
    BY <1>1, <2>1
<1>5. ASSUME Sweep(d) \/ Body(d) PROVE Kept
  BY <1>1, <1>5 DEF Sweep, Body
<1>6. ASSUME NextRow(d) PROVE Kept
  <2>1. PICK r \in batch[d] : /\ cur' = [cur EXCEPT ![d] = r]
                             /\ batch' = [batch EXCEPT ![d] = @ \ {r}]
    BY <1>6 DEF NextRow
  <2>2. Holds(d)' \subseteq Holds(d) /\ UNCHANGED got
    BY <1>6, <2>1 DEF NextRow, Holds, DrainOK
  <2>3. QED
    BY <2>2
<1>7. ASSUME NextOf(d), cur[d] \in Rows \ batch[d] PROVE Kept
  <2>1. Holds(d)' \subseteq Holds(d) \ {cur[d]}
    BY <1>0, <1>7 DEF NextOf, Holds, DrainOK
  <2>2. \A r \in Rows \ {cur[d]} : got'[d][r] = got[d][r]
    BY <1>7 DEF NextOf, DrainOK
  <2>3. Holds(d) \subseteq Rows
    BY DEF Holds, DrainOK
  <2>4. QED
    BY <2>1, <2>2, <2>3
<1>8. ASSUME Reject(d) PROVE Kept
  BY <1>2, <1>8 DEF Reject, Holds, DrainOK
<1>9. ASSUME Settle(d) \/ Retry(d) \/ GiveUp(d) PROVE Kept
  <2>1. cur[d] \in Rows \ batch[d]
    BY <1>9 DEF Settle, Retry, GiveUp, DrainShape
  <2>2. NextOf(d) \/ Reject(d) \/ UNCHANGED <<cur, batch, got>>
    BY <1>9 DEF Settle, Retry, GiveUp
  <2>3. QED
    BY <1>1, <1>7, <1>8, <2>1, <2>2
<1>10. CASE Claim(d)
  <2>1. CASE Return(d)
    BY <1>1, <2>1 DEF Return
  <2>2. CASE /\ ClaimRows /\ batch' = [batch EXCEPT ![d] = Oldest] /\ UNCHANGED cur
             /\ got' = [got EXCEPT ![d] = [r \in Rows |-> IF r \in Oldest THEN attempts[r] + 1
                                                                         ELSE 0]]
    <3>1. Holds(d)' = Oldest
      BY <1>0, <1>10, <2>2 DEF Claim, DrainShape, Holds, DrainOK
    <3>2. \A r \in Oldest : got'[d][r] = attempts[r] + 1
      BY <2>2 DEF DrainOK, Oldest
    <3>3. QED
      BY <2>2, <3>1, <3>2
  <2>3. QED
    BY <1>8, <1>10, <2>1, <2>2 DEF Claim
<1>11. ASSUME NEW r \in Rows, Enqueue(r) \/ CronTick(r) \/ BackoffEnds(r) \/ LeaseEnds(r)
                                 \/ LeaseOverruns(r)
       PROVE  Kept
  BY <1>1, <1>11 DEF Enqueue, CronTick, BackoffEnds, LeaseEnds, LeaseOverruns, Expire, drain
<1>12. ASSUME NEW e \in Drains, Start(Host[e], e) \/ Notified(e) \/ Poll(e) PROVE Kept
  BY <1>1, <1>12 DEF Start, Notified, Poll
<1>13. CASE UNCHANGED vars
  BY <1>1, <1>13 DEF vars, drain
<1>14. QED
  BY <1>3, <1>4, <1>5, <1>6, <1>9, <1>10, <1>11, <1>12, <1>13 DEF Next, DrainStep

LEMMA QueueInvStep == QueueInv /\ [Next]_vars => QueueInv'
<1> SUFFICES ASSUME QueueInv, [Next]_vars PROVE QueueInv'
  OBVIOUS
<1>0. TypeOK /\ TableOK /\ DrainOK /\ DrainShape
  BY DEF QueueInv, FinalInv, DispatchInv, TypeOK
<1>1. FinalInv' /\ BodyIsKnown'
  BY <1>0, FinalStep, KnownStep DEF QueueInv
<1>2. ASSUME ~overran', NEW d \in Drains, NEW r \in Holds(d)' PROVE got'[d][r] = attempts'[r]
  <2>1. ~overran
    BY <1>2, OverranStays
  <2>2. NumberIsKept /\ HeldIsLocked
    BY <2>1 DEF QueueInv, FinalInv, DispatchInv
  <2>3. CASE Holds(d)' \subseteq Holds(d) /\ got'[d][r] = got[d][r]
    <3>1. r \in Holds(d) /\ got[d][r] = attempts[r]
      BY <1>2, <2>2, <2>3 DEF NumberIsKept
    <3>2. Locked(d, r) /\ r \in Rows
      BY <1>0, <2>2, <3>1 DEF HeldIsLocked, Holds, DrainOK
    <3>3. QED
      BY <1>0, <2>3, <3>1, <3>2, NumberMoves DEF Locked
  <2>4. CASE Holds(d)' = Oldest /\ ClaimRows /\ got'[d][r] = attempts[r] + 1
    BY <1>2, <2>4 DEF ClaimRows, Oldest
  <2>5. QED
    BY <1>0, <1>2, <2>3, <2>4, HeldMoves
<1>3. QED
  BY <1>1, <1>2 DEF QueueInv, NumberIsKept

LEMMA QueueInit == Init => QueueInv /\ Queue!Init
<1> SUFFICES ASSUME Init PROVE QueueInv /\ Queue!Init
  OBVIOUS
<1>1. FinalInv
  BY InitDispatchInv DEF FinalInv, CaughtIsProcessing, Init
<1>2. \A d \in Drains : Holds(d) = {}
  BY DEF Init, Holds
<1>3. QueueInv
  BY <1>1, <1>2 DEF QueueInv, NumberIsKept, BodyIsKnown, Init
<1>4. Queue!Init
  BY <1>2 DEF Init, Queue!Init
<1>5. QED
  BY <1>3, <1>4

\* The cron queue of an app, with its runners on every instance, implements
\* the job queue, whatever instances crash, leases overrun and calls reject.
THEOREM RunnerImplementsQueue == Spec => ImplementsQueue
<1>1. QueueInv /\ [Next]_vars => [Queue!Next]_Queue!queue
  BY QueueStep
<1>2. QED
  BY <1>1, QueueInit, QueueInvStep, PTL DEF Spec, ImplementsQueue, Queue!Spec
=============================================================================
