---------------------------- MODULE HandlerProofs ----------------------------
(***************************************************************************)
(* Proofs about two helpers of the handler template, for any number of     *)
(* rows, attempts, operations, tokens, retries and bulk operations.        *)
(*                                                                         *)
(* Workflow: what an attempt holds is its row's status "running"; only the *)
(* sweep takes it away.  ShopifyClient: while the platform's token is the  *)
(* one Shopify accepts, so is a token fetched past a 401.                  *)
(***************************************************************************)
EXTENDS Workflow, ShopifyClient, FiniteSetTheorems, TLAPS

-----------------------------------------------------------------------------
(* Workflow                                                                *)

\* An attempt between its claim and the statement that ends it.
AtWork(a) == attempt[a].at \in {"callback", "completed", "failed"}

\* An attempt at work has a row; unless a sweep took that row once, the row is
\* running and the attempt is alone on it.
HoldsRow ==
    /\ \A a \in Attempts : AtWork(a) => On(a) \in WorkRows
    /\ \A a \in Attempts : AtWork(a) /\ On(a) \notin swept => work[On(a)] = "running"
    /\ \A a, b \in Attempts :
          a # b /\ AtWork(a) /\ AtWork(b) /\ On(a) = On(b) => On(a) \in swept

WorkflowInv == WorkflowTypeOK /\ HoldsRow

LEMMA WorkflowTypeStep ==
    ASSUME WorkflowTypeOK, [WorkflowNext]_workflowVars
    PROVE  WorkflowTypeOK'
<1> USE WorkflowAssumption DEF WorkflowTypeOK
<1>1. ASSUME NEW a \in Attempts, NEW r \in WorkRows, claim(a, r) PROVE WorkflowTypeOK'
  BY <1>1 DEF claim, Step, NoFault
<1>2. ASSUME NEW a \in Attempts, Callback(a) PROVE WorkflowTypeOK'
  BY <1>2 DEF Callback, Step, NoFault
<1>3. ASSUME NEW a \in Attempts, Terminate(a) PROVE WorkflowTypeOK'
  BY <1>3 DEF Terminate, Step, NoFault, WorkFault
<1>4. ASSUME NEW a \in Attempts, KillAttempt(a) PROVE WorkflowTypeOK'
  BY <1>4 DEF KillAttempt, Step, WorkFault
<1>5. ASSUME NEW r \in WorkRows, Age(r) PROVE WorkflowTypeOK'
  BY <1>5 DEF Age
<1>6. CASE sweepStale
  BY <1>6 DEF sweepStale, Swept
<1>7. CASE UNCHANGED workflowVars
  BY <1>7 DEF workflowVars
<1>8. QED
  BY <1>1, <1>2, <1>3, <1>4, <1>5, <1>6, <1>7 DEF WorkflowNext

LEMMA HoldsRowStep ==
    ASSUME WorkflowInv, [WorkflowNext]_workflowVars
    PROVE  HoldsRow'
<1> USE DEF WorkflowInv, WorkflowTypeOK, HoldsRow, AtWork, On
\* A row that is claimed is not running: nobody holds it, or it was swept.
<1>1. ASSUME NEW a \in Attempts, NEW r \in WorkRows, claim(a, r) PROVE HoldsRow'
  BY <1>1 DEF claim, Step, ClaimableWork, From
<1>2. ASSUME NEW a \in Attempts, Callback(a) PROVE HoldsRow'
  BY <1>2 DEF Callback, Step
\* The row an attempt ends is held by no other, or it was swept.
<1>3. ASSUME NEW a \in Attempts, Terminate(a) PROVE HoldsRow'
  BY <1>3 DEF Terminate, Step
<1>4. ASSUME NEW a \in Attempts, KillAttempt(a) PROVE HoldsRow'
  BY <1>4 DEF KillAttempt, Step
<1>5. ASSUME NEW r \in WorkRows, Age(r) PROVE HoldsRow'
  BY <1>5 DEF Age
<1>6. CASE sweepStale
  BY <1>6 DEF sweepStale, Swept
<1>7. CASE UNCHANGED workflowVars
  BY <1>7 DEF workflowVars
<1>8. QED
  BY <1>1, <1>2, <1>3, <1>4, <1>5, <1>6, <1>7 DEF WorkflowNext

LEMMA WorkflowInvariant == WorkflowSpec => []WorkflowInv
<1>1. WorkflowInit => WorkflowInv
  BY WorkflowAssumption
  DEF WorkflowInit, WorkflowInv, WorkflowTypeOK, HoldsRow, AtWork
<1>2. WorkflowInv /\ [WorkflowNext]_workflowVars => WorkflowInv'
  BY WorkflowTypeStep, HoldsRowStep DEF WorkflowInv
<1>3. QED
  BY <1>1, <1>2, PTL DEF WorkflowSpec

\* Rows, attempts and the sweep's history keep their types (workflow.ts).
THEOREM WorkflowTypeCorrect == WorkflowSpec => []WorkflowTypeOK
<1>1. WorkflowInv => WorkflowTypeOK
  BY DEF WorkflowInv
<1>2. QED
  BY <1>1, WorkflowInvariant, PTL

\* Two callbacks are on one row only if a sweep once took it (workflow.ts).
THEOREM OverlapsWereSwept == WorkflowSpec => []OverlapWasSwept
<1>1. ASSUME WorkflowInv, NEW r \in WorkRows, r \notin swept
      PROVE  Working(r) = {} \/ \E a \in Attempts : Working(r) = {a}
  BY <1>1 DEF WorkflowInv, HoldsRow, Working, AtWork
<1>2. ASSUME WorkflowInv, NEW r \in WorkRows, r \notin swept
      PROVE  ~(Cardinality(Working(r)) > 1)
  <2>1. Cardinality(Working(r)) \in {0, 1}
    BY <1>1, <1>2, FS_EmptySet, FS_Singleton
  <2>2. QED
    BY <2>1
<1>3. WorkflowInv => OverlapWasSwept
  BY <1>2 DEF OverlapWasSwept
<1>4. QED
  BY <1>3, WorkflowInvariant, PTL

-----------------------------------------------------------------------------
(* ShopifyClient                                                           *)

\* The bounds, as the proofs use them.
LEMMA ShopifyBounds ==
    /\ RetryAttempts \in Nat /\ RetryAttempts >= 1
    /\ ThrottleRetries \in Nat /\ ThrottleRetries >= 1
    /\ MaxTokens \in Nat /\ MaxTokens >= 1
    /\ RetryBudget \in Nat /\ ThrottleBudget \in Nat
    /\ MaxBulk \in Nat /\ MaxTroubles \in Nat
BY ShopifyAssumption

LEMMA NoOpType ==
    ASSUME NEW top \in Nat, NEW last \in Nat
    PROVE  NoOp \in OpTypes(top, last)
BY ShopifyBounds DEF NoOp, OpTypes, Places

\* getAccessToken and a round of with401Retry keep the operation's type, its
\* bulk operation and its history.
LEMMA WithTokenType ==
    ASSUME NEW top \in Nat, NEW last \in Nat, NEW x \in OpTypes(top, last),
           NEW token \in 0 .. top
    PROVE  LET y == WithToken(x, token)
           IN  /\ y \in OpTypes(top, last)
               /\ y.at = IF token = 0 THEN "fetch" ELSE "request"
               /\ y.token = token /\ y.refreshed = x.refreshed
               /\ y.id = x.id /\ y.rows = x.rows /\ y.aged = x.aged
<1> DEFINE place == IF token = 0 THEN "fetch" ELSE "request"
           z == [x EXCEPT !.token = token, !.at = place, !.tries = 1, !.waited = 0]
<1>1. place \in Places /\ 1 \in 0 .. ThrottleRetries /\ 0 \in 0 .. ThrottleBudget
  BY ShopifyBounds DEF Places
<1> HIDE DEF place
<1>2. /\ z \in OpTypes(top, last) /\ z.at = place /\ z.token = token
      /\ z.refreshed = x.refreshed /\ z.id = x.id /\ z.rows = x.rows /\ z.aged = x.aged
  BY <1>1 DEF OpTypes
<1>3. WithToken(x, token) = z
  BY DEF WithToken, place
<1> HIDE DEF z
<1>4. QED
  BY <1>2, <1>3 DEF place

LEMMA AttemptType ==
    ASSUME NEW top \in Nat, NEW last \in Nat, NEW x \in OpTypes(top, last),
           cache \in 0 .. top
    PROVE  LET y == Attempt(x)
           IN  /\ y \in OpTypes(top, last)
               /\ y.at \in {"fetch", "request"} /\ ~y.refreshed
               /\ y.id = x.id /\ y.rows = x.rows /\ y.aged = x.aged
<1> DEFINE z == [x EXCEPT !.refreshed = FALSE]
           token == IF x.hint # 0 THEN x.hint ELSE cache
<1>1. /\ z \in OpTypes(top, last) /\ z.refreshed = FALSE /\ z.hint = x.hint
      /\ z.id = x.id /\ z.rows = x.rows /\ z.aged = x.aged
      /\ token \in 0 .. top
  BY DEF OpTypes
<1>2. Attempt(x) = WithToken(z, token)
  BY DEF Attempt
<1> HIDE DEF z, token
<1>3. QED
  BY <1>1, <1>2, WithTokenType

LEMMA CallType ==
    ASSUME NEW top \in Nat, NEW last \in Nat, NEW x \in OpTypes(top, last),
           NEW query \in {"graphql", "start", "poll"}, cache \in 0 .. top
    PROVE  LET y == Call(x, query)
           IN  /\ y \in OpTypes(top, last)
               /\ y.at \in {"fetch", "request"} /\ ~y.refreshed
               /\ y.id = x.id /\ y.rows = x.rows /\ y.aged = x.aged
<1> DEFINE z == [x EXCEPT !.query = query, !.attempt = 1, !.slept = 0]
<1>0. 1 \in 0 .. RetryAttempts /\ 0 \in 0 .. RetryBudget
  BY ShopifyBounds
<1>1. /\ z \in OpTypes(top, last)
      /\ z.id = x.id /\ z.rows = x.rows /\ z.aged = x.aged
  BY <1>0 DEF OpTypes
<1>2. Call(x, query) = Attempt(z)
  BY DEF Call
<1> HIDE DEF z
<1>3. QED
  BY <1>1, <1>2, AttemptType

\* What an operation may go on as, in one step: see HealthyToken and RowsAreOwn.
Keeps(x, y) == y.aged = x.aged /\ y.id = x.id /\ y.rows = x.rows

LEMMA RetriedType ==
    ASSUME ShopifyTypeOK, NEW o \in Operations, NEW delay \in Nat, Retried(o, delay)
    PROVE  \E y \in OpTypes(valid, Len(bulk)) :
              /\ ops' = [ops EXCEPT ![o] = y]
              /\ \/ y = NoOp
                 \/ /\ Keeps(ops[o], y)
                    /\ \/ ops[o].at = "download" /\ y.at = "download"
                       \/ ops[o].at # "download" /\ y.at \in {"fetch", "request"} /\ ~y.refreshed
<1> DEFINE z == [ops[o] EXCEPT !.attempt = @ + 1, !.slept = @ + delay]
<1>1. ops[o] \in OpTypes(valid, Len(bulk)) /\ valid \in Nat /\ Len(bulk) \in Nat
      /\ cache \in 0 .. valid
  BY ShopifyBounds DEF ShopifyTypeOK
<1>2. CASE ops[o].attempt = RetryAttempts \/ ops[o].slept + delay > RetryBudget
  BY <1>1, <1>2, NoOpType DEF Retried, End
<1>3. CASE ~(ops[o].attempt = RetryAttempts \/ ops[o].slept + delay > RetryBudget)
  <2>1. ops[o].attempt + 1 \in 0 .. RetryAttempts /\ ops[o].slept + delay \in 0 .. RetryBudget
    <3>1. ops[o].attempt \in 0 .. RetryAttempts /\ ops[o].slept \in 0 .. RetryBudget
      BY <1>1 DEF OpTypes
    <3>2. QED
      BY <1>3, <3>1, ShopifyBounds
  <2>2. /\ z \in OpTypes(valid, Len(bulk)) /\ Keeps(ops[o], z)
        /\ z.at = ops[o].at
    <3> DEFINE next == ops[o].attempt + 1
               slept == ops[o].slept + delay
    <3>1. z = [ops[o] EXCEPT !.attempt = next, !.slept = slept]
      OBVIOUS
    <3> HIDE DEF next, slept, z
    <3>2. next \in 0 .. RetryAttempts /\ slept \in 0 .. RetryBudget
      BY <2>1 DEF next, slept
    <3> DEFINE x == ops[o]
    <3>3. x \in OpTypes(valid, Len(bulk)) /\ z = [x EXCEPT !.attempt = next, !.slept = slept]
      BY <1>1, <3>1
    <3> HIDE DEF x
    <3>4. z \in OpTypes(valid, Len(bulk)) /\ Keeps(x, z) /\ z.at = x.at
      BY <3>2, <3>3 DEF OpTypes, Keeps
    <3>5. QED
      BY <3>4 DEF x
  <2>3. ops' = [ops EXCEPT ![o] = IF z.at = "download" THEN z ELSE Attempt(z)]
    BY <1>3 DEF Retried
  <2> HIDE DEF z
  <2>4. CASE z.at = "download"
    BY <2>2, <2>3, <2>4
  <2>5. CASE z.at # "download"
    <3>1. /\ Attempt(z) \in OpTypes(valid, Len(bulk))
          /\ Attempt(z).at \in {"fetch", "request"} /\ ~Attempt(z).refreshed
          /\ Keeps(z, Attempt(z))
      BY <1>1, <2>2, AttemptType DEF Keeps
    <3>2. Keeps(ops[o], Attempt(z))
      BY <2>2, <3>1 DEF Keeps
    <3>3. QED
      BY <2>2, <2>3, <2>5, <3>1, <3>2
  <2>6. QED
    BY <2>4, <2>5
<1>4. QED
  BY <1>2, <1>3

LEMMA OpTypesGrow ==
    ASSUME NEW top \in Nat, NEW last \in Nat, NEW top2 \in Nat, NEW last2 \in Nat,
           top <= top2, last <= last2
    PROVE  OpTypes(top, last) \subseteq OpTypes(top2, last2)
<1>1. 0 .. top \subseteq 0 .. top2 /\ 0 .. last \subseteq 0 .. last2
  OBVIOUS
<1>2. QED
  BY <1>1 DEF OpTypes

(* An operation that knows of no time at which the platform had a bad      *)
(* token runs while it has a good one, and a token it fetched past a 401   *)
(* is that one; a 401 reaches the app's code only after such a time.       *)
HealthyToken(op) ==
    /\ op.at \notin {"idle", "download"} /\ ~op.aged => valid = onFile
    /\ op.refreshed /\ op.at \in {"fetched", "request"} /\ ~op.aged => op.token = onFile
    /\ op.at = "unauthorized" => op.aged

OwnRows(op) == op.rows # 0 => op.rows = op.id

Sound(op) == HealthyToken(op) /\ OwnRows(op)

ShopifyInv == ShopifyTypeOK /\ \A o \in Operations : Sound(ops[o])

\* A step of one operation, which goes on as y.
LEMMA OperationStep ==
    ASSUME ShopifyInv, NEW o \in Operations, NEW y, Sound(y),
           valid' = valid, onFile' = onFile, cache' \in 0 .. valid,
           troubles' \in 0 .. MaxTroubles,
           bulk' \in Seq({"RUNNING", "COMPLETED", "STOPPED"}), Len(bulk') >= Len(bulk),
           y \in OpTypes(valid, Len(bulk')), ops' = [ops EXCEPT ![o] = y]
    PROVE  ShopifyInv'
<1>1. OpTypes(valid, Len(bulk)) \subseteq OpTypes(valid, Len(bulk'))
  <2>1. valid \in Nat /\ Len(bulk) \in Nat /\ Len(bulk') \in Nat
    BY ShopifyBounds DEF ShopifyInv, ShopifyTypeOK
  <2>2. QED
    BY <2>1, OpTypesGrow
<1>2. ops' \in [Operations -> OpTypes(valid', Len(bulk'))]
  BY <1>1 DEF ShopifyInv, ShopifyTypeOK
<1>3. ShopifyTypeOK'
  BY <1>2 DEF ShopifyInv, ShopifyTypeOK
<1>4. ASSUME NEW x \in Operations PROVE Sound(ops[x])'
  <2>1. Sound(ops'[x])
    BY DEF ShopifyInv, ShopifyTypeOK
  <2>2. QED
    BY <2>1 DEF Sound, HealthyToken, OwnRows
<1>5. QED
  BY <1>3, <1>4 DEF ShopifyInv

LEMMA RetriedSound ==
    ASSUME ShopifyInv, NEW o \in Operations, NEW delay \in Nat, Retried(o, delay),
           ops[o].at \in {"fetch", "request", "download"}
    PROVE  \E y \in OpTypes(valid, Len(bulk)) : Sound(y) /\ ops' = [ops EXCEPT ![o] = y]
<1>1. ShopifyTypeOK /\ Sound(ops[o])
  BY DEF ShopifyInv
<1>2. PICK y \in OpTypes(valid, Len(bulk)) :
         /\ ops' = [ops EXCEPT ![o] = y]
         /\ \/ y = NoOp
            \/ /\ Keeps(ops[o], y)
               /\ \/ ops[o].at = "download" /\ y.at = "download"
                  \/ ops[o].at # "download" /\ y.at \in {"fetch", "request"} /\ ~y.refreshed
  BY <1>1, RetriedType
<1>3. CASE y = NoOp
  BY <1>2, <1>3 DEF NoOp, Sound, HealthyToken, OwnRows
<1>4. CASE y # NoOp
  <2>1. y.aged = ops[o].aged /\ y.id = ops[o].id /\ y.rows = ops[o].rows
    BY <1>2, <1>4 DEF Keeps
  <2>2. OwnRows(y)
    BY <1>1, <2>1 DEF Sound, OwnRows
  <2>3. HealthyToken(y)
    BY <1>1, <1>2, <1>4, <2>1 DEF Sound, HealthyToken
  <2>4. QED
    BY <1>2, <2>2, <2>3 DEF Sound
<1>5. QED
  BY <1>3, <1>4

LEMMA OperationFacts ==
    ASSUME ShopifyInv, NEW o \in Operations
    PROVE  /\ ops[o] \in OpTypes(valid, Len(bulk)) /\ Sound(ops[o])
           /\ NoOp \in OpTypes(valid, Len(bulk)) /\ Sound(NoOp)
           /\ valid \in Nat /\ Len(bulk) \in Nat
           /\ onFile \in 1 .. valid /\ cache \in 0 .. valid /\ 0 \in 0 .. valid
           /\ bulk \in Seq({"RUNNING", "COMPLETED", "STOPPED"})
           /\ Len(bulk) >= Len(bulk)
<1>1. valid \in Nat /\ Len(bulk) \in Nat
  BY ShopifyBounds DEF ShopifyInv, ShopifyTypeOK
<1>2. NoOp \in OpTypes(valid, Len(bulk)) /\ Sound(NoOp)
  BY <1>1, NoOpType DEF NoOp, Sound, HealthyToken, OwnRows
<1>3. QED
  BY <1>1, <1>2 DEF ShopifyInv, ShopifyTypeOK

LEMMA TroublesType ==
    ASSUME ShopifyInv, Trouble \/ Calm
    PROVE  troubles' \in 0 .. MaxTroubles
BY ShopifyBounds DEF ShopifyInv, ShopifyTypeOK, Trouble, Calm

\* A bulk operation that ends or starts leaves a list of them.
LEMMA BulkType ==
    ASSUME ShopifyInv
    PROVE  /\ \A i \in DOMAIN bulk, status \in {"COMPLETED", "STOPPED"} :
                 LET b == [bulk EXCEPT ![i] = status]
                 IN  b \in Seq({"RUNNING", "COMPLETED", "STOPPED"}) /\ Len(b) = Len(bulk)
           /\ LET b == Append(bulk, "RUNNING")
              IN  b \in Seq({"RUNNING", "COMPLETED", "STOPPED"}) /\ Len(b) = Len(bulk) + 1
BY DEF ShopifyInv, ShopifyTypeOK

LEMMA ShopSteps ==
    ASSUME ShopifyInv
    PROVE  /\ Reinstall => ShopifyInv'
           /\ StoreSecret => ShopifyInv'
           /\ OthersStart => ShopifyInv'
           /\ \A i \in DOMAIN bulk, status \in {"COMPLETED", "STOPPED"} :
                 BulkEnds(i, status) => ShopifyInv'
<1>0. /\ valid \in Nat /\ Len(bulk) \in Nat /\ onFile \in 1 .. valid /\ cache \in 0 .. valid
      /\ MaxTokens \in Nat /\ valid <= MaxTokens
  BY ShopifyBounds DEF ShopifyInv, ShopifyTypeOK
<1>1. CASE Reinstall
  <2>1. /\ valid' = valid + 1 /\ valid' \in 1 .. MaxTokens /\ onFile' \in 1 .. valid'
        /\ cache' \in 0 .. valid' /\ onFile' # valid' /\ bulk' = bulk /\ troubles' = troubles
    BY <1>0, <1>1 DEF Reinstall
  <2>2. ASSUME NEW o \in Operations
        PROVE  LET y == [ops[o] EXCEPT !.aged = ops[o].aged \/ ops[o].at # "idle"]
               IN  /\ ops'[o] = y /\ y \in OpTypes(valid', Len(bulk'))
                   /\ y.at = ops[o].at /\ y.id = ops[o].id /\ y.rows = ops[o].rows
                   /\ ops[o].at # "idle" => y.aged
    <3> DEFINE hurt == ops[o].aged \/ ops[o].at # "idle"
               y == [ops[o] EXCEPT !.aged = hurt]
    <3>1. ops[o] \in OpTypes(valid, Len(bulk))
      BY DEF ShopifyInv, ShopifyTypeOK
    <3>2. ops[o] \in OpTypes(valid', Len(bulk'))
      BY <1>0, <2>1, <3>1, OpTypesGrow
    <3>3. hurt \in BOOLEAN
      BY <3>1 DEF OpTypes
    <3>4. ops'[o] = y
      BY <1>1, <2>1 DEF Reinstall, Aging
    <3>5. ops[o].at # "idle" => hurt
      OBVIOUS
    <3> HIDE DEF hurt
    <3>6. /\ y \in OpTypes(valid', Len(bulk')) /\ y.aged = hurt
          /\ y.at = ops[o].at /\ y.id = ops[o].id /\ y.rows = ops[o].rows
      BY <3>2, <3>3 DEF OpTypes
    <3>7. QED
      BY <3>4, <3>5, <3>6 DEF hurt
  <2>3. ops' \in [Operations -> OpTypes(valid', Len(bulk'))]
    <3>1. ops' = [o \in Operations |-> ops'[o]]
      BY <1>1 DEF Reinstall, Aging
    <3>2. \A o \in Operations : ops'[o] \in OpTypes(valid', Len(bulk'))
      BY <2>2
    <3>3. QED
      BY <3>1, <3>2
  <2>4. ShopifyTypeOK'
    BY <2>1, <2>3 DEF ShopifyInv, ShopifyTypeOK
  <2>5. ASSUME NEW o \in Operations PROVE Sound(ops[o])'
    <3>1. Sound(ops[o])
      BY DEF ShopifyInv
    <3>2. QED
      BY <2>2, <3>1 DEF Sound, HealthyToken, OwnRows
  <2>6. QED
    BY <2>4, <2>5 DEF ShopifyInv
<1>2. CASE StoreSecret
  <2>1. onFile' = valid /\ onFile # valid /\ valid' = valid /\ cache' = cache /\ ops' = ops
        /\ bulk' = bulk /\ troubles' = troubles
    BY <1>2 DEF StoreSecret
  <2>2. ShopifyTypeOK'
    BY <1>0, <2>1 DEF ShopifyInv, ShopifyTypeOK
  <2>3. ASSUME NEW o \in Operations PROVE Sound(ops[o])'
    BY <2>1 DEF ShopifyInv, Sound, HealthyToken, OwnRows
  <2>4. QED
    BY <2>2, <2>3 DEF ShopifyInv
<1>3. ASSUME bulk' \in Seq({"RUNNING", "COMPLETED", "STOPPED"}), Len(bulk') >= Len(bulk),
             valid' = valid, onFile' = onFile, cache' = cache, ops' = ops, troubles' = troubles
      PROVE  ShopifyInv'
  <2>1. OpTypes(valid, Len(bulk)) \subseteq OpTypes(valid, Len(bulk'))
    <3>1. Len(bulk') \in Nat
      BY <1>3
    <3>2. QED
      BY <1>0, <1>3, <3>1, OpTypesGrow
  <2>2. ShopifyTypeOK'
    BY <1>3, <2>1 DEF ShopifyInv, ShopifyTypeOK
  <2>3. QED
    BY <1>3, <2>2 DEF ShopifyInv, Sound, HealthyToken, OwnRows
<1>4. CASE OthersStart
  BY <1>0, <1>3, <1>4, BulkType DEF OthersStart
<1>5. ASSUME NEW i \in DOMAIN bulk, NEW status \in {"COMPLETED", "STOPPED"},
             BulkEnds(i, status)
      PROVE  ShopifyInv'
  BY <1>0, <1>3, <1>5, BulkType DEF BulkEnds
<1>6. QED
  BY <1>1, <1>2, <1>4, <1>5

\* Looping forgets all but the operation's own: hint, bulk operation, history.
LEMMA LoopingType ==
    ASSUME NEW top \in Nat, NEW last \in Nat, NEW x \in OpTypes(top, last)
    PROVE  LET y == Looping(x)
           IN  /\ y \in OpTypes(top, last) /\ y.at = "loop" /\ ~y.refreshed
               /\ y.id = x.id /\ y.rows = 0 /\ y.aged = x.aged
<1> DEFINE z == NoOp
<1>1. z \in OpTypes(top, last) /\ ~z.refreshed /\ z.rows = 0
  BY NoOpType DEF NoOp
<1>2. Looping(x) = [z EXCEPT !.at = "loop", !.hint = x.hint, !.id = x.id, !.aged = x.aged]
  BY DEF Looping
<1> HIDE DEF z
<1>3. QED
  BY <1>1, <1>2 DEF OpTypes, Places

\* The steps in which an operation ends.
LEMMA EndSteps ==
    ASSUME ShopifyInv, NEW o \in Operations
    PROVE  /\ FetchFails(o) => ShopifyInv'
           /\ Rejected(o) => ShopifyInv'
           /\ Answered(o) => ShopifyInv'
           /\ Deadline(o) => ShopifyInv'
           /\ Download(o) => ShopifyInv'
           /\ Forget(o) => ShopifyInv'
<1>1. ASSUME End(o), Trouble \/ Calm, valid' = valid, onFile' = onFile, cache' = cache,
             bulk' = bulk
      PROVE  ShopifyInv'
  BY <1>1, OperationFacts, TroublesType, OperationStep DEF End
<1>2. CASE FetchFails(o)
  BY <1>1, <1>2 DEF FetchFails
<1>3. CASE Rejected(o)
  BY <1>1, <1>3 DEF Rejected
<1>4. CASE Answered(o)
  BY <1>1, <1>4 DEF Answered
<1>5. CASE Download(o)
  BY <1>1, <1>5 DEF Download
<1>6. CASE Forget(o)
  <2>1. Calm
    BY <1>6 DEF Forget, Calm
  <2>2. QED
    BY <1>1, <1>6, <2>1 DEF Forget
<1>7. CASE Deadline(o)
  <2>1. /\ bulk' \in Seq({"RUNNING", "COMPLETED", "STOPPED"})
        /\ Len(bulk') = Len(bulk)
    <3>1. CASE bulk' = bulk
      BY <3>1, OperationFacts
    <3>2. CASE bulk' # bulk
      <4>1. bulk' = [bulk EXCEPT ![ops[o].id] = "STOPPED"]
        BY <1>7, <3>2 DEF Deadline
      <4>2. ops[o].id \in DOMAIN bulk
        BY <3>2, <4>1, OperationFacts
      <4>3. QED
        BY <4>1, <4>2, BulkType
    <3>3. QED
      BY <3>1, <3>2
  <2>2. Len(bulk') >= Len(bulk)
    BY <2>1, OperationFacts
  <2>3. NoOp \in OpTypes(valid, Len(bulk'))
    BY <2>1, OperationFacts
  <2>4. /\ ops' = [ops EXCEPT ![o] = NoOp] /\ valid' = valid /\ onFile' = onFile
        /\ cache' = cache /\ Calm
    BY <1>7 DEF Deadline, End
  <2>5. QED
    BY <2>1, <2>2, <2>3, <2>4, OperationFacts, TroublesType, OperationStep
<1>8. QED
  BY <1>2, <1>3, <1>4, <1>5, <1>6, <1>7

\* The steps that fetch the token and use it.
LEMMA TokenSteps ==
    ASSUME ShopifyInv, NEW o \in Operations
    PROVE  /\ \A hint \in 0 .. onFile : Begin(o, hint) => ShopifyInv'
           /\ FetchToken(o) => ShopifyInv'
           /\ CacheToken(o) => ShopifyInv'
           /\ Unauthorized(o) => ShopifyInv'
<1> DEFINE Type == OpTypes(valid, Len(bulk))
<1>0. /\ ops[o] \in Type /\ Sound(ops[o]) /\ NoOp \in Type
      /\ valid \in Nat /\ Len(bulk) \in Nat
      /\ onFile \in 1 .. valid /\ onFile \in 0 .. valid /\ cache \in 0 .. valid /\ 0 \in 0 .. valid
  BY OperationFacts
<1>1. ASSUME NEW y \in Type, Sound(y), ops' = [ops EXCEPT ![o] = y], cache' \in 0 .. valid,
             UNCHANGED <<valid, onFile, bulk, troubles>>
      PROVE  ShopifyInv'
  <2>1. troubles' \in 0 .. MaxTroubles /\ Len(bulk') >= Len(bulk)
        /\ bulk' \in Seq({"RUNNING", "COMPLETED", "STOPPED"})
    BY <1>1, OperationFacts DEF ShopifyInv, ShopifyTypeOK
  <2>2. QED
    BY <1>1, <2>1, OperationStep
<1> HIDE DEF Type
<1>2. ASSUME NEW hint \in 0 .. onFile, Begin(o, hint) PROVE ShopifyInv'
  <2> DEFINE aged == valid # onFile
             x == [NoOp EXCEPT !.hint = hint, !.aged = aged]
             query == IF o \in Exporters THEN "start" ELSE "graphql"
             y == Call(x, query)
  <2>1. aged \in BOOLEAN /\ hint \in 0 .. valid
    <3>1. hint \in 0 .. onFile
      BY <1>2
    <3>2. QED
      BY <1>0, <3>1
  <2>2. x \in Type /\ x.aged = aged /\ x.rows = 0
    <3> HIDE DEF aged
    <3>1. QED
      BY <1>0, <2>1 DEF Type, OpTypes, NoOp
  <2>3. ops' = [ops EXCEPT ![o] = y] /\ UNCHANGED <<valid, onFile, cache, bulk, troubles>>
    BY <1>2 DEF Begin
  <2>4. query \in {"graphql", "start", "poll"}
    OBVIOUS
  <2> HIDE DEF x, query
  <2>5. /\ y \in Type /\ y.at \in {"fetch", "request"} /\ ~y.refreshed
        /\ y.rows = 0 /\ y.aged = aged
    BY <1>0, <2>2, <2>4, CallType DEF Type
  <2> HIDE DEF y
  <2>6. Sound(y)
    BY <2>5 DEF Sound, HealthyToken, OwnRows
  <2>7. QED
    BY <1>0, <1>1, <2>3, <2>5, <2>6
<1>3. CASE FetchToken(o)
  <2> DEFINE x == ops[o]
             y == [x EXCEPT !.at = "fetched", !.token = onFile]
  <2>1. /\ ops' = [ops EXCEPT ![o] = y] /\ x.at = "fetch"
        /\ UNCHANGED <<valid, onFile, cache, bulk, troubles>>
    BY <1>3 DEF FetchToken
  <2>2. x \in Type /\ Sound(x)
    BY <1>0
  <2> HIDE DEF x
  <2>3. /\ y \in Type /\ y.at = "fetched" /\ y.token = onFile /\ y.aged = x.aged
        /\ y.id = x.id /\ y.rows = x.rows
    BY <1>0, <2>2 DEF Type, OpTypes, Places
  <2> HIDE DEF y
  <2>4. Sound(y)
    BY <2>1, <2>2, <2>3 DEF Sound, HealthyToken, OwnRows
  <2>5. QED
    BY <1>0, <1>1, <2>1, <2>3, <2>4
<1>4. CASE CacheToken(o)
  <2> DEFINE x == ops[o]
             y == WithToken(x, x.token)
  <2>1. /\ ops' = [ops EXCEPT ![o] = y] /\ x.at = "fetched" /\ cache' = x.token
        /\ UNCHANGED <<valid, onFile, bulk, troubles>>
    BY <1>4 DEF CacheToken
  <2>2. x \in Type /\ Sound(x) /\ x.token \in 0 .. valid
    BY <1>0 DEF Type, OpTypes
  <2> HIDE DEF x
  <2>3. /\ y \in Type /\ y.at \in {"fetch", "request"} /\ y.token = x.token
        /\ y.refreshed = x.refreshed /\ y.id = x.id /\ y.rows = x.rows /\ y.aged = x.aged
    BY <1>0, <2>2, WithTokenType DEF Type
  <2> HIDE DEF y
  <2>4. Sound(y)
    BY <2>1, <2>2, <2>3 DEF Sound, HealthyToken, OwnRows
  <2>5. QED
    BY <1>1, <2>1, <2>2, <2>3, <2>4
\* Past a 401 the token is the platform's: it is refused only if that one is bad.
<1>5. CASE Unauthorized(o)
  <2>1. ops[o].at = "request" /\ ops[o].token # valid /\ UNCHANGED <<valid, onFile, bulk, troubles>>
    BY <1>5 DEF Unauthorized, Calm
  <2>2. CASE ops[o].refreshed
    <3> DEFINE aged == ops[o].aged
               y == [NoOp EXCEPT !.at = "unauthorized", !.aged = aged]
    <3>1. ops' = [ops EXCEPT ![o] = y] /\ cache' = cache
      BY <1>5, <2>2 DEF Unauthorized
    <3>2. aged = TRUE
      BY <1>0, <2>1, <2>2 DEF Type, OpTypes, Sound, HealthyToken
    <3> HIDE DEF aged
    <3>3. y \in Type /\ y.aged /\ y.rows = 0
      BY <1>0, <3>2 DEF Type, OpTypes, Places, NoOp
    <3> HIDE DEF y
    <3>4. Sound(y)
      BY <3>3 DEF Sound, HealthyToken, OwnRows
    <3>5. QED
      BY <1>0, <1>1, <2>1, <3>1, <3>3, <3>4
  <2>3. CASE ~ops[o].refreshed
    <3> DEFINE x == [ops[o] EXCEPT !.refreshed = TRUE]
               y == WithToken(x, 0)
    <3>1. ops' = [ops EXCEPT ![o] = y] /\ cache' = 0
      BY <1>5, <2>3 DEF Unauthorized, Refreshed
    <3>2. x \in Type /\ x.id = ops[o].id /\ x.rows = ops[o].rows /\ x.aged = ops[o].aged
      BY <1>0 DEF Type, OpTypes
    <3> HIDE DEF x
    <3>3. /\ y \in Type /\ y.at = "fetch" /\ y.id = ops[o].id /\ y.rows = ops[o].rows
          /\ y.aged = ops[o].aged
      BY <1>0, <3>2, WithTokenType DEF Type
    <3> HIDE DEF y
    <3>4. Sound(y)
      BY <1>0, <2>1, <3>3 DEF Sound, HealthyToken, OwnRows
    <3>5. QED
      BY <1>0, <1>1, <2>1, <3>1, <3>3, <3>4
  <2>4. QED
    BY <2>2, <2>3
<1>6. QED
  BY <1>2, <1>3, <1>4, <1>5

\* The steps that repeat a call, or wait for it.
LEMMA RetrySteps ==
    ASSUME ShopifyInv, NEW o \in Operations, NEW wait \in Waits
    PROVE  /\ Throttled(o, wait) => ShopifyInv'
           /\ Transient(o, wait) => ShopifyInv'
<1> DEFINE Type == OpTypes(valid, Len(bulk))
<1>0. ops[o] \in Type /\ Sound(ops[o]) /\ NoOp \in Type /\ Sound(NoOp) /\ wait \in Nat
  BY OperationFacts DEF Waits
<1>1. ASSUME NEW y \in Type, Sound(y), ops' = [ops EXCEPT ![o] = y], Trouble,
             UNCHANGED <<valid, onFile, cache, bulk>>
      PROVE  ShopifyInv'
  BY <1>1, OperationFacts, TroublesType, OperationStep
<1> HIDE DEF Type
<1>2. CASE Throttled(o, wait)
  <2>1. Trouble /\ UNCHANGED <<valid, onFile, cache, bulk>>
    BY <1>2 DEF Throttled
  <2>2. CASE ops[o].tries >= ThrottleRetries \/ ops[o].waited + wait > ThrottleBudget
    <3>1. ops' = [ops EXCEPT ![o] = NoOp]
      BY <1>2, <2>2 DEF Throttled, End
    <3>2. QED
      BY <1>0, <1>1, <2>1, <3>1
  <2>3. CASE ~(ops[o].tries >= ThrottleRetries \/ ops[o].waited + wait > ThrottleBudget)
    <3> DEFINE tries == ops[o].tries + 1
               waited == ops[o].waited + wait
               x == ops[o]
               y == [x EXCEPT !.tries = tries, !.waited = waited]
    <3>1. tries \in 0 .. ThrottleRetries /\ waited \in 0 .. ThrottleBudget
      <4>1. ops[o].tries \in 0 .. ThrottleRetries /\ ops[o].waited \in 0 .. ThrottleBudget
        BY <1>0 DEF Type, OpTypes
      <4>2. QED
        BY <1>0, <2>3, <4>1, ShopifyBounds
    <3>2. ops' = [ops EXCEPT ![o] = y]
      BY <1>2, <2>3 DEF Throttled
    <3>3. x \in Type /\ Sound(x)
      BY <1>0
    <3> HIDE DEF x, tries, waited
    <3>4. /\ y \in Type /\ y.at = x.at /\ y.refreshed = x.refreshed /\ y.token = x.token
          /\ y.id = x.id /\ y.rows = x.rows /\ y.aged = x.aged
      BY <3>1, <3>3 DEF Type, OpTypes
    <3> HIDE DEF y
    <3>5. Sound(y)
      BY <3>3, <3>4 DEF Sound, HealthyToken, OwnRows
    <3>6. QED
      BY <1>1, <2>1, <3>2, <3>4, <3>5
  <2>4. QED
    BY <2>2, <2>3
<1>3. CASE Transient(o, wait)
  <2>1. PICK y \in Type : Sound(y) /\ ops' = [ops EXCEPT ![o] = y]
    BY <1>0, <1>3, RetriedSound DEF Type, Transient
  <2>2. QED
    BY <1>1, <1>3, <2>1 DEF Transient
<1>4. QED
  BY <1>2, <1>3

\* The steps of bulkQuery.
LEMMA BulkSteps ==
    ASSUME ShopifyInv, NEW o \in Operations
    PROVE  /\ \A wait \in Waits : StartBulk(o, wait) => ShopifyInv'
           /\ PollAgain(o) => ShopifyInv'
           /\ PollBulk(o) => ShopifyInv'
<1> DEFINE Type == OpTypes(valid, Len(bulk))
<1>0. /\ ops[o] \in Type /\ Sound(ops[o]) /\ NoOp \in Type /\ Sound(NoOp)
      /\ valid \in Nat /\ Len(bulk) \in Nat /\ cache \in 0 .. valid
  BY OperationFacts
<1>1. ASSUME NEW y \in Type, Sound(y), ops' = [ops EXCEPT ![o] = y], Calm,
             UNCHANGED <<valid, onFile, cache, bulk>>
      PROVE  ShopifyInv'
  BY <1>1, OperationFacts, TroublesType, OperationStep
<1> HIDE DEF Type
<1>2. ASSUME NEW wait \in Waits, StartBulk(o, wait) PROVE ShopifyInv'
  <2>0. /\ ops[o].at = "request" /\ UNCHANGED <<valid, onFile, cache>>
    BY <1>2 DEF StartBulk, Accepted
  <2>1. CASE Busy
    BY <1>0, <1>1, <1>2, <2>1 DEF StartBulk, End
  <2>2. CASE ~Busy
    <3>1. bulk' = Append(bulk, "RUNNING")
      BY <1>2, <2>2 DEF StartBulk
    <3>2. /\ bulk' \in Seq({"RUNNING", "COMPLETED", "STOPPED"})
          /\ Len(bulk') = Len(bulk) + 1 /\ Len(bulk') \in Nat
      BY <1>0, <3>1, BulkType
    <3>3. Type \subseteq OpTypes(valid, Len(bulk'))
      BY <1>0, <3>2, OpTypesGrow DEF Type
    <3>4. ASSUME NEW y \in OpTypes(valid, Len(bulk')), Sound(y),
                 ops' = [ops EXCEPT ![o] = y], Trouble \/ Calm
          PROVE  ShopifyInv'
      <4>1. Len(bulk') >= Len(bulk) /\ troubles' \in 0 .. MaxTroubles
            /\ cache' \in 0 .. valid
        BY <1>0, <2>0, <3>2, <3>4, TroublesType
      <4>2. QED
        BY <2>0, <3>2, <3>4, <4>1, OperationStep
    <3>5. ASSUME ops' = [ops EXCEPT ![o] = Looping([ops[o] EXCEPT !.id = Len(bulk')])], Calm
          PROVE  ShopifyInv'
      <4> DEFINE last == Len(bulk')
                 x == [ops[o] EXCEPT !.id = last]
                 y == Looping(x)
      <4>1. ops[o] \in OpTypes(valid, last) /\ last \in 0 .. last /\ last \in Nat
        BY <1>0, <3>2, <3>3
      <4>2. ops' = [ops EXCEPT ![o] = y]
        BY <3>5
      <4>3. x \in OpTypes(valid, last) /\ x.aged = ops[o].aged
        <5> HIDE DEF last
        <5>1. QED
          BY <4>1 DEF OpTypes
      <4> HIDE DEF x
      <4>4. /\ y \in OpTypes(valid, last) /\ y.at = "loop" /\ y.rows = 0
            /\ ~y.refreshed /\ y.aged = ops[o].aged
        BY <1>0, <4>1, <4>3, LoopingType
      <4> HIDE DEF y
      <4>5. Sound(y)
        BY <1>0, <2>0, <4>4 DEF Sound, HealthyToken, OwnRows
      <4>6. QED
        BY <3>4, <3>5, <4>2, <4>4, <4>5
    <3>6. ASSUME Trouble, Retried(o, wait) PROVE ShopifyInv'
      <4>1. wait \in Nat
        BY DEF Waits
      <4>2. PICK y \in Type : Sound(y) /\ ops' = [ops EXCEPT ![o] = y]
        BY <2>0, <3>6, <4>1, RetriedSound DEF Type
      <4>3. QED
        BY <3>3, <3>4, <3>6, <4>2
    <3>7. QED
      BY <1>2, <2>2, <3>5, <3>6 DEF StartBulk
  <2>3. QED
    BY <2>1, <2>2
<1>3. CASE PollAgain(o)
  <2> DEFINE y == Call(ops[o], "poll")
  <2>1. /\ ops[o].at = "loop" /\ ops' = [ops EXCEPT ![o] = y]
        /\ Calm /\ UNCHANGED <<valid, onFile, cache, bulk>>
    BY <1>3 DEF PollAgain
  <2>2. /\ y \in Type /\ y.at \in {"fetch", "request"} /\ ~y.refreshed
        /\ y.id = ops[o].id /\ y.rows = ops[o].rows /\ y.aged = ops[o].aged
    BY <1>0, CallType DEF Type
  <2> HIDE DEF y
  <2>3. Sound(y)
    BY <1>0, <2>1, <2>2 DEF Sound, HealthyToken, OwnRows
  <2>4. QED
    BY <1>1, <2>1, <2>2, <2>3
<1>4. CASE PollBulk(o)
  <2>0. /\ ops[o].at = "request" /\ Calm /\ UNCHANGED <<valid, onFile, cache, bulk>>
    BY <1>4 DEF PollBulk, Accepted
  <2>1. CASE BulkRuns(ops[o].id)
    <3> DEFINE y == Looping(ops[o])
    <3>1. ops' = [ops EXCEPT ![o] = y]
      BY <1>4, <2>1 DEF PollBulk, Polled, BulkRuns
    <3>2. /\ y \in Type /\ y.at = "loop" /\ ~y.refreshed
          /\ y.rows = 0 /\ y.aged = ops[o].aged
      BY <1>0, LoopingType DEF Type
    <3> HIDE DEF y
    <3>3. Sound(y)
      BY <1>0, <2>0, <3>2 DEF Sound, HealthyToken, OwnRows
    <3>4. QED
      BY <1>1, <2>0, <3>1, <3>2, <3>3
  <2>2. CASE ~BulkRuns(ops[o].id) /\ bulk[ops[o].id] = "COMPLETED"
    <3> DEFINE id == ops[o].id
               y == [NoOp EXCEPT !.at = "download", !.id = id, !.rows = id, !.attempt = 1]
    <3>1. ops' = [ops EXCEPT ![o] = y]
      BY <1>4, <2>2 DEF PollBulk, Polled
    <3>2. id \in 0 .. Len(bulk) /\ 1 \in 0 .. RetryAttempts
      BY <1>0, ShopifyBounds DEF Type, OpTypes
    <3> HIDE DEF id
    <3>3. y \in Type /\ y.at = "download" /\ y.rows = y.id
      BY <1>0, <3>2 DEF Type, OpTypes, Places, NoOp
    <3> HIDE DEF y
    <3>4. Sound(y)
      BY <3>3 DEF Sound, HealthyToken, OwnRows
    <3>5. QED
      BY <1>1, <2>0, <3>1, <3>3, <3>4
  <2>3. CASE ~BulkRuns(ops[o].id) /\ bulk[ops[o].id] # "COMPLETED"
    <3>1. ops' = [ops EXCEPT ![o] = NoOp]
      BY <1>4, <2>3 DEF PollBulk, Polled
    <3>2. QED
      BY <1>0, <1>1, <2>0, <3>1
  <2>4. QED
    BY <2>1, <2>2, <2>3
<1>5. QED
  BY <1>2, <1>3, <1>4

LEMMA ShopifyInvariant == ShopifySpec => []ShopifyInv
<1>1. ShopifyInit => ShopifyInv
  <2>1. ASSUME ShopifyInit PROVE ShopifyTypeOK
    <3>1. Len(bulk) = 0 /\ bulk \in Seq({"RUNNING", "COMPLETED", "STOPPED"})
      BY <2>1 DEF ShopifyInit
    <3>2. NoOp \in OpTypes(valid, Len(bulk))
      BY <2>1, <3>1, NoOpType DEF ShopifyInit
    <3>3. QED
      BY <2>1, <3>1, <3>2, ShopifyBounds DEF ShopifyInit, ShopifyTypeOK
  <2>2. ASSUME ShopifyInit, NEW o \in Operations PROVE Sound(ops[o])
    BY <2>2 DEF ShopifyInit, NoOp, Sound, HealthyToken, OwnRows
  <2>3. QED
    BY <2>1, <2>2 DEF ShopifyInv
<1>2. ShopifyInv /\ [ShopifyNext]_shopifyVars => ShopifyInv'
  <2> SUFFICES ASSUME ShopifyInv, [ShopifyNext]_shopifyVars PROVE ShopifyInv'
    OBVIOUS
  <2>1. CASE UNCHANGED shopifyVars
    BY <2>1 DEF shopifyVars, ShopifyInv, ShopifyTypeOK, Sound, HealthyToken, OwnRows
  <2>2. CASE Reinstall \/ StoreSecret \/ OthersStart
    BY <2>2, ShopSteps
  <2>3. CASE \E i \in DOMAIN bulk, status \in {"COMPLETED", "STOPPED"} : BulkEnds(i, status)
    BY <2>3, ShopSteps
  <2>4. ASSUME NEW o \in Operations,
               \/ \E hint \in 0 .. onFile : Begin(o, hint)
               \/ FetchToken(o) \/ CacheToken(o) \/ Unauthorized(o)
        PROVE  ShopifyInv'
    BY <2>4, TokenSteps
  <2>5. ASSUME NEW o \in Operations,
               FetchFails(o) \/ Rejected(o) \/ Answered(o) \/ Deadline(o) \/ Download(o) \/ Forget(o)
        PROVE  ShopifyInv'
    BY <2>5, EndSteps
  <2>6. ASSUME NEW o \in Operations, PollAgain(o) \/ PollBulk(o) PROVE ShopifyInv'
    BY <2>6, BulkSteps
  <2>7. ASSUME NEW o \in Operations, NEW wait \in Waits,
               Throttled(o, wait) \/ Transient(o, wait) \/ StartBulk(o, wait)
        PROVE  ShopifyInv'
    BY <2>7, RetrySteps, BulkSteps
  <2>8. QED
    BY <2>1, <2>2, <2>3, <2>4, <2>5, <2>6, <2>7 DEF ShopifyNext
<1>3. QED
  BY <1>1, <1>2, PTL DEF ShopifySpec

\* Tokens, operations and their budgets keep their types (lib/shopify.ts).
THEOREM ShopifyTypeCorrect == ShopifySpec => []ShopifyTypeOK
<1>1. ShopifyInv => ShopifyTypeOK
  BY DEF ShopifyInv
<1>2. QED
  BY <1>1, ShopifyInvariant, PTL

\* A 401 reaches the app's code only if the platform had no good token at some
\* time while the operation ran (with401Retry, lib/shopify.ts).
THEOREM UnauthorizedWasReal == ShopifySpec => []UnauthorizedIsReal
<1>1. ShopifyInv => UnauthorizedIsReal
  BY DEF ShopifyInv, Sound, HealthyToken, UnauthorizedIsReal
<1>2. QED
  BY <1>1, ShopifyInvariant, PTL

\* bulkQuery reads the rows of the bulk operation it started (lib/shopify.ts).
THEOREM RowsWereOwn == ShopifySpec => []RowsAreOwn
<1>1. ShopifyInv => RowsAreOwn
  BY DEF ShopifyInv, Sound, OwnRows, RowsAreOwn
<1>2. QED
  BY <1>1, ShopifyInvariant, PTL
=============================================================================
