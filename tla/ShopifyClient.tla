----------------------------- MODULE ShopifyClient -----------------------------
(***************************************************************************)
(* The Shopify client of one handler container (templates/handler          *)
(* lib/shopify.ts): the cached access token with its one refresh after a   *)
(* 401, the retry layers around a GraphQL call, and bulkQuery, which makes *)
(* several such calls.  The operations of a container share its cache.     *)
(* Retry-After, back-off and throttle waits are units of time against the  *)
(* budgets; sleeping before a call returns (soft throttle) is left out.    *)
(*                                                                         *)
(* Shopify is not in the repository: it accepts one token, throttles,      *)
(* fails, and runs at most one bulk operation of a shop at a time.         *)
(***************************************************************************)
EXTENDS Naturals, Sequences

CONSTANTS
    Operations,      \* calls the app's code has under way
    Exporters,       \* those of them that call bulkQuery, the others graphql
    RetryAttempts,   \* RETRY_MAX_ATTEMPTS
    RetryBudget,     \* RETRY_TOTAL_BUDGET_MS, in units
    ThrottleRetries, \* MAX_THROTTLE_RETRIES
    ThrottleBudget,  \* MAX_THROTTLE_TOTAL_WAIT_MS, in units
    MaxTokens,       \* bound: reinstalls
    MaxBulk,         \* bound: bulk operations of the shop
    MaxTroubles      \* bound: throttled and failing calls

ASSUME ShopifyAssumption ==
    /\ Exporters \subseteq Operations
    /\ \A n \in {RetryAttempts, ThrottleRetries, MaxTokens} : n \in Nat \ {0}
    /\ \A n \in {RetryBudget, ThrottleBudget, MaxBulk, MaxTroubles} : n \in Nat

VARIABLES
    valid,     \* the access token Shopify accepts
    onFile,    \* the one behind /services/shopify/access-token
    cache,     \* cachedAccessToken; 0 is null
    ops,       \* progress of each operation: see NoOp
    bulk,      \* the shop's bulk operations: RUNNING, COMPLETED or STOPPED,
               \* which is FAILED or CANCELED
    troubles

shopifyVars == <<valid, onFile, cache, ops, bulk, troubles>>

(* at: where the operation is; query: which of its GraphQL calls it makes; *)
(* hint: the token its helper was made with, or 0; refreshed: with401Retry  *)
(* is past its 401; attempt, slept: of withRetry; tries, waited: of        *)
(* requestWithThrottleRetry; id: the bulk operation it started, rows: the  *)
(* one it reads.  aged (history): onFile and valid differed while it ran.  *)
NoOp == [at |-> "idle", query |-> "none", hint |-> 0, token |-> 0, refreshed |-> FALSE,
         attempt |-> 0, slept |-> 0, tries |-> 0, waited |-> 0, id |-> 0, rows |-> 0,
         aged |-> FALSE]

ShopifyInit ==
    /\ valid = 1 /\ onFile = 1 /\ cache = 0 /\ troubles = 0
    /\ ops = [o \in Operations |-> NoOp]
    /\ bulk = <<>>

Trouble == troubles < MaxTroubles /\ troubles' = troubles + 1
Calm    == UNCHANGED troubles

-----------------------------------------------------------------------------
(* The shop and the platform *)

Aging(v, f) == [o \in Operations |->
    [ops[o] EXCEPT !.aged = @ \/ (ops[o].at # "idle" /\ v # f)]]

\* The app is reinstalled: the old token dies, callbackHandler has the new one ...
Reinstall ==
    /\ valid < MaxTokens
    /\ valid' = valid + 1
    /\ ops' = Aging(valid', onFile)
    /\ UNCHANGED <<onFile, cache, bulk, troubles>>

\* ... and stores it.
StoreSecret ==
    /\ onFile # valid
    /\ onFile' = valid
    /\ UNCHANGED <<valid, cache, ops, bulk, troubles>>

BulkRuns(i) == bulk[i] = "RUNNING"
Busy == \E i \in DOMAIN bulk : BulkRuns(i)

BulkEnds(i, status) ==
    /\ BulkRuns(i)
    /\ bulk' = [bulk EXCEPT ![i] = status]
    /\ UNCHANGED <<valid, onFile, cache, ops, troubles>>

\* Another handler, or an admin, starts one.
OthersStart ==
    /\ ~Busy /\ Len(bulk) < MaxBulk
    /\ bulk' = Append(bulk, "RUNNING")
    /\ UNCHANGED <<valid, onFile, cache, ops, troubles>>

-----------------------------------------------------------------------------
(* graphqlImpl: withRetry(with401Retry(requestWithThrottleRetry)) *)

\* getAccessToken: the header's token, the cached one, or a call for it.
WithToken(op, token) ==
    [op EXCEPT !.token = token, !.at = IF token = 0 THEN "fetch" ELSE "request",
               !.tries = 1, !.waited = 0]

\* One round of with401Retry; a new round starts from the header's token again.
Attempt(op) ==
    WithToken([op EXCEPT !.refreshed = FALSE], IF op.hint # 0 THEN op.hint ELSE cache)

Call(op, query) == Attempt([op EXCEPT !.query = query, !.attempt = 1, !.slept = 0])

\* graphql and graphqlPaginate; or bulkQuery, which starts with its mutation.
\* The helper has the token of the header shopifyClientFor was called with, and
\* keeps it for every later operation: any token that was on file till now.
Begin(o, hint) ==
    /\ ops[o].at = "idle"
    /\ ops' = [ops EXCEPT ![o] =
          Call([NoOp EXCEPT !.hint = hint, !.aged = valid # onFile],
               IF o \in Exporters THEN "start" ELSE "graphql")]
    /\ UNCHANGED <<valid, onFile, cache, bulk, troubles>>

\* The call returns, or throws to the app's code.
End(o) == ops' = [ops EXCEPT ![o] = NoOp]

\* accessTokenHandler reads the secret; the answer is under way.
FetchToken(o) ==
    /\ ops[o].at = "fetch"
    /\ ops' = [ops EXCEPT ![o].at = "fetched", ![o].token = onFile]
    /\ UNCHANGED <<valid, onFile, cache, bulk, troubles>>

\* The answer sets the cache, also over a token another operation put there.
CacheToken(o) ==
    /\ ops[o].at = "fetched"
    /\ cache' = ops[o].token
    /\ ops' = [ops EXCEPT ![o] = WithToken(@, @.token)]
    /\ UNCHANGED <<valid, onFile, bulk, troubles>>

\* Any status but 200 is an Error that no layer repeats.
FetchFails(o) ==
    /\ ops[o].at \in {"fetch", "fetched"}
    /\ Trouble
    /\ End(o)
    /\ UNCHANGED <<valid, onFile, cache, bulk>>

\* Mutant: the refetch believes the header, or the cache, once more.
MutRefreshed(op) == [Attempt(op) EXCEPT !.refreshed = TRUE]

\* Past a 401 neither the header nor the cache counts: a call for the token.
Refreshed(op) == WithToken([op EXCEPT !.refreshed = TRUE], 0)

Unauthorized(o) ==
    /\ ops[o].at = "request" /\ ops[o].token # valid
    /\ IF ops[o].refreshed
       THEN /\ ops' = [ops EXCEPT ![o] = [NoOp EXCEPT !.at = "unauthorized", !.aged = ops[o].aged]]
            /\ UNCHANGED cache
       ELSE /\ cache' = 0
            /\ ops' = [ops EXCEPT ![o] = Refreshed(@)]
    /\ Calm
    /\ UNCHANGED <<valid, onFile, bulk>>

Throttled(o, wait) ==
    /\ ops[o].at = "request" /\ ops[o].token = valid
    /\ Trouble
    /\ IF ops[o].tries >= ThrottleRetries \/ ops[o].waited + wait > ThrottleBudget
       THEN End(o)
       ELSE ops' = [ops EXCEPT ![o].tries = @ + 1, ![o].waited = @ + wait]
    /\ UNCHANGED <<valid, onFile, cache, bulk>>

\* 429, 502, 503, 504 or the network: withRetry sleeps and starts over.
Retried(o, delay) ==
    IF ops[o].attempt = RetryAttempts \/ ops[o].slept + delay > RetryBudget
    THEN End(o)
    ELSE LET op == [ops[o] EXCEPT !.attempt = @ + 1, !.slept = @ + delay] IN
         ops' = [ops EXCEPT ![o] = IF op.at = "download" THEN op ELSE Attempt(op)]

Transient(o, delay) ==
    /\ ops[o].at \in {"fetch", "request", "download"}
    /\ Trouble /\ Retried(o, delay)
    /\ UNCHANGED <<valid, onFile, cache, bulk>>

\* A 4xx, MAX_COST_EXCEEDED or an unreadable answer ends the operation.
Rejected(o) ==
    /\ ops[o].at \in {"request", "download"}
    /\ Trouble /\ End(o)
    /\ UNCHANGED <<valid, onFile, cache, bulk>>

-----------------------------------------------------------------------------
(* What each GraphQL call brings *)

Accepted(o, query) ==
    ops[o].at = "request" /\ ops[o].query = query /\ ops[o].token = valid

Answered(o) ==
    /\ Accepted(o, "graphql")
    /\ End(o)
    /\ Calm
    /\ UNCHANGED <<valid, onFile, cache, bulk>>

Looping(op) == [NoOp EXCEPT !.at = "loop", !.hint = op.hint, !.id = op.id, !.aged = op.aged]

\* bulkOperationRunQuery: refused while the shop runs one (userErrors); its
\* answer may get lost, then withRetry sends the mutation again.
StartBulk(o, delay) ==
    /\ Accepted(o, "start")
    /\ IF Busy THEN End(o) /\ Calm /\ UNCHANGED bulk
       ELSE /\ Len(bulk) < MaxBulk
            /\ bulk' = Append(bulk, "RUNNING")
            /\ \/ /\ ops' = [ops EXCEPT ![o] = Looping([@ EXCEPT !.id = Len(bulk')])]
                  /\ Calm
               \/ Trouble /\ Retried(o, delay)
    /\ UNCHANGED <<valid, onFile, cache>>

\* The poll loop: the deadline, with a cancel nobody waits for, or a look.
Deadline(o) ==
    /\ ops[o].at = "loop"
    /\ End(o)
    /\ bulk' \in {bulk, IF BulkRuns(ops[o].id) THEN [bulk EXCEPT ![ops[o].id] = "STOPPED"]
                        ELSE bulk}
    /\ Calm
    /\ UNCHANGED <<valid, onFile, cache>>

PollAgain(o) ==
    /\ ops[o].at = "loop"
    /\ ops' = [ops EXCEPT ![o] = Call(@, "poll")]
    /\ Calm
    /\ UNCHANGED <<valid, onFile, cache, bulk>>

\* Mutant: currentBulkOperation.
MutPolled(op) == Len(bulk)

\* node(id:)
Polled(op) == op.id

PollBulk(o) ==
    /\ Accepted(o, "poll")
    /\ LET i == Polled(ops[o]) IN
       ops' = [ops EXCEPT ![o] =
           CASE BulkRuns(i)            -> Looping(@)
             [] bulk[i] = "COMPLETED" -> [NoOp EXCEPT !.at = "download", !.id = ops[o].id,
                                                      !.rows = i, !.attempt = 1]
             [] OTHER                 -> NoOp]
    /\ Calm
    /\ UNCHANGED <<valid, onFile, cache, bulk>>

\* fetchWithRetry of a signed link: no token; then the rows, line by line.
Download(o) ==
    /\ ops[o].at = "download"
    /\ End(o)
    /\ Calm
    /\ UNCHANGED <<valid, onFile, cache, bulk>>

\* The app's code sees the 401.
Forget(o) ==
    /\ ops[o].at = "unauthorized"
    /\ End(o)
    /\ UNCHANGED <<valid, onFile, cache, bulk, troubles>>

Waits == 1 .. 2

ShopifyNext ==
    \/ Reinstall \/ StoreSecret \/ OthersStart
    \/ \E i \in DOMAIN bulk, status \in {"COMPLETED", "STOPPED"} : BulkEnds(i, status)
    \/ \E o \in Operations :
          \/ \E hint \in 0 .. onFile : Begin(o, hint)
          \/ FetchToken(o) \/ CacheToken(o) \/ FetchFails(o)
          \/ Unauthorized(o) \/ Rejected(o) \/ Answered(o)
          \/ Deadline(o) \/ PollAgain(o) \/ PollBulk(o) \/ Download(o) \/ Forget(o)
          \/ \E wait \in Waits : Throttled(o, wait) \/ Transient(o, wait) \/ StartBulk(o, wait)

ShopifySpec == ShopifyInit /\ [][ShopifyNext]_shopifyVars

-----------------------------------------------------------------------------
Places == {"idle", "fetch", "fetched", "request", "loop", "download", "unauthorized"}

\* An operation when top is the last token and last the last bulk operation.
OpTypes(top, last) == [
    at : Places, query : {"none", "graphql", "start", "poll"}, hint : 0 .. top,
    token : 0 .. top, refreshed : BOOLEAN, attempt : 0 .. RetryAttempts,
    slept : 0 .. RetryBudget, tries : 0 .. ThrottleRetries,
    waited : 0 .. ThrottleBudget, id : 0 .. last, rows : 0 .. last, aged : BOOLEAN]

ShopifyTypeOK ==
    /\ valid \in 1 .. MaxTokens /\ onFile \in 1 .. valid /\ cache \in 0 .. valid
    /\ ops \in [Operations -> OpTypes(valid, Len(bulk))]
    /\ bulk \in Seq({"RUNNING", "COMPLETED", "STOPPED"})
    /\ troubles \in 0 .. MaxTroubles

(* An operation ends with a 401 only if the platform itself had no good    *)
(* token at some time while it ran: a helper older than a reinstall, a     *)
(* stale cache and an answer that comes late into the shared cache are all *)
(* healed by the one refresh of each attempt.                              *)
UnauthorizedIsReal == \A o \in Operations : ops[o].at = "unauthorized" => ops[o].aged

(* bulkQuery yields the rows of the operation it started, whatever other   *)
(* bulk operations the shop runs before, between and after its polls.      *)
RowsAreOwn == \A o \in Operations : ops[o].rows # 0 => ops[o].rows = ops[o].id
================================================================================
