---------------------------- MODULE ServiceIdentity ----------------------------
(***************************************************************************)
(* Whom the platform takes a handler for.  A handler calls /services/* with *)
(* an ID token of the service account it runs as; resolveCaller maps the   *)
(* account to an app, through a cache of each platform-back process        *)
(* (sa-to-app.ts).  Deploys give the accounts out, numbered per shop       *)
(* (sa-provisioner.ts), and a deletion sets a number free again.  Of these *)
(* apps' deploys, teardowns and deletions only what touches the account    *)
(* and the status is here; the rest is AppLifecycle.                       *)
(*                                                                         *)
(* This is the platform in the cloud: in development no account is written *)
(* and the verified caller is the empty address.  No code suspends a       *)
(* tenant, so every tenant is active.  Time passes in units, and a process *)
(* may be slow at every await.                                             *)
(***************************************************************************)
EXTENDS Integers

CONSTANTS
    HandlerApps,   \* ids of apps whose shops have one sanitizeShopPrefix
    ServiceCalls,  \* requests at /services, one at a time each
    Replicas,      \* processes of platform-back
    NoCaller,      \* null
    CacheTTL,      \* CACHE_TTL_MS
    MaxInstant,    \* bound: the clock
    MaxAccounts,   \* bound: accounts of the prefix
    MaxChanges     \* bound: deploys, changes of status and deletions

ASSUME IdentityAssumption ==
    /\ NoCaller \notin HandlerApps
    /\ CacheTTL \in Nat \ {0}
    /\ \A n \in {MaxInstant, MaxAccounts, MaxChanges} : n \in Nat

Accounts == 1 .. MaxAccounts

VARIABLES
    instant,     \* Date.now()
    standing,    \* apps.status: active, or idle for draft, inactive and deleted;
                 \* gone: no row
    saOf,        \* apps.handler_sa_email; 0 is null
    created,     \* the service accounts of the prefix are 1 .. created
    provision,   \* the account a deploy of the app has picked; 0: none
    saCache,     \* cache, of each process
    call,        \* progress of each request: see NoCall
    bound,       \* history: the last instant an account was an active app's
    changes

identityVars == <<instant, standing, saOf, created, provision, saCache, call, bound,
                  changes>>

NoEntry == [app |-> NoCaller, expiresAt |-> 0]

(* now: when resolveAppFromSaEmail looked into the cache; row: what its     *)
(* query read; app: the identity it returned.                              *)
NoCall(p) == [at |-> "none", replica |-> p, sa |-> 0, now |-> 0, row |-> NoCaller, app |-> NoCaller]

Bound(a, n) == saOf[a] = n /\ standing[a] = "active"

IdentityInit ==
    /\ instant = 0
    /\ standing \in [HandlerApps -> {"active", "idle"}]
    /\ saOf \in [HandlerApps -> {0} \cup Accounts]
    /\ \A a, b \in HandlerApps : saOf[a] = saOf[b] => a = b \/ saOf[a] = 0
    /\ \E m \in {0} \cup Accounts :
          created = m /\ \A a \in HandlerApps : saOf[a] <= m
    /\ provision = [a \in HandlerApps |-> 0]
    /\ saCache = [p \in Replicas |-> [n \in Accounts |-> NoEntry]]
    /\ call \in {[c \in ServiceCalls |-> NoCall(p)] : p \in Replicas}
    /\ bound = [a \in HandlerApps |-> [n \in Accounts |-> IF Bound(a, n) THEN 0 ELSE -1]]
    /\ changes = 0

-----------------------------------------------------------------------------
(* The apps and their accounts *)

Change == changes < MaxChanges /\ changes' = changes + 1

\* nextHandlerSaCounter: one more than the highest number on a row.  The account
\* is created, or exists already: ALREADY_EXISTS counts as success.
provisionHandlerSa(a) ==
    /\ Change /\ standing[a] # "gone" /\ provision[a] = 0
    /\ \E n \in Accounts :
          /\ \A b \in HandlerApps : saOf[b] < n
          /\ n = 1 \/ \E b \in HandlerApps : saOf[b] = n - 1
          /\ provision' = [provision EXCEPT ![a] = n]
          /\ created' = IF n > created THEN n ELSE created
    /\ UNCHANGED <<instant, standing, saOf, saCache, call>>

\* The column is unique: of two deploys that picked one number the second one
\* fails here.  If the row is gone meanwhile, the UPDATE finds nothing and the
\* deploy goes on.
writeHandlerSaEmail(a) ==
    /\ provision[a] # 0
    /\ IF standing[a] = "gone" \/ \E b \in HandlerApps \ {a} : saOf[b] = provision[a]
          THEN UNCHANGED saOf
          ELSE saOf' = [saOf EXCEPT ![a] = provision[a]]
    /\ provision' = [provision EXCEPT ![a] = 0]
    /\ UNCHANGED <<instant, standing, created, saCache, call, changes>>

ProvisioningFails(a) ==
    /\ provision[a] # 0
    /\ provision' = [provision EXCEPT ![a] = 0]
    /\ UNCHANGED <<instant, standing, saOf, created, saCache, call, changes>>

\* updateAppHandler's write; the teardown that follows runs in the background.
SetStanding(a, status) ==
    /\ Change /\ standing[a] \notin {status, "gone"}
    /\ standing' = [standing EXCEPT ![a] = status]
    /\ UNCHANGED <<instant, saOf, created, provision, saCache, call>>

\* hardDeleteApp: the row goes, the account stays.
DeleteRow(a) ==
    /\ Change /\ standing[a] # "gone"
    /\ standing' = [standing EXCEPT ![a] = "gone"]
    /\ saOf' = [saOf EXCEPT ![a] = 0]
    /\ UNCHANGED <<instant, created, provision, saCache, call>>

-----------------------------------------------------------------------------
(* A handler's call *)

\* callPlatformService from a container that runs as some account: the one of
\* its app's row, an earlier one until the new revision has replaced it, or one
\* whose app was torn down, since a teardown may fail and still be reported.
callPlatformService(c) ==
    /\ call[c].at \in {"none", "served"}
    /\ \E n \in 1 .. created, p \in Replicas :
          call' = [call EXCEPT ![c] = [NoCall(p) EXCEPT !.at = "verify", !.sa = n]]
    /\ UNCHANGED <<instant, standing, saOf, created, provision, saCache, changes>>

\* verifyCallerIdToken rejects: getAuthHeader keeps the first header it got for
\* the container's life, and the token in it expires.
RejectToken(c) ==
    /\ call[c].at = "verify"
    /\ call' = [call EXCEPT ![c] = NoCall(@.replica)]
    /\ UNCHANGED <<instant, standing, saOf, created, provision, saCache, changes>>

Entry(c) == saCache[call[c].replica][call[c].sa]

Fresh(e) == e.app # NoCaller /\ e.expiresAt > instant

Hit(c) ==
    /\ call[c].at = "verify" /\ Fresh(Entry(c))
    /\ call' = [call EXCEPT ![c].at = "served", ![c].now = instant, ![c].app = Entry(c).app]
    /\ UNCHANGED <<instant, standing, saOf, created, provision, saCache, changes>>

\* A stale entry goes before the query is sent.
Miss(c) ==
    /\ call[c].at = "verify" /\ ~Fresh(Entry(c))
    /\ call' = [call EXCEPT ![c].at = "query", ![c].now = instant]
    /\ saCache' = [saCache EXCEPT ![call[c].replica][call[c].sa] = NoEntry]
    /\ UNCHANGED <<instant, standing, saOf, created, provision, changes>>

\* The SELECT, at the database.
ReadBinding(c) ==
    /\ call[c].at = "query"
    /\ \E a \in HandlerApps \cup {NoCaller} :
          /\ IF a = NoCaller THEN \A b \in HandlerApps : ~Bound(b, call[c].sa)
                          ELSE Bound(a, call[c].sa)
          /\ call' = [call EXCEPT ![c].at = "answer", ![c].row = a]
    /\ UNCHANGED <<instant, standing, saOf, created, provision, saCache, changes>>

\* Mutant: the entry counts from the answer.
MutExpiresAt(c) == instant + CacheTTL

\* It counts from the look into the cache.
ExpiresAt(c) == call[c].now + CacheTTL

\* Its answer: no row is a 403, a row is cached and returned.
Resolve(c) ==
    /\ call[c].at = "answer" /\ call[c].row # NoCaller
    /\ saCache' = [saCache EXCEPT ![call[c].replica][call[c].sa] =
                      [app |-> call[c].row, expiresAt |-> ExpiresAt(c)]]
    /\ call' = [call EXCEPT ![c].at = "served", ![c].row = NoCaller, ![c].app = call[c].row]
    /\ UNCHANGED <<instant, standing, saOf, created, provision, changes>>

Forbid(c) ==
    /\ call[c].at = "answer" /\ call[c].row = NoCaller
    /\ call' = [call EXCEPT ![c] = NoCall(@.replica)]
    /\ UNCHANGED <<instant, standing, saOf, created, provision, saCache, changes>>

\* A process ends: its cache and its requests are lost.
Restart(p) ==
    /\ saCache' = [saCache EXCEPT ![p] = [n \in Accounts |-> NoEntry]]
    /\ call' = [c \in ServiceCalls |-> IF call[c].replica = p THEN NoCall(p) ELSE call[c]]
    /\ UNCHANGED <<instant, standing, saOf, created, provision, changes>>

Tick ==
    /\ instant < MaxInstant
    /\ instant' = instant + 1
    /\ UNCHANGED <<standing, saOf, created, provision, saCache, call, changes>>

-----------------------------------------------------------------------------
AppStep(a) ==
    \/ provisionHandlerSa(a) \/ writeHandlerSaEmail(a) \/ ProvisioningFails(a)
    \/ DeleteRow(a) \/ \E s \in {"active", "idle"} : SetStanding(a, s)

CallerStep(c) ==
    \/ callPlatformService(c) \/ RejectToken(c) \/ Hit(c) \/ Miss(c) \/ ReadBinding(c)
    \/ Resolve(c) \/ Forbid(c)

Remember ==
    bound' = [a \in HandlerApps |->
                [n \in Accounts |-> IF Bound(a, n)' THEN instant' ELSE bound[a][n]]]

IdentityNext ==
    /\ \/ \E a \in HandlerApps : AppStep(a)
       \/ \E c \in ServiceCalls : CallerStep(c)
       \/ \E p \in Replicas : Restart(p)
       \/ Tick
    /\ Remember

IdentitySpec == IdentityInit /\ [][IdentityNext]_identityVars

-----------------------------------------------------------------------------
IdentityTypeOK ==
    /\ instant \in 0 .. MaxInstant
    /\ standing \in [HandlerApps -> {"active", "idle", "gone"}]
    /\ saOf \in [HandlerApps -> {0} \cup Accounts]
    /\ created \in {0} \cup Accounts
    /\ provision \in [HandlerApps -> {0} \cup Accounts]
    /\ saCache \in [Replicas -> [Accounts ->
          [app : HandlerApps \cup {NoCaller}, expiresAt : 0 .. MaxInstant + CacheTTL]]]
    /\ call \in [ServiceCalls ->
         [at : {"none", "verify", "query", "answer", "served"},
          replica : Replicas, sa : {0} \cup Accounts, now : 0 .. MaxInstant,
          row : HandlerApps \cup {NoCaller}, app : HandlerApps \cup {NoCaller}]]
    /\ bound \in [HandlerApps -> [Accounts -> -1 .. MaxInstant]]
    /\ changes \in 0 .. MaxChanges

(* sa-to-app.ts: "a 5-minute TTL guarantees a paused or uninstalled app     *)
(* stops being resolvable within that window".  A call is served as an app *)
(* only if its account was that app's, and the app active, less than the   *)
(* TTL before the lookup - whoever has been given the account since, and   *)
(* however late the answers of the database come.                          *)
ServedAsBound ==
    \A c \in ServiceCalls : call[c].at = "served" =>
        call[c].now < bound[call[c].app][call[c].sa] + CacheTTL
================================================================================
