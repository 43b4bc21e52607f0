------------------------------ MODULE HandlerEdge ------------------------------
(***************************************************************************)
(* Requests of browsers on their way to a handler: the admin page's, with  *)
(* an App Bridge session token (routes/admin.ts), the storefront's, signed *)
(* by Shopify's App Proxy (routes/widget.ts), and the dashboard's trigger  *)
(* of a widget, with the platform's own JWT (plugins/auth.ts).  Each is    *)
(* verified, looked up (resolveAppHandler), given an ID token              *)
(* (lib/id-token.ts) and forwarded (lib/forward.ts) to the handler, which  *)
(* verifies the token again (verify-platform.ts).  The three take the same *)
(* steps; the app may be switched off or redeployed between any two.       *)
(*                                                                         *)
(* A credential is abstracted to the verdict of its verification, the      *)
(* clock to timers that fire.  What else activates, deploys and tears down *)
(* an app does is AppLifecycle.  No code suspends a tenant.                *)
(***************************************************************************)
EXTENDS Integers

CONSTANTS
    EdgeApps,     \* ids of apps
    ShopDomains,
    ShopOf,       \* apps.shop_domain
    EdgeRequests, \* requests, one at a time each
    NoApp         \* null

ASSUME EdgeAssumption ==
    /\ ShopOf \in [EdgeApps -> ShopDomains]
    /\ NoApp \notin EdgeApps \cup ShopDomains

VARIABLES
    development, \* NODE_ENV = development: ID tokens are neither minted nor asked for
    active,      \* the apps whose apps.status is 'active'
    deployed,    \* the apps with an active deployed_functions row
    serving,     \* the apps whose service answers at its URL
    idClient,    \* clientByAudience: the promise for each app's service
    request      \* progress of each request: see NoRequest

edgeVars == <<development, active, deployed, serving, idClient, request>>

\* timer: forwardToHandler's abort is set; status: what is answered.
NoRequest == [at |-> "none", shop |-> NoApp, app |-> NoApp, timer |-> "off", status |-> 0]

EdgeInit ==
    /\ development \in BOOLEAN
    /\ active \in SUBSET EdgeApps /\ deployed \in SUBSET EdgeApps
    /\ serving = deployed
    /\ idClient = [a \in EdgeApps |-> "none"]
    /\ request = [r \in EdgeRequests |-> NoRequest]

-----------------------------------------------------------------------------
(* The apps *)

\* updateAppStatus; what deactivates or reactivates the app then runs in the
\* background, and may fail.
SwitchStatus(a) ==
    /\ active' \in {active \ {a}, active \cup {a}}
    /\ UNCHANGED <<development, deployed, serving, idClient, request>>

StartService(a) ==
    /\ serving' = serving \cup {a}
    /\ UNCHANGED <<development, active, deployed, idClient, request>>

recordDeploy(a) ==
    /\ a \in serving
    /\ deployed' = deployed \cup {a}
    /\ UNCHANGED <<development, active, serving, idClient, request>>

StopService(a) ==
    /\ serving' = serving \ {a}
    /\ UNCHANGED <<development, active, deployed, idClient, request>>

deactivateInfrastructure(a) ==
    /\ deployed' = deployed \ {a}
    /\ UNCHANGED <<development, active, serving, idClient, request>>

-----------------------------------------------------------------------------
(* A request at the edge *)

Apps == <<active, deployed, serving>>

Proceed(r, fields) == request' = [request EXCEPT ![r] = fields]

Answered(status) == [NoRequest EXCEPT !.at = "answered", !.status = status]

Reply(r, status) == Proceed(r, Answered(status))

\* verifyShopifySessionToken, verifyShopifyAppProxy, verifyJwt: a credential
\* that verifies stands for the shop it was made for.
Arrive(r) ==
    /\ request[r].at \in {"none", "answered"}
    /\ \/ \E shop \in ShopDomains, a \in EdgeApps :
             Proceed(r, [NoRequest EXCEPT !.at = "lookup", !.shop = shop, !.app = a])
       \/ Reply(r, 401)
    /\ UNCHANGED <<development, Apps, idClient>>

\* resolveAppHandler: its WHERE.
Resolves(shop, a) == ShopOf[a] = shop /\ a \in active /\ a \in deployed

Lookup(r) ==
    /\ request[r].at = "lookup"
    /\ \/ Resolves(request[r].shop, request[r].app) /\ Proceed(r, [request[r] EXCEPT !.at = "mint"])
       \/ ~Resolves(request[r].shop, request[r].app) /\ Reply(r, 503)
       \/ Reply(r, 500)
    /\ UNCHANGED <<development, Apps, idClient>>

\* getClient: one promise per audience, shared by whoever comes while it is
\* pending and after.
getClient(r) ==
    /\ request[r].at = "mint" /\ ~development
    /\ idClient' = [idClient EXCEPT ![request[r].app] = IF @ = "none" THEN "pending" ELSE @]
    /\ Proceed(r, [request[r] EXCEPT !.at = "wait"])
    /\ UNCHANGED <<development, Apps>>

ClientResolves(a) ==
    /\ idClient[a] = "pending"
    /\ idClient' = [idClient EXCEPT ![a] = "ready"]
    /\ UNCHANGED <<development, Apps, request>>

\* A failed promise is dropped, and everybody who waits for it is answered.
ClientRejects(a) ==
    /\ idClient[a] = "pending"
    /\ idClient' = [idClient EXCEPT ![a] = "none"]
    /\ request' = [r \in EdgeRequests |->
          IF request[r].at = "wait" /\ request[r].app = a
            THEN Answered(502) ELSE request[r]]
    /\ UNCHANGED <<development, Apps>>

HasHeader(r) ==
    \/ request[r].at = "mint" /\ development
    \/ request[r].at = "wait" /\ idClient[request[r].app] = "ready"

\* getRequestHeaders throws.
MintFails(r) ==
    /\ request[r].at = "wait" /\ idClient[request[r].app] = "ready"
    /\ Reply(r, 502)
    /\ UNCHANGED <<development, Apps, idClient>>

\* Mutant: the timer covers the mint only.
MutForward(r) ==
    /\ HasHeader(r)
    /\ Proceed(r, [request[r] EXCEPT !.at = "fetch", !.timer = "off"])
    /\ UNCHANGED <<development, Apps, idClient>>

\* forwardToHandler sends the request; the timer starts only now.
forwardToHandler(r) ==
    /\ HasHeader(r)
    /\ Proceed(r, [request[r] EXCEPT !.at = "fetch", !.timer = "on"])
    /\ UNCHANGED <<development, Apps, idClient>>

FetchFails(r) ==
    /\ request[r].at = "fetch"
    /\ Reply(r, 502)
    /\ UNCHANGED <<development, Apps, idClient>>

\* The abort ends the fetch, not what the handler does meanwhile.
TimesOut(r) ==
    /\ request[r].at = "fetch" /\ request[r].timer = "on"
    /\ Reply(r, 504)
    /\ UNCHANGED <<development, Apps, idClient>>

\* The token is for the root of the handler's URL, buildHandlerEnv has the
\* handler expect PLATFORM_URL.
audienceFor(a)    == a
EXPECTED_AUDIENCE == "PLATFORM_URL"

verifyPlatform(a) == development \/ audienceFor(a) = EXPECTED_AUDIENCE

\* The head of the answer: 200 is whatever the app's route answers, 404 Cloud
\* Run's for a service it does not have.  It ends the timer.
HandlerAnswers(r) ==
    /\ request[r].at = "fetch"
    /\ Proceed(r, [request[r] EXCEPT !.at = "body", !.timer = "off",
                 !.status = IF request[r].app \notin serving THEN 404
                            ELSE IF verifyPlatform(request[r].app) THEN 200 ELSE 401])
    /\ UNCHANGED <<development, Apps, idClient>>

\* res.arrayBuffer(), for which no timer of this code runs.
BodyArrives(r) ==
    /\ request[r].at = "body"
    /\ \E status \in {request[r].status, 502} : Reply(r, status)
    /\ UNCHANGED <<development, Apps, idClient>>

-----------------------------------------------------------------------------
EdgeAppStep(a) ==
    \/ SwitchStatus(a) \/ StartService(a) \/ recordDeploy(a) \/ StopService(a)
    \/ deactivateInfrastructure(a) \/ ClientResolves(a) \/ ClientRejects(a)

RequestStep(r) ==
    \/ Arrive(r) \/ Lookup(r) \/ getClient(r) \/ MintFails(r) \/ forwardToHandler(r)
    \/ FetchFails(r) \/ TimesOut(r) \/ HandlerAnswers(r) \/ BodyArrives(r)

EdgeNext ==
    \/ \E a \in EdgeApps : EdgeAppStep(a)
    \/ \E r \in EdgeRequests : RequestStep(r)

EdgeSpec == EdgeInit /\ [][EdgeNext]_edgeVars

\* What the process owes a request; the handler owes nothing.  A client settles
\* (the Google library's own timeouts), the timer fires, and a body ends at the
\* latest when Cloud Run ends the request (timeoutSec of deployToCloudRun).
Own(r)    == Lookup(r) \/ getClient(r) \/ MintFails(r) \/ forwardToHandler(r) \/ BodyArrives(r)
Settle(a) == ClientResolves(a) \/ ClientRejects(a)

EdgeFairness ==
    /\ \A r \in EdgeRequests : WF_edgeVars(Own(r)) /\ WF_edgeVars(TimesOut(r))
    /\ \A a \in EdgeApps : WF_edgeVars(Settle(a))

EdgeFairSpec == EdgeSpec /\ EdgeFairness

-----------------------------------------------------------------------------
RequestPlaces == {"none", "lookup", "mint", "wait", "fetch", "body", "answered"}

EdgeTypeOK ==
    /\ development \in BOOLEAN
    /\ active \subseteq EdgeApps /\ deployed \subseteq EdgeApps /\ serving \subseteq EdgeApps
    /\ idClient \in [EdgeApps -> {"none", "pending", "ready"}]
    /\ request \in [EdgeRequests ->
         [at : RequestPlaces, shop : ShopDomains \cup {NoApp}, app : EdgeApps \cup {NoApp},
          timer : {"off", "on"}, status : {0, 200, 401, 404, 500, 502, 503, 504}]]

(* Whatever a request waits for has something that ends the wait: a client *)
(* that settles, shared with others or not, or a running timer; so no mint *)
(* that fails for one request strands another.                             *)
EveryWaitEnds ==
    \A r \in EdgeRequests :
        /\ request[r].at = "wait"  => idClient[request[r].app] # "none"
        /\ request[r].at = "fetch" => request[r].timer = "on"

(* Every request that came is answered, though its app be switched off,    *)
(* torn down or redeployed after the lookup, the ID token it shares with   *)
(* others fail, and the handler never answer.                              *)
RequestsSettle ==
    \A r \in EdgeRequests : request[r].at = "lookup" ~> request[r].at = "answered"
================================================================================
