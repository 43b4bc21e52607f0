------------------------------- MODULE Billing -------------------------------
(***************************************************************************)
(* A tenant's plan: the billing routes, Shopify's subscriptions and the    *)
(* APP_SUBSCRIPTIONS_UPDATE webhooks that keep the two in step.  A route   *)
(* reads the tenant, calls Shopify and then writes what it read it should: *)
(* two routes and the webhook interleave at each of these.                 *)
(*                                                                         *)
(* Shopify is not in the repository: it activates what the merchant        *)
(* approves, replaces the subscription that was active, freezes, and       *)
(* reports each change in a webhook that may come late, out of order or    *)
(* again when the answer was an error.  The browser it sends back carries  *)
(* the plan in its URL, which is all that /billing/callback looks at.      *)
(***************************************************************************)
EXTENDS Naturals, FiniteSets

CONSTANTS
    Plans,          \* the paid plans
    SubIds,         \* subscription ids Shopify may give, 1 .. n
    BillingCalls,   \* requests under way at a time
    MaxBillingFaults \* bound: failing requests and payments, repeated webhooks

ASSUME BillingAssumption ==
    SubIds \subseteq Nat \ {0} /\ MaxBillingFaults \in Nat /\ "free" \notin Plans

VARIABLES
    tenant,      \* the tenants row: [plan, status, sub], sub 0 when NULL
    billed,      \* SHOPIFY_BILLING_MODE is not "disabled", its default
    remote,      \* Shopify's subscriptions: [plan, status]
    inbox,       \* webhooks under way: [sub, status]
    redirects,   \* browsers Shopify sent to /billing/callback, by plan
    request,     \* the routes' progress: [at, kind, plan, sub]
    stopped,     \* history: Shopify stopped a paid plan, and the API gave none since
    billingFaults

billingVars == <<tenant, billed, remote, inbox, redirects, request, stopped, billingFaults>>

NoRequest == [at |-> "idle", kind |-> "none", plan |-> "free", sub |-> 0]
Over == {"cancelled", "declined", "expired"}
BillingOK == UNCHANGED billingFaults
BillingFault == billingFaults < MaxBillingFaults /\ billingFaults' = billingFaults + 1

BillingInit ==
    /\ tenant = [plan |-> "free", status |-> "none", sub |-> 0]
    /\ billed \in BOOLEAN
    /\ remote = [s \in SubIds |-> [plan |-> "free", status |-> "absent"]]
    /\ inbox = {} /\ redirects = {} /\ stopped = FALSE
    /\ request = [c \in BillingCalls |-> NoRequest]
    /\ billingFaults = 0

-----------------------------------------------------------------------------
(* The routes *)

\* getTenantById: the rest of the handler uses this copy of the subscription.
\* With billing disabled a paid plan is applied without Shopify.
BeginBilling(c, kind, plan) ==
    /\ request[c].at = "idle"
    /\ request' = [request EXCEPT ![c] =
          IF kind = "subscribe" /\ ~billed
            THEN [at |-> "write", kind |-> "override", plan |-> plan, sub |-> 0]
            ELSE [at |-> "shopify", kind |-> kind, plan |-> plan, sub |-> tenant.sub]]
    /\ BillingOK
    /\ UNCHANGED <<tenant, billed, remote, inbox, redirects, stopped>>

\* createSubscription
createSubscription(c) ==
    /\ request[c].at = "shopify" /\ request[c].kind = "subscribe"
    /\ \E s \in SubIds :
          /\ remote[s].status = "absent"
          /\ \A r \in SubIds : r < s => remote[r].status # "absent"
          /\ remote' = [remote EXCEPT ![s] = [plan |-> request[c].plan, status |-> "pending"]]
          /\ request' = [request EXCEPT ![c].at = "write", ![c].sub = s]
    /\ BillingOK
    /\ UNCHANGED <<tenant, billed, inbox, redirects, stopped>>

\* cancelSubscription: without a subscription there is no call; Shopify
\* refuses to cancel one that has ended, and the route answers 500.
cancelSubscription(c) ==
    /\ request[c].at = "shopify" /\ request[c].kind # "subscribe"
    /\ LET s == request[c].sub
       IN  IF s = 0
           THEN request' = [request EXCEPT ![c].at = "write"] /\ UNCHANGED <<remote, inbox, stopped>>
           ELSE IF remote[s].status \in Over
           THEN request' = [request EXCEPT ![c] = NoRequest] /\ UNCHANGED <<remote, inbox, stopped>>
           ELSE /\ remote' = [remote EXCEPT ![s].status = "cancelled"]
                /\ inbox' = inbox \cup {[sub |-> s, status |-> "cancelled"]}
                /\ request' = [request EXCEPT ![c].at = "write"]
                /\ stopped' = (stopped \/ remote[s].status = "active")
    /\ BillingOK
    /\ UNCHANGED <<tenant, billed, redirects>>

\* The call to Shopify or the UPDATE after it rejects, or the API dies.
BillingRequestFails(c) ==
    /\ request[c].at # "idle"
    /\ request' = [request EXCEPT ![c] = NoRequest]
    /\ BillingFault
    /\ UNCHANGED <<tenant, billed, remote, inbox, redirects, stopped>>

\* The end of subscribe, subscribe to free and cancel.
updateTenantBilling(c) ==
    /\ request[c].at = "write"
    /\ tenant' = CASE request[c].kind = "subscribe" ->
                        [tenant EXCEPT !.status = "pending", !.sub = request[c].sub]
                   [] request[c].kind = "override" ->
                        [tenant EXCEPT !.plan = request[c].plan, !.status = "active"]
                   [] request[c].kind = "toFree" ->
                        [plan |-> "free", status |-> "none", sub |-> 0]
                   [] request[c].kind = "cancel" ->
                        [tenant EXCEPT !.plan = "free", !.status = "cancelled"]
    /\ stopped' = (stopped /\ request[c].kind # "override")
    /\ request' = [request EXCEPT ![c] = NoRequest]
    /\ BillingOK
    /\ UNCHANGED <<billed, remote, inbox, redirects>>

\* The handler asks for a known tenant and a known plan, for nothing else: a
\* browser that Shopify sent, one that loads the page again, any other.
Callback(p) ==
    /\ tenant' = [tenant EXCEPT !.plan = p, !.status = "active"]
    /\ stopped' = FALSE
    /\ redirects' \in {redirects, redirects \ {p}}
    /\ BillingOK
    /\ UNCHANGED <<billed, remote, inbox, request>>

-----------------------------------------------------------------------------
(* The webhook: looked up by subscription id and, failing that, by shop     *)
(* domain - there is one tenant here, so every webhook finds it.           *)

\* statusMap
StatusOf(s) == IF s \in {"declined", "expired"} THEN "cancelled" ELSE s

\* Mutant: looked up by subscription id only.
MutWebhook(w) ==
    /\ w \in inbox
    /\ inbox' = inbox \ {w}
    /\ tenant' = IF w.sub # tenant.sub THEN tenant
                 ELSE IF StatusOf(w.status) \in {"frozen", "cancelled"}
                 THEN [tenant EXCEPT !.plan = "free", !.status = StatusOf(w.status)]
                 ELSE [tenant EXCEPT !.status = StatusOf(w.status)]
    /\ BillingOK
    /\ UNCHANGED <<billed, remote, redirects, request, stopped>>

Webhook(w) ==
    /\ w \in inbox
    \* A write that fails after the update answers 500, and Shopify retries.
    /\ \/ inbox' = inbox \ {w} /\ BillingOK
       \/ UNCHANGED inbox /\ BillingFault
    /\ tenant' = IF StatusOf(w.status) \in {"frozen", "cancelled"}
                 THEN [tenant EXCEPT !.plan = "free", !.status = StatusOf(w.status)]
                 ELSE [tenant EXCEPT !.status = StatusOf(w.status)]
    /\ UNCHANGED <<billed, remote, redirects, request, stopped>>

-----------------------------------------------------------------------------
(* Shopify *)

\* The merchant approves: the subscription that was active is cancelled.
Approve(s) ==
    /\ remote[s].status = "pending" /\ \A c \in BillingCalls : request[c].sub # s
    /\ LET old == {r \in SubIds : remote[r].status \in {"active", "frozen"}}
       IN  /\ remote' = [r \in SubIds |->
                  IF r = s THEN [remote[r] EXCEPT !.status = "active"]
                  ELSE IF r \in old THEN [remote[r] EXCEPT !.status = "cancelled"]
                  ELSE remote[r]]
           /\ inbox' = inbox \cup {[sub |-> s, status |-> "active"]}
                       \cup [sub : old, status : {"cancelled"}]
    /\ redirects' = redirects \cup {remote[s].plan}
    /\ BillingOK
    /\ UNCHANGED <<tenant, billed, request, stopped>>

\* The merchant declines or lets it expire, a payment fails, or is made up for.
ShopifyChanges(s, from, to) ==
    /\ <<from, to>> \in {<<"pending", "declined">>, <<"pending", "expired">>, <<"active", "frozen">>,
                          <<"frozen", "active">>, <<"frozen", "cancelled">>}
    /\ remote[s].status = from
    /\ remote' = [remote EXCEPT ![s].status = to]
    /\ inbox' = inbox \cup {[sub |-> s, status |-> to]}
    /\ stopped' = (stopped \/ from = "active")
    /\ IF to = "frozen" THEN BillingFault ELSE BillingOK
    /\ UNCHANGED <<tenant, billed, redirects, request>>

-----------------------------------------------------------------------------
BillingNext ==
    \/ \E c \in BillingCalls :
          \/ \E p \in Plans : BeginBilling(c, "subscribe", p)
          \/ \E k \in {"toFree", "cancel"} : BeginBilling(c, k, "free")
          \/ createSubscription(c) \/ cancelSubscription(c) \/ BillingRequestFails(c)
          \/ updateTenantBilling(c)
    \/ \E p \in Plans \cup {"free"} : Callback(p)
    \/ \E w \in [sub : SubIds, status : {"active", "frozen"} \cup Over] : Webhook(w)
    \/ \E s \in SubIds : Approve(s)
    \/ \E s \in SubIds, from \in {"pending", "active", "frozen"},
          to \in {"frozen", "active"} \cup Over : ShopifyChanges(s, from, to)

BillingSpec == BillingInit /\ [][BillingNext]_billingVars

-----------------------------------------------------------------------------
RemoteStatus == {"absent", "pending", "active", "frozen"} \cup Over

BillingTypeOK ==
    /\ tenant \in [plan : Plans \cup {"free"}, sub : SubIds \cup {0},
                   status : {"none", "pending", "active", "frozen", "cancelled"}]
    /\ billed \in BOOLEAN /\ stopped \in BOOLEAN
    /\ remote \in [SubIds -> [plan : Plans \cup {"free"}, status : RemoteStatus]]
    /\ redirects \subseteq Plans \cup {"free"}
    /\ inbox \subseteq [sub : SubIds, status : RemoteStatus]
    /\ request \in [BillingCalls -> [
          at : {"idle", "shopify", "write"},
          kind : {"none", "subscribe", "override", "toFree", "cancel"},
          plan : Plans \cup {"free"}, sub : SubIds \cup {0}]]
    /\ billingFaults \in 0 .. MaxBillingFaults

(* billing.ts:266: without the webhook "a frozen tenant keeps full plan      *)
(* access indefinitely".  With it, a paid plan that Shopify freezes or the   *)
(* merchant cancels goes, or a notice that takes it is still to come - also  *)
(* when the route fails between Shopify and the UPDATE, when the tenant      *)
(* already has another subscription on file, and when notices overtake each  *)
(* other - unless the API gives a plan after that.                           *)
StoppedLosesPlan ==
    stopped => \/ tenant.plan = "free"
               \/ \E w \in inbox : w.status \in Over \cup {"frozen"}

(* billing.ts:266 also says the webhook "keeps subscription_status in sync   *)
(* with Shopify's billing state": once every request, redirect and webhook   *)
(* is through, a tenant who pays is not shown as frozen or cancelled.        *)
Quiet == inbox = {} /\ redirects = {} /\ \A c \in BillingCalls : request[c].at = "idle"

PayerIsInSync ==
    Quiet /\ (\E s \in SubIds : remote[s].status = "active")
        => tenant.status \notin {"frozen", "cancelled"}
=============================================================================
