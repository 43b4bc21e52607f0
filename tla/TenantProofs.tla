----------------------------- MODULE TenantProofs -----------------------------
(***************************************************************************)
(* Proofs about a tenant's installation, plan and mails, for any number of *)
(* shops, callbacks, subscriptions, requests, mails and senders.           *)
(*                                                                         *)
(* Install: a callback writes a shop's secrets before it names them in the *)
(* row.  Billing: what stops a plan at Shopify sends a notice, and a notice *)
(* that is handled takes the plan.  EmailService: a sender past the quota is counted   *)
(* until its mail is, and a bounce's webhook waits for its suppression.    *)
(***************************************************************************)
EXTENDS Install, Billing, EmailService, FiniteSetTheorems, TLAPS

-----------------------------------------------------------------------------
(* Install                                                                 *)

\* Where a callback has written the access token, and still goes on.
Wrote(c) == callbacks[c].at \in {"storefront", "lookup", "update", "create"}

\* The latest version of a shop's secret is a token of that shop.
Owned(kind, s) == secrets[kind][s].shop = s

\* A callback, like a row, names the secrets of its own shop, once written.
NamesOwn ==
    /\ \A c \in Callbacks : callbacks[c].at # "idle" => callbacks[c].shop \in Shops
    /\ \A c \in Callbacks : Wrote(c) => Owned("admin", callbacks[c].shop)
    /\ \A c \in Callbacks : callbacks[c].storefront # "none" =>
          /\ callbacks[c].at # "idle" /\ callbacks[c].storefront = callbacks[c].shop
          /\ Owned("storefront", callbacks[c].shop)
    /\ \A s \in Shops : tenants[s].secret # "none" =>
          tenants[s].secret = s /\ Owned("admin", s)
    /\ \A s \in Shops : tenants[s].storefront # "none" =>
          /\ tenants[s].secret = s /\ tenants[s].storefront = s
          /\ Owned("storefront", s)

InstallInv == InstallTypeOK /\ NamesOwn

\* storeSecret makes the shop's secret its own and leaves the others alone.
LEMMA StoreOwns ==
    ASSUME InstallTypeOK, NEW kind \in Kinds, NEW shop \in Shops,
           NEW token \in 0 .. MaxAuthorizations, Store(kind, shop, token)
    PROVE  /\ secrets' \in [Kinds -> [SecretIds ->
                 [shop : Shops \cup {"none"}, token : 0 .. MaxAuthorizations]]]
           /\ Owned(kind, shop)'
           /\ \A k \in Kinds, s \in Shops : Owned(k, s) => Owned(k, s)'
<1> DEFINE entry == [shop |-> shop, token |-> token]
           Entries == [shop : Shops \cup {"none"}, token : 0 .. MaxAuthorizations]
<1>1. entry \in Entries /\ entry.shop = shop
  OBVIOUS
<1>2. secrets' = [secrets EXCEPT ![kind][shop] = entry] /\ shop \in SecretIds
  BY DEF Store, SecretId, SecretIds
<1>3. secrets \in [Kinds -> [SecretIds -> Entries]]
  BY DEF InstallTypeOK
<1> HIDE DEF entry, Entries
<1>4. secrets' \in [Kinds -> [SecretIds -> Entries]]
  BY <1>1, <1>2, <1>3
<1>5. \A k \in Kinds, s \in Shops :
        secrets'[k][s] = IF k = kind /\ s = shop THEN entry ELSE secrets[k][s]
  BY <1>2, <1>3 DEF SecretIds
<1>6. QED
  BY <1>1, <1>4, <1>5 DEF Owned, Entries

LEMMA InstallInvStep ==
    ASSUME InstallInv, [InstallNext]_installVars
    PROVE  InstallInv'
<1> DEFINE Tokens == 0 .. MaxAuthorizations
           Places == {"idle", "token", "storefront", "lookup", "update", "create"}
           Progress == [at : Places, shop : Shops \cup {"none"}, token : Tokens,
                        storefront : Shops \cup {"none"}]
<1>0. /\ callbacks \in [Callbacks -> Progress] /\ InstallTypeOK /\ NamesOwn
      /\ NoCallback \in Progress
  BY InstallAssumption DEF InstallInv, InstallTypeOK, NoCallback
<1>1. ASSUME NEW s \in Shops, Reauthorize(s) PROVE InstallInv'
  BY <1>1, InstallAssumption
  DEF Reauthorize, InstallInv, InstallTypeOK, NamesOwn, Wrote, Owned
<1>2. ASSUME NEW c \in Callbacks, NEW s \in Shops, exchangeCodeForToken(c, s)
      PROVE  InstallInv'
  BY <1>2, InstallAssumption
  DEF exchangeCodeForToken, InstallInv, InstallTypeOK, NamesOwn, Wrote, Owned
<1>3. ASSUME NEW c \in Callbacks, persistAccessToken(c) PROVE InstallInv'
  <2>1. callbacks[c].shop \in Shops /\ callbacks[c].token \in Tokens /\ "admin" \in Kinds
    BY <1>0, <1>3 DEF persistAccessToken, NamesOwn, Kinds
  <2>2. /\ authorization' = authorization /\ tenants' = tenants
        /\ installFaults' \in 0 .. MaxInstallFaults
    BY <1>3, InstallAssumption
    DEF persistAccessToken, InstallInv, InstallTypeOK, InstallOK, InstallFault
  <2>3. CASE Store("admin", callbacks[c].shop, callbacks[c].token) /\ To(c, "storefront")
    <3>1. /\ secrets' \in [Kinds -> [SecretIds ->
                 [shop : Shops \cup {"none"}, token : Tokens]]]
          /\ Owned("admin", callbacks[c].shop)'
          /\ \A k \in Kinds, s \in Shops : Owned(k, s) => Owned(k, s)'
      BY <1>0, <2>1, <2>3, StoreOwns DEF To, Owned
    <3>2. InstallTypeOK'
      BY <1>0, <2>2, <2>3, <3>1 DEF InstallTypeOK, To
    <3>3. NamesOwn'
      BY <1>0, <1>3, <2>1, <2>2, <2>3, <3>1, InstallAssumption
      DEF NamesOwn, Wrote, To, persistAccessToken, Kinds
    <3>4. QED
      BY <3>2, <3>3 DEF InstallInv
  <2>4. CASE Leave(c) /\ UNCHANGED secrets
    BY <1>0, <2>2, <2>4 DEF InstallInv, InstallTypeOK, NamesOwn, Wrote, Owned, Leave, NoCallback
  <2>5. QED
    BY <1>3, <2>3, <2>4 DEF persistAccessToken
<1>4. ASSUME NEW c \in Callbacks, provisionStorefrontToken(c) PROVE InstallInv'
  <2>0. callbacks[c].at = "storefront"
    BY <1>4 DEF provisionStorefrontToken
  <2>1. callbacks[c].shop \in Shops /\ callbacks[c].token \in Tokens /\ "storefront" \in Kinds
    BY <1>0, <2>0 DEF NamesOwn, Kinds
  <2>2. /\ authorization' = authorization /\ tenants' = tenants
        /\ installFaults' \in 0 .. MaxInstallFaults
    BY <1>4, InstallAssumption
    DEF provisionStorefrontToken, InstallInv, InstallTypeOK, InstallOK, InstallFault
  <2>3. CASE /\ Store("storefront", callbacks[c].shop, callbacks[c].token)
             /\ callbacks' = [callbacks EXCEPT ![c].at = "lookup",
                                               ![c].storefront = SecretId(callbacks[c].shop)]
    <3>1. /\ secrets' \in [Kinds -> [SecretIds ->
                 [shop : Shops \cup {"none"}, token : Tokens]]]
          /\ Owned("storefront", callbacks[c].shop)'
          /\ \A k \in Kinds, s \in Shops : Owned(k, s) => Owned(k, s)'
      BY <1>0, <2>1, <2>3, StoreOwns
    <3>2. InstallTypeOK'
      BY <1>0, <2>1, <2>2, <2>3, <3>1 DEF InstallTypeOK, SecretId
    <3>3. NamesOwn'
      BY <1>0, <2>0, <2>1, <2>2, <2>3, <3>1, InstallAssumption
      DEF NamesOwn, Wrote, SecretId, Kinds
    <3>4. QED
      BY <3>2, <3>3 DEF InstallInv
  <2>4. CASE To(c, "lookup") /\ UNCHANGED secrets
    BY <1>0, <2>0, <2>2, <2>4 DEF InstallInv, InstallTypeOK, NamesOwn, Wrote, Owned, To
  <2>5. QED
    BY <1>4, <2>3, <2>4 DEF provisionStorefrontToken
<1>5. ASSUME NEW c \in Callbacks, getTenantByShopDomain(c) PROVE InstallInv'
  BY <1>5 DEF getTenantByShopDomain, To, InstallOK, InstallInv, InstallTypeOK, NamesOwn,
              Wrote, Owned
\* Both writes leave the row as it was or name the two secrets of the shop.
<1>6. ASSUME NEW c \in Callbacks, updateTenantAccessToken(c) \/ createTenant(c)
      PROVE  InstallInv'
  <2>0. /\ callbacks' = [callbacks EXCEPT ![c] = NoCallback]
        /\ authorization' = authorization /\ secrets' = secrets
        /\ installFaults' \in 0 .. MaxInstallFaults
        /\ callbacks[c].at \in {"update", "create"}
        /\ tenants' = tenants \/ WriteTenant(callbacks[c].shop, callbacks[c].storefront)
    BY <1>6, InstallAssumption
    DEF updateTenantAccessToken, createTenant, Leave, InstallInv, InstallTypeOK, InstallOK,
        InstallFault
  <2> DEFINE shop == callbacks[c].shop
             kept == KeptStorefront(shop, callbacks[c].storefront)
  <2>1. /\ shop \in Shops /\ Owned("admin", shop)
        /\ kept \in {"none", shop} /\ (kept # "none" => Owned("storefront", shop))
    BY <1>0, <2>0 DEF NamesOwn, Wrote, KeptStorefront
  <2>2. CASE WriteTenant(shop, callbacks[c].storefront)
    <3>1. tenants' = [tenants EXCEPT ![shop] = [secret |-> shop, storefront |-> kept]]
      BY <2>2 DEF WriteTenant, SecretId
    <3>2. /\ \A s \in Shops : s # shop => tenants'[s] = tenants[s]
          /\ tenants'[shop].secret = shop /\ tenants'[shop].storefront = kept
          /\ tenants' \in [Shops -> [secret : Shops \cup {"none"}, storefront : Shops \cup {"none"}]]
      <4> HIDE DEF kept
      <4>1. QED
        BY <1>0, <2>1, <3>1 DEF InstallTypeOK
    <3> HIDE DEF kept, shop
    <3>3. InstallTypeOK'
      BY <1>0, <2>0, <3>2 DEF InstallTypeOK
    <3>4. NamesOwn'
      <4>1. \A k \in Kinds, s \in Shops : Owned(k, s)' <=> Owned(k, s)
        BY <2>0 DEF Owned
      <4>2. /\ callbacks'[c].at = "idle" /\ callbacks'[c].storefront = "none"
            /\ \A d \in Callbacks : d # c => callbacks'[d] = callbacks[d]
        BY <1>0, <2>0 DEF NoCallback
      <4>3. \A s \in Shops : tenants'[s].secret # "none" =>
              tenants'[s].secret = s /\ Owned("admin", s)'
        BY <1>0, <2>1, <3>2, <4>1 DEF NamesOwn, Kinds
      <4>4. \A s \in Shops : tenants'[s].storefront # "none" =>
              /\ tenants'[s].secret = s /\ tenants'[s].storefront = s
              /\ Owned("storefront", s)'
        BY <1>0, <2>1, <3>2, <4>1 DEF NamesOwn, Kinds
      <4>5. QED
        BY <1>0, <4>1, <4>2, <4>3, <4>4 DEF NamesOwn, Wrote, Kinds
    <3>5. QED
      BY <3>3, <3>4 DEF InstallInv
  <2>3. CASE tenants' = tenants
    BY <1>0, <2>0, <2>3 DEF InstallInv, InstallTypeOK, NamesOwn, Wrote, Owned, NoCallback
  <2>4. QED
    BY <2>0, <2>2, <2>3
<1>7. CASE UNCHANGED installVars
  BY <1>7 DEF installVars, InstallInv, InstallTypeOK, NamesOwn, Wrote, Owned
<1>8. QED
  BY <1>1, <1>2, <1>3, <1>4, <1>5, <1>6, <1>7 DEF InstallNext

LEMMA InstallInvariant == InstallSpec => []InstallInv
<1>1. InstallInit => InstallInv
  <2>1. InstallInit => InstallTypeOK
    BY InstallAssumption DEF InstallInit, InstallTypeOK, Empty, NoTenant, NoCallback
  <2>2. InstallInit => NamesOwn
    BY DEF InstallInit, NamesOwn, Wrote, NoTenant, NoCallback
  <2>3. QED
    BY <2>1, <2>2 DEF InstallInv
<1>2. InstallInv /\ [InstallNext]_installVars => InstallInv'
  BY InstallInvStep
<1>3. QED
  BY <1>1, <1>2, PTL DEF InstallSpec

\* Secrets, rows and callbacks keep their types (oauth.ts).
THEOREM InstallTypeCorrect == InstallSpec => []InstallTypeOK
<1>1. InstallInv => InstallTypeOK
  BY DEF InstallInv
<1>2. QED
  BY <1>1, InstallInvariant, PTL

\* The secrets a tenant's row names hold tokens of its shop (oauth.ts,
\* services/shopify.ts).
THEOREM TokensAreOwn == InstallSpec => []TokenIsOwn
<1>1. InstallInv => TokenIsOwn
  <2> SUFFICES ASSUME InstallInv, NEW s \in Shops, Known(s)
               PROVE  /\ secrets["admin"][tenants[s].secret].shop = s
                      /\ tenants[s].storefront # "none" =>
                            secrets["storefront"][tenants[s].storefront].shop = s
    BY DEF TokenIsOwn
  <2>1. tenants[s].secret # "none"
    BY InstallAssumption DEF InstallInv, InstallTypeOK, NamesOwn, Known, NoTenant
  <2>2. QED
    BY <2>1 DEF InstallInv, NamesOwn, Owned
<1>2. QED
  BY <1>1, InstallInvariant, PTL

-----------------------------------------------------------------------------
(* Billing                                                                 *)

\* A request under way is one of the routes.
Asked == \A c \in BillingCalls : request[c].at # "idle" => request[c].kind # "none"

BillingInv == BillingTypeOK /\ Asked /\ StoppedLosesPlan

LEMMA BillingTypeStep ==
    ASSUME BillingTypeOK, Asked, [BillingNext]_billingVars
    PROVE  BillingTypeOK'
<1> USE BillingAssumption DEF BillingTypeOK, BillingOK, BillingFault
<1>1. ASSUME NEW c \in BillingCalls, NEW kind \in {"subscribe", "toFree", "cancel"},
             NEW p \in Plans \cup {"free"}, BeginBilling(c, kind, p)
      PROVE  BillingTypeOK'
  BY <1>1 DEF BeginBilling
<1>2. ASSUME NEW c \in BillingCalls, createSubscription(c) PROVE BillingTypeOK'
  <2>1. PICK s \in SubIds :
           /\ remote' = [remote EXCEPT ![s] = [plan |-> request[c].plan, status |-> "pending"]]
           /\ request' = [request EXCEPT ![c].at = "write", ![c].sub = s]
    BY <1>2 DEF createSubscription
  <2>2. remote' \in [SubIds -> [plan : Plans \cup {"free"}, status : RemoteStatus]]
    BY <2>1 DEF RemoteStatus
  <2>3. QED
    <3>1. UNCHANGED <<tenant, billed, inbox, redirects, stopped, billingFaults>>
      BY <1>2 DEF createSubscription
    <3>2. request' \in [BillingCalls -> [
            at : {"idle", "shopify", "write"}, kind : {"none", "subscribe", "override", "toFree", "cancel"},
            plan : Plans \cup {"free"}, sub : SubIds \cup {0}]]
      <4> DEFINE Requests == [
                   at : {"idle", "shopify", "write"},
                   kind : {"none", "subscribe", "override", "toFree", "cancel"},
                   plan : Plans \cup {"free"}, sub : SubIds \cup {0}]
                 x == request[c]
                 y == [x EXCEPT !.at = "write", !.sub = s]
      <4>1. request' = [request EXCEPT ![c] = y]
        BY <2>1
      <4>2. x \in Requests /\ s \in SubIds \cup {0}
        OBVIOUS
      <4> HIDE DEF x
      <4>3. y \in Requests
        BY <4>2
      <4> HIDE DEF y
      <4>4. QED
        BY <4>1, <4>3
    <3>3. QED
      BY <2>2, <3>1, <3>2
<1>3. ASSUME NEW c \in BillingCalls, cancelSubscription(c) PROVE BillingTypeOK'
  <2>1. /\ request' = [request EXCEPT ![c].at = "write"]
           \/ request' = [request EXCEPT ![c] = NoRequest]
        /\ \/ UNCHANGED <<remote, inbox>>
           \/ /\ request[c].sub \in SubIds
              /\ remote' = [remote EXCEPT ![request[c].sub].status = "cancelled"]
              /\ inbox' = inbox \cup {[sub |-> request[c].sub, status |-> "cancelled"]}
        /\ UNCHANGED <<tenant, billed, redirects, billingFaults>>
        /\ stopped' \in BOOLEAN
    BY <1>3 DEF cancelSubscription
  <2>2. request' \in [BillingCalls -> [
          at : {"idle", "shopify", "write"}, kind : {"none", "subscribe", "override", "toFree", "cancel"},
          plan : Plans \cup {"free"}, sub : SubIds \cup {0}]]
    BY <2>1 DEF NoRequest
  <2>3. /\ remote' \in [SubIds -> [plan : Plans \cup {"free"}, status : RemoteStatus]]
        /\ inbox' \subseteq [sub : SubIds, status : RemoteStatus]
    BY <2>1 DEF RemoteStatus, Over
  <2>4. QED
    BY <2>1, <2>2, <2>3
<1>4. ASSUME NEW c \in BillingCalls, BillingRequestFails(c) PROVE BillingTypeOK'
  BY <1>4 DEF BillingRequestFails, NoRequest
<1>5. ASSUME NEW c \in BillingCalls, updateTenantBilling(c) PROVE BillingTypeOK'
  <2>1. /\ request' = [request EXCEPT ![c] = NoRequest]
        /\ UNCHANGED <<billed, remote, inbox, redirects, billingFaults>>
        /\ stopped' \in BOOLEAN
    BY <1>5 DEF updateTenantBilling
  <2>2. tenant' \in [plan : Plans \cup {"free"}, sub : SubIds \cup {0},
                     status : {"none", "pending", "active", "frozen", "cancelled"}]
    <3>1. CASE request[c].kind = "subscribe"
      BY <1>5, <3>1 DEF updateTenantBilling
    <3>2. CASE request[c].kind = "toFree"
      BY <1>5, <3>2 DEF updateTenantBilling
    <3>3. CASE request[c].kind = "cancel"
      BY <1>5, <3>3 DEF updateTenantBilling
    <3>4. CASE request[c].kind = "override"
      BY <1>5, <3>4 DEF updateTenantBilling
    <3>5. QED
      BY <1>5, <3>1, <3>2, <3>3, <3>4 DEF updateTenantBilling, Asked
  <2>3. QED
    BY <2>1, <2>2 DEF NoRequest
<1>6. ASSUME NEW p \in Plans \cup {"free"}, Callback(p) PROVE BillingTypeOK'
  <2>1. tenant' = [tenant EXCEPT !.plan = p, !.status = "active"]
    BY <1>6 DEF Callback
  <2>2. tenant' \in [plan : Plans \cup {"free"}, sub : SubIds \cup {0},
                     status : {"none", "pending", "active", "frozen", "cancelled"}]
    BY <2>1
  <2>3. QED
    BY <1>6, <2>2 DEF Callback
<1>7. ASSUME NEW w \in [sub : SubIds, status : {"active", "frozen"} \cup Over], Webhook(w)
      PROVE  BillingTypeOK'
  <2>1. StatusOf(w.status) \in {"active", "frozen", "cancelled"}
    BY DEF StatusOf, Over
  <2>2. tenant' = [tenant EXCEPT !.plan = "free", !.status = StatusOf(w.status)]
        \/ tenant' = [tenant EXCEPT !.status = StatusOf(w.status)]
    BY <1>7 DEF Webhook
  <2>3. tenant' \in [plan : Plans \cup {"free"}, sub : SubIds \cup {0},
                     status : {"none", "pending", "active", "frozen", "cancelled"}]
    BY <2>1, <2>2
  <2>4. QED
    BY <1>7, <2>3 DEF Webhook
<1>8. ASSUME NEW s \in SubIds, Approve(s) PROVE BillingTypeOK'
  BY <1>8 DEF Approve, RemoteStatus, Over
<1>9. ASSUME NEW s \in SubIds, NEW from \in {"pending", "active", "frozen"},
             NEW to \in {"frozen", "active"} \cup Over, ShopifyChanges(s, from, to)
      PROVE  BillingTypeOK'
  BY <1>9 DEF ShopifyChanges, RemoteStatus
<1>10. CASE UNCHANGED billingVars
  BY <1>10 DEF billingVars
<1>11. QED
  BY <1>1, <1>2, <1>3, <1>4, <1>5, <1>6, <1>7, <1>8, <1>9, <1>10 DEF BillingNext

\* What stops a plan sends a notice, and only handling the notice removes it.
LEMMA StoppedStep ==
    ASSUME BillingInv, [BillingNext]_billingVars
    PROVE  StoppedLosesPlan'
<1> USE BillingAssumption DEF BillingInv, StoppedLosesPlan
<1>1. ASSUME stopped' => stopped, inbox \subseteq inbox', tenant'.plan \in {tenant.plan, "free"}
      PROVE  StoppedLosesPlan'
  BY <1>1
<1>2. ASSUME NEW c \in BillingCalls,
             \/ \E p \in Plans : BeginBilling(c, "subscribe", p)
             \/ \E k \in {"toFree", "cancel"} : BeginBilling(c, k, "free")
             \/ createSubscription(c) \/ BillingRequestFails(c)
      PROVE  StoppedLosesPlan'
  BY <1>1, <1>2 DEF BeginBilling, createSubscription, BillingRequestFails
<1>3. ASSUME NEW c \in BillingCalls, cancelSubscription(c)
      PROVE  StoppedLosesPlan'
  <2>1. tenant' = tenant
    BY <1>3 DEF cancelSubscription
  <2>2. CASE UNCHANGED <<inbox, stopped>>
    BY <1>1, <2>1, <2>2
  <2>3. CASE inbox' = inbox \cup {[sub |-> request[c].sub, status |-> "cancelled"]}
    <3> DEFINE n == [sub |-> request[c].sub, status |-> "cancelled"]
    <3>1. n.status \in Over \cup {"frozen"}
      BY DEF Over
    <3>2. n \in inbox'
      BY <2>3
    <3> HIDE DEF n
    <3>3. QED
      BY <3>1, <3>2
  <2>4. QED
    BY <1>3, <2>2, <2>3 DEF cancelSubscription
<1>4. ASSUME NEW c \in BillingCalls, updateTenantBilling(c)
      PROVE  StoppedLosesPlan'
  <2> USE DEF updateTenantBilling, BillingTypeOK
  <2>1. CASE request[c].kind = "subscribe"
    BY <1>4, <2>1
  <2>2. CASE request[c].kind = "toFree"
    BY <1>4, <2>2
  <2>3. CASE request[c].kind = "cancel"
    BY <1>4, <2>3
  <2>4. CASE request[c].kind = "override"
    BY <1>4, <2>4
  <2>5. QED
    BY <1>4, <2>1, <2>2, <2>3, <2>4 DEF Asked
<1>5. ASSUME NEW p \in Plans \cup {"free"}, Callback(p)
      PROVE  StoppedLosesPlan'
  BY <1>5 DEF Callback
<1>6. ASSUME NEW w \in [sub : SubIds, status : {"active", "frozen"} \cup Over], Webhook(w)
      PROVE  StoppedLosesPlan'
  <2>0. stopped' = stopped /\ tenant \in [plan : Plans \cup {"free"}, sub : SubIds \cup {0},
                   status : {"none", "pending", "active", "frozen", "cancelled"}]
        /\ inbox \ {w} \subseteq inbox'
    BY <1>6 DEF Webhook, BillingTypeOK
  <2>1. CASE w.status \in Over \cup {"frozen"}
    <3>1. StatusOf(w.status) \in {"frozen", "cancelled"}
      BY <2>1 DEF StatusOf, Over
    <3>2. tenant'.plan = "free"
      BY <1>6, <2>0, <3>1 DEF Webhook
    <3>3. QED
      BY <3>2
  <2>2. CASE w.status \notin Over \cup {"frozen"}
    <3>1. StatusOf(w.status) \notin {"frozen", "cancelled"}
      BY <2>2 DEF StatusOf, Over
    <3>2. tenant'.plan = tenant.plan
      BY <1>6, <2>0, <3>1 DEF Webhook
    <3>3. QED
      BY <2>0, <2>2, <3>2
  <2>3. QED
    BY <2>1, <2>2
<1>7. ASSUME NEW s \in SubIds, Approve(s)
      PROVE  StoppedLosesPlan'
  BY <1>1, <1>7 DEF Approve
<1>8. ASSUME NEW s \in SubIds, NEW from, NEW to, ShopifyChanges(s, from, to)
      PROVE  StoppedLosesPlan'
  <2>1. /\ inbox' = inbox \cup {[sub |-> s, status |-> to]} /\ tenant' = tenant
        /\ stopped' = (stopped \/ from = "active")
        /\ from = "active" => to = "frozen"
    BY <1>8 DEF ShopifyChanges
  <2>2. CASE from = "active"
    <3> DEFINE n == [sub |-> s, status |-> to]
    <3>1. n.status \in Over \cup {"frozen"}
      BY <2>1, <2>2
    <3>2. n \in inbox'
      BY <2>1
    <3> HIDE DEF n
    <3>3. QED
      BY <3>1, <3>2
  <2>3. CASE from # "active"
    <3>1. stopped' = stopped
      BY <2>1, <2>3 DEF BillingTypeOK
    <3>2. QED
      BY <1>1, <2>1, <3>1
  <2>4. QED
    BY <2>2, <2>3
<1>9. CASE UNCHANGED billingVars
  BY <1>1, <1>9 DEF billingVars
<1>10. QED
  BY <1>2, <1>3, <1>4, <1>5, <1>6, <1>7, <1>8, <1>9 DEF BillingNext

LEMMA AskedStep ==
    ASSUME BillingInv, [BillingNext]_billingVars
    PROVE  Asked'
<1> USE DEF BillingInv, BillingTypeOK, Asked, NoRequest
<1>1. ASSUME NEW c \in BillingCalls,
             \/ \E p \in Plans : BeginBilling(c, "subscribe", p)
             \/ \E k \in {"toFree", "cancel"} : BeginBilling(c, k, "free")
      PROVE  Asked'
  BY <1>1 DEF BeginBilling
<1>2. ASSUME NEW c \in BillingCalls,
             createSubscription(c) \/ cancelSubscription(c)
             \/ BillingRequestFails(c) \/ updateTenantBilling(c)
      PROVE  Asked'
  BY <1>2 DEF createSubscription, cancelSubscription, BillingRequestFails, updateTenantBilling
<1>3. ASSUME request' = request PROVE Asked'
  BY <1>3
<1>4. QED
  BY <1>1, <1>2, <1>3
  DEF BillingNext, Callback, Webhook, Approve, ShopifyChanges, billingVars

LEMMA BillingInvariant == BillingSpec => []BillingInv
<1>1. BillingInit => BillingInv
  <2>1. ASSUME BillingInit PROVE BillingTypeOK /\ Asked
    <3>1. billed \in BOOLEAN /\ stopped \in BOOLEAN
      BY <2>1, Zenon DEF BillingInit
    <3>2. remote \in [SubIds -> [plan : Plans \cup {"free"}, status : RemoteStatus]]
      BY <2>1 DEF BillingInit, RemoteStatus
    <3>3. /\ tenant = [plan |-> "free", status |-> "none", sub |-> 0]
          /\ inbox = {} /\ redirects = {} /\ billingFaults = 0
          /\ request = [c \in BillingCalls |-> NoRequest]
      BY <2>1 DEF BillingInit
    <3>4. QED
      BY <3>1, <3>2, <3>3, BillingAssumption DEF BillingTypeOK, Asked, NoRequest
  <2>2. BillingInit => StoppedLosesPlan
    BY DEF BillingInit, StoppedLosesPlan
  <2>3. QED
    BY <2>1, <2>2 DEF BillingInv
<1>2. BillingInv /\ [BillingNext]_billingVars => BillingInv'
  BY BillingTypeStep, AskedStep, StoppedStep DEF BillingInv
<1>3. QED
  BY <1>1, <1>2, PTL DEF BillingSpec

\* The plan, Shopify's subscriptions and the requests keep their types
\* (routes/billing.ts).
THEOREM BillingTypeCorrect == BillingSpec => []BillingTypeOK
<1>1. BillingInv => BillingTypeOK
  BY DEF BillingInv
<1>2. QED
  BY <1>1, BillingInvariant, PTL

\* A plan that Shopify froze or the merchant cancelled goes, or a notice that
\* takes it is still to come, unless the API gave one since (routes/billing.ts).
THEOREM StoppedPlansGo == BillingSpec => []StoppedLosesPlan
<1>1. BillingInv => StoppedLosesPlan
  BY DEF BillingInv
<1>2. QED
  BY <1>1, BillingInvariant, PTL

-----------------------------------------------------------------------------
(* EmailService                                                            *)

SendPlaces == {"idle", "suppression", "quota", "insert", "submit", "record", "count", "failed"}
Statuses == {"absent", "queued", "sent", "delivered", "bounced", "complained", "failed"}
MailType == [to : Recipients \cup {"none"}, test : BOOLEAN, status : Statuses, known : BOOLEAN]
SendType == [at : SendPlaces, to : Recipients \cup {"none"}, test : BOOLEAN,
             mail : Mails \cup {0}, id : BOOLEAN]

\* A send that has its row of email_deliveries.
HasMail(s) == sends[s].at \in {"submit", "record", "count", "failed"}

Present(m) == mails[m].status # "absent"

\* A mail Resend has is a row with an address, and so is that of a send; only a
\* webhook that knows the mail says it bounced, and one that waits says so too.
MailsOK ==
    /\ \A s \in Senders : sends[s].at # "idle" => sends[s].to \in Recipients
    /\ \A s \in Senders : HasMail(s) =>
          /\ sends[s].mail \in Mails /\ Present(sends[s].mail)
          /\ mails[sends[s].mail].test = sends[s].test
    /\ \A m \in Mails : Present(m) => mails[m].to \in Recipients
    /\ \A m \in Mails : mails[m].status \in Suppressing => mails[m].known
    /\ \A m \in accepted : Present(m)
    /\ \A n \in notices : Present(n.mail)
    /\ \A n \in receiving : n.type \in Suppressing

MailsInv == EmailTypeOK /\ MailsOK /\ BounceSuppresses

\* A step that leaves the deliveries alone, but for what is sent next.
LEMMA SendOnly ==
    ASSUME MailsInv, NEW s \in Senders, NEW x \in SendType,
           sends' = [sends EXCEPT ![s] = x],
           x.at # "idle" => x.to \in Recipients,
           x.at \in {"submit", "record", "count", "failed"} =>
              x.mail \in Mails /\ Present(x.mail) /\ mails[x.mail].test = x.test,
           emailsSent' \in Nat, emailFaults' \in 0 .. MaxEmailFaults,
           UNCHANGED <<mails, suppressed, accepted, notices, receiving>>
    PROVE  MailsInv'
<1>1. /\ sends' \in [Senders -> SendType] /\ sends'[s] = x
      /\ \A r \in Senders : r # s => sends'[r] = sends[r]
  BY DEF MailsInv, EmailTypeOK, SendType, SendPlaces
<1>2. EmailTypeOK'
  BY <1>1 DEF MailsInv, EmailTypeOK, SendType, SendPlaces
<1>3. MailsOK'
  BY <1>1 DEF MailsInv, MailsOK, HasMail, Present
<1>4. BounceSuppresses'
  BY DEF MailsInv, BounceSuppresses
<1>5. QED
  BY <1>2, <1>3, <1>4 DEF MailsInv

LEMMA SendFacts ==
    ASSUME MailsInv, NEW s \in Senders
    PROVE  /\ sends[s] \in SendType /\ NoSend \in SendType /\ NoSend.at = "idle"
           /\ emailsSent \in Nat /\ emailFaults \in 0 .. MaxEmailFaults
           /\ mails \in [Mails -> MailType]
           /\ EmailOK \/ EmailFault => emailFaults' \in 0 .. MaxEmailFaults
BY EmailAssumption
DEF MailsInv, EmailTypeOK, SendType, SendPlaces, MailType, Statuses, NoSend, EmailOK, EmailFault

\* A send goes on from one place to the next.
LEMMA GoOnType ==
    ASSUME MailsInv, NEW s \in Senders, NEW place \in SendPlaces
    PROVE  LET x == [sends[s] EXCEPT !.at = place]
           IN  /\ x \in SendType /\ x.at = place /\ x.to = sends[s].to
               /\ x.mail = sends[s].mail /\ x.test = sends[s].test
BY SendFacts DEF SendType

\* The steps of a send before and after it has to do with its mail.
LEMMA SendSteps ==
    ASSUME MailsInv, NEW s \in Senders
    PROVE  /\ \A to \in Recipients, test \in BOOLEAN : BeginSend(s, to, test) => MailsInv'
           /\ isEmailSuppressed(s) => MailsInv'
           /\ checkUsageQuota(s) => MailsInv'
           /\ missingConfig(s) => MailsInv'
           /\ incrementUsage(s) => MailsInv'
           /\ SendFails(s) => MailsInv'
<1>1. ASSUME EmailOK \/ EmailFault, emailsSent' \in Nat, EndSend(s),
             UNCHANGED <<mails, suppressed, accepted, notices, receiving>>
      PROVE  MailsInv'
  BY <1>1, SendFacts, SendOnly DEF EndSend, NoSend
<1>2. ASSUME NEW place \in {"quota", "insert"}, GoOn(s, place), sends[s].at # "idle",
             EmailOK, UNCHANGED <<mails, suppressed, emailsSent, accepted, notices, receiving>>
      PROVE  MailsInv'
  <2> DEFINE x == [sends[s] EXCEPT !.at = place]
  <2>0. place \in SendPlaces
    BY DEF SendPlaces
  <2>1. x \in SendType /\ x.at = place /\ x.to = sends[s].to
    BY <2>0, GoOnType
  <2>2. sends' = [sends EXCEPT ![s] = x]
    BY <1>2 DEF GoOn
  <2>3. sends[s].to \in Recipients
    BY <1>2 DEF MailsInv, MailsOK
  <2> HIDE DEF x
  <2>4. emailsSent' \in Nat /\ emailFaults' \in 0 .. MaxEmailFaults
    BY <1>2, SendFacts
  <2>5. QED
    BY <1>2, <2>1, <2>2, <2>3, <2>4, SendOnly
<1>3. ASSUME NEW to \in Recipients, NEW test \in BOOLEAN, BeginSend(s, to, test)
      PROVE  MailsInv'
  <2> DEFINE place == IF test THEN "insert" ELSE "suppression"
             x == [at |-> place, to |-> to, test |-> test, mail |-> 0, id |-> FALSE]
  <2>1. x \in SendType /\ x.at \in {"insert", "suppression"} /\ x.to = to
    BY DEF SendType, SendPlaces
  <2>2. sends' = [sends EXCEPT ![s] = x]
    BY <1>3 DEF BeginSend
  <2> HIDE DEF x
  <2>3. /\ emailsSent' \in Nat /\ emailFaults' \in 0 .. MaxEmailFaults
        /\ UNCHANGED <<mails, suppressed, accepted, notices, receiving>>
    BY <1>3, SendFacts DEF BeginSend
  <2>4. QED
    BY <2>1, <2>2, <2>3, SendOnly
<1>4. CASE isEmailSuppressed(s)
  BY <1>1, <1>2, <1>4, SendFacts DEF isEmailSuppressed
<1>5. CASE checkUsageQuota(s)
  BY <1>1, <1>2, <1>5, SendFacts DEF checkUsageQuota
<1>6. CASE missingConfig(s)
  BY <1>1, <1>6, SendFacts DEF missingConfig
<1>7. CASE incrementUsage(s)
  BY <1>1, <1>7, SendFacts DEF incrementUsage
<1>8. CASE SendFails(s)
  <2>1. CASE EndSend(s)
    BY <1>1, <1>8, <2>1, SendFacts DEF SendFails
  <2>2. CASE sends[s].at \in {"record", "count"} /\ GoOn(s, "failed")
    <3> DEFINE x == [sends[s] EXCEPT !.at = "failed"]
    <3>1. /\ x \in SendType /\ x.at = "failed" /\ x.to = sends[s].to
          /\ x.mail = sends[s].mail /\ x.test = sends[s].test
      BY GoOnType DEF SendPlaces
    <3>2. sends' = [sends EXCEPT ![s] = x]
      BY <2>2 DEF GoOn
    <3> HIDE DEF x
    <3>3. /\ sends[s].to \in Recipients /\ sends[s].mail \in Mails /\ Present(sends[s].mail)
          /\ mails[sends[s].mail].test = sends[s].test
      BY <2>2 DEF MailsInv, MailsOK, HasMail
    <3>4. /\ emailsSent' \in Nat /\ emailFaults' \in 0 .. MaxEmailFaults
          /\ UNCHANGED <<mails, suppressed, accepted, notices, receiving>>
      BY <1>8, SendFacts DEF SendFails
    <3>5. QED
      BY <3>1, <3>2, <3>3, <3>4, SendOnly
  <2>3. QED
    BY <1>8, <2>1, <2>2 DEF SendFails
<1>9. QED
  BY <1>3, <1>4, <1>5, <1>6, <1>7, <1>8

\* What a step may write into a delivery: never an address, the kind of send
\* or the id's absence, once the row is there.
LEMMA MailWritten ==
    ASSUME MailsInv, NEW m \in Mails, NEW y \in MailType, mails' = [mails EXCEPT ![m] = y],
           y.status # "absent", y.to \in Recipients, y.status \notin Suppressing,
           Present(m) => y.to = mails[m].to /\ y.test = mails[m].test,
           sends' \in [Senders -> SendType],
           \A s \in Senders : sends'[s].at # "idle" => sends'[s].to \in Recipients,
           \A s \in Senders : sends'[s].at \in {"submit", "record", "count", "failed"} =>
              /\ sends'[s].mail \in Mails
              /\ sends'[s].mail = m => y.test = sends'[s].test
              /\ sends'[s].mail # m =>
                    Present(sends'[s].mail) /\ mails[sends'[s].mail].test = sends'[s].test,
           EmailOK, UNCHANGED <<suppressed, emailsSent, accepted, notices, receiving>>
    PROVE  MailsInv'
<1>1. /\ mails' \in [Mails -> MailType] /\ mails'[m] = y
      /\ \A k \in Mails : k # m => mails'[k] = mails[k]
  BY SendFacts DEF MailsInv, EmailTypeOK, MailType, Statuses
<1>2. EmailTypeOK'
  BY <1>1 DEF MailsInv, EmailTypeOK, SendType, SendPlaces, MailType, Statuses, EmailOK
<1>3. MailsOK'
  <2> USE <1>1 DEF MailsInv, MailsOK, HasMail, Present
  <2>1. \A k \in Mails : Present(k) => Present(k)'
    OBVIOUS
  <2>2. accepted \subseteq Mails /\ \A n \in notices : n.mail \in Mails
    BY DEF EmailTypeOK
  <2>3. (\A n \in notices : Present(n.mail))' /\ (\A k \in accepted : Present(k))'
    BY <2>1, <2>2
  <2>4. (\A s \in Senders : HasMail(s) =>
          /\ sends[s].mail \in Mails /\ Present(sends[s].mail)
          /\ mails[sends[s].mail].test = sends[s].test)'
    OBVIOUS
  <2>5. (\A k \in Mails : Present(k) => mails[k].to \in Recipients)'
        /\ (\A k \in Mails : mails[k].status \in Suppressing => mails[k].known)'
    BY DEF Suppressing
  <2>6. QED
    BY <2>3, <2>4, <2>5
<1>4. BounceSuppresses'
  BY <1>1 DEF MailsInv, BounceSuppresses
<1>5. QED
  BY <1>2, <1>3, <1>4 DEF MailsInv

\* The steps that write a delivery.
LEMMA WriteSteps ==
    ASSUME MailsInv, NEW s \in Senders
    PROVE  /\ insertEmailDelivery(s) => MailsInv'
           /\ recordSent(s) => MailsInv'
           /\ recordFailed(s) => MailsInv'
<1>0. /\ MailsOK /\ sends \in [Senders -> SendType] /\ mails \in [Mails -> MailType]
      /\ NoSend \in SendType /\ NoSend.at = "idle"
  BY SendFacts DEF MailsInv, EmailTypeOK, SendType, SendPlaces
<1>1. ASSUME insertEmailDelivery(s) PROVE MailsInv'
  <2> DEFINE to == sends[s].to
             test == sends[s].test
             y == [to |-> to, test |-> test, status |-> "queued", known |-> FALSE]
  <2>1. PICK m \in Mails : /\ mails[m].status = "absent" /\ mails' = [mails EXCEPT ![m] = y]
                           /\ sends' = [sends EXCEPT ![s].at = "submit", ![s].mail = m]
    BY <1>1 DEF insertEmailDelivery
  <2>2. to \in Recipients /\ test \in BOOLEAN
    BY <1>0, <1>1 DEF insertEmailDelivery, MailsOK, SendType
  <2> DEFINE w == sends[s]
             x == [w EXCEPT !.at = "submit", !.mail = m]
  <2>3. sends' = [sends EXCEPT ![s] = x] /\ w \in SendType /\ w.to = to /\ w.test = test
    BY <1>0, <2>1
  <2> HIDE DEF w, to, test
  <2>4. /\ x \in SendType /\ x.at = "submit" /\ x.mail = m /\ x.to = to /\ x.test = test
    BY <2>3 DEF SendType, SendPlaces
  <2>5. /\ y \in MailType /\ y.status = "queued" /\ y.to = to /\ y.test = test
    BY <2>2 DEF MailType, Statuses
  <2>6. EmailOK /\ UNCHANGED <<suppressed, emailsSent, accepted, notices, receiving>>
    BY <1>1 DEF insertEmailDelivery
  <2>7. /\ sends' \in [Senders -> SendType] /\ sends'[s] = x
        /\ \A r \in Senders : r # s => sends'[r] = sends[r]
    BY <1>0, <2>3, <2>4
  <2> HIDE DEF x, y
  <2>8. ~Present(m)
    BY <2>1 DEF Present
  <2>9. /\ \A r \in Senders : sends'[r].at # "idle" => sends'[r].to \in Recipients
        /\ \A r \in Senders : sends'[r].at \in {"submit", "record", "count", "failed"} =>
              /\ sends'[r].mail \in Mails
              /\ sends'[r].mail = m => y.test = sends'[r].test
              /\ sends'[r].mail # m =>
                    Present(sends'[r].mail) /\ mails[sends'[r].mail].test = sends'[r].test
    BY <1>0, <2>2, <2>4, <2>5, <2>7, <2>8 DEF MailsOK, HasMail
  <2>10. /\ y.status # "absent" /\ y.status \notin Suppressing /\ y.to \in Recipients
         /\ (Present(m) => y.to = mails[m].to /\ y.test = mails[m].test)
         /\ mails' = [mails EXCEPT ![m] = y]
    BY <2>1, <2>2, <2>5, <2>8 DEF Suppressing
  <2>11. QED
    BY <2>5, <2>6, <2>7, <2>9, <2>10, MailWritten, Zenon
\* A send that ends, or goes on to the count, with a new status of its mail.
<1>2. ASSUME NEW m \in Mails, NEW y \in MailType, NEW x \in SendType,
             HasMail(s), sends[s].mail = m,
             mails' = [mails EXCEPT ![m] = y],
             y.status \in {"sent", "failed"},
             y.to = mails[m].to, y.test = mails[m].test,
             sends' = [sends EXCEPT ![s] = x],
             x = NoSend \/ (x.to = sends[s].to /\ x.mail = m /\ x.test = sends[s].test),
             EmailOK, UNCHANGED <<suppressed, emailsSent, accepted, notices, receiving>>
      PROVE  MailsInv'
  <2>1. /\ sends' \in [Senders -> SendType] /\ sends'[s] = x
        /\ \A r \in Senders : r # s => sends'[r] = sends[r]
    BY <1>0, <1>2
  <2>2. /\ sends[s].to \in Recipients /\ Present(m)
        /\ mails[m].to \in Recipients
        /\ mails[m].test = sends[s].test
    BY <1>0, <1>2 DEF MailsOK, HasMail
  <2>3. /\ \A r \in Senders : sends'[r].at # "idle" => sends'[r].to \in Recipients
        /\ \A r \in Senders : sends'[r].at \in {"submit", "record", "count", "failed"} =>
              /\ sends'[r].mail \in Mails
              /\ sends'[r].mail = m => y.test = sends'[r].test
              /\ sends'[r].mail # m =>
                    Present(sends'[r].mail) /\ mails[sends'[r].mail].test = sends'[r].test
    BY <1>0, <1>2, <2>1, <2>2 DEF MailsOK, HasMail
  <2>4. /\ y.status # "absent" /\ y.status \notin Suppressing /\ y.to \in Recipients
        /\ (Present(m) => y.to = mails[m].to /\ y.test = mails[m].test)
        /\ mails' = [mails EXCEPT ![m] = y]
    BY <1>2, <2>2 DEF Suppressing
  <2>5. EmailOK /\ UNCHANGED <<suppressed, emailsSent, accepted, notices, receiving>>
    BY <1>2
  <2>6. QED
    BY <2>1, <2>3, <2>4, <2>5, MailWritten, Zenon
<1>3. ASSUME recordSent(s) PROVE MailsInv'
  <2> DEFINE m == sends[s].mail
             v == mails[m]
             known == v.known \/ sends[s].id
             y == [v EXCEPT !.status = "sent", !.known = known]
  <2>1. HasMail(s) /\ m \in Mails /\ v \in MailType /\ known \in BOOLEAN
    BY <1>0, <1>3 DEF recordSent, HasMail, MailsOK, MailType, SendType
  <2>2. mails' = [mails EXCEPT ![m] = y]
    BY <1>3 DEF recordSent
  <2> HIDE DEF v, known
  <2>3. y \in MailType /\ y.status = "sent" /\ y.to = v.to /\ y.test = v.test
    BY <2>1 DEF MailType, Statuses
  <2> HIDE DEF y
  <2>4. PICK x \in SendType :
          /\ sends' = [sends EXCEPT ![s] = x]
          /\ x = NoSend \/ (x.to = sends[s].to /\ x.mail = sends[s].mail /\ x.test = sends[s].test)
    <3>1. CASE EndSend(s)
      BY <1>0, <3>1 DEF EndSend
    <3>2. CASE GoOn(s, "count")
      <4>1. "count" \in SendPlaces
        BY DEF SendPlaces
      <4>2. QED
        BY <3>2, <4>1, GoOnType DEF GoOn
    <3>3. QED
      BY <1>3, <3>1, <3>2 DEF recordSent
  <2>5. EmailOK /\ UNCHANGED <<suppressed, emailsSent, accepted, notices, receiving>>
    BY <1>3 DEF recordSent
  <2>6. QED
    BY <1>2, <2>1, <2>2, <2>3, <2>4, <2>5 DEF v
<1>4. ASSUME recordFailed(s) PROVE MailsInv'
  <2> DEFINE m == sends[s].mail
             v == mails[m]
             y == [v EXCEPT !.status = "failed"]
  <2>1. HasMail(s) /\ m \in Mails /\ v \in MailType
    BY <1>0, <1>4 DEF recordFailed, HasMail, MailsOK
  <2>2. mails' = [mails EXCEPT ![m] = y] /\ sends' = [sends EXCEPT ![s] = NoSend]
    BY <1>4 DEF recordFailed, EndSend
  <2> HIDE DEF v
  <2>3. y \in MailType /\ y.status = "failed" /\ y.to = v.to /\ y.test = v.test
    BY <2>1 DEF MailType, Statuses
  <2> HIDE DEF y
  <2>4. EmailOK /\ UNCHANGED <<suppressed, emailsSent, accepted, notices, receiving>>
    BY <1>4 DEF recordFailed
  <2>5. QED
    BY <1>0, <1>2, <2>1, <2>2, <2>3, <2>4 DEF v
<1>5. QED
  BY <1>1, <1>3, <1>4

\* emails.send: a mail that is taken is the send's own, and so are its webhooks.
LEMMA SubmitStep ==
    ASSUME MailsInv, NEW s \in Senders, Submit(s)
    PROVE  MailsInv'
<1> DEFINE m == sends[s].mail
<1>0. /\ sends \in [Senders -> SendType] /\ EmailTypeOK /\ MailsOK
      /\ HasMail(s) /\ m \in Mails /\ Present(m) /\ mails[m].test = sends[s].test
      /\ sends[s].to \in Recipients
  BY DEF MailsInv, EmailTypeOK, SendType, SendPlaces, Submit, HasMail, MailsOK
<1>1. PICK x \in SendType : /\ sends' = [sends EXCEPT ![s] = x] /\ x.at \in {"record", "failed"}
                            /\ x.to = sends[s].to /\ x.mail = m /\ x.test = sends[s].test
  <2>1. CASE sends' = [sends EXCEPT ![s].at = "record", ![s].id = TRUE]
    <3> DEFINE w == sends[s]
               x == [w EXCEPT !.at = "record", !.id = TRUE]
    <3>1. w \in SendType /\ sends' = [sends EXCEPT ![s] = x]
      BY <1>0, <2>1
    <3> HIDE DEF w
    <3>2. /\ x \in SendType /\ x.at = "record"
          /\ x.to = w.to /\ x.mail = w.mail /\ x.test = w.test
      BY <3>1 DEF SendType, SendPlaces
    <3> HIDE DEF x
    <3>3. QED
      BY <3>1, <3>2 DEF w
  <2>2. ASSUME NEW place \in {"record", "failed"}, GoOn(s, place)
        PROVE  \E x \in SendType :
                  /\ sends' = [sends EXCEPT ![s] = x] /\ x.at \in {"record", "failed"}
                  /\ x.to = sends[s].to /\ x.mail = m /\ x.test = sends[s].test
    <3> DEFINE x == [sends[s] EXCEPT !.at = place]
    <3>1. place \in SendPlaces
      BY DEF SendPlaces
    <3>2. /\ x \in SendType /\ x.at = place /\ x.to = sends[s].to
          /\ x.mail = m /\ x.test = sends[s].test
      BY <3>1, GoOnType
    <3>3. sends' = [sends EXCEPT ![s] = x]
      BY <2>2 DEF GoOn
    <3> HIDE DEF x, m
    <3>4. QED
      BY <3>2, <3>3
  <2>3. QED
    BY <2>1, <2>2 DEF Submit
<1>2. /\ accepted' \in {accepted, accepted \cup {m}}
      /\ emailFaults' \in 0 .. MaxEmailFaults
      /\ UNCHANGED <<mails, suppressed, emailsSent, receiving>>
  BY SendFacts DEF Submit
<1>3. /\ notices \subseteq notices'
      /\ \A n \in notices' \ notices : n \in [mail : {m}, type : UNION Fates]
  <2>1. CASE accepted' = accepted
    BY <2>1 DEF Submit
  <2>2. CASE accepted' # accepted
    <3>1. PICK fate \in Fates : notices' = notices \cup [mail : {m}, type : fate]
      BY <2>2 DEF Submit
    <3>2. [mail : {m}, type : fate] \subseteq [mail : {m}, type : UNION Fates]
      OBVIOUS
    <3>3. QED
      BY <3>1, <3>2
  <2>3. QED
    BY <2>1, <2>2
<1> HIDE DEF m
<1>4. /\ sends' \in [Senders -> SendType] /\ sends'[s] = x
      /\ \A r \in Senders : r # s => sends'[r] = sends[r]
  BY <1>0, <1>1
<1>5. notices' \subseteq [mail : Mails, type : UNION Fates]
  <2>1. [mail : {m}, type : UNION Fates] \subseteq [mail : Mails, type : UNION Fates]
    BY <1>0
  <2>2. QED
    BY <1>0, <1>3, <2>1 DEF EmailTypeOK
<1>6. EmailTypeOK'
  <2>1. accepted' \subseteq Mails /\ receiving' \subseteq notices'
    BY <1>0, <1>2, <1>3 DEF EmailTypeOK
  <2>2. QED
    BY <1>0, <1>2, <1>4, <1>5, <2>1 DEF EmailTypeOK, SendType, SendPlaces
<1>7. MailsOK'
  <2>1. \A n \in notices' : Present(n.mail)
    BY <1>0, <1>3 DEF MailsOK
  <2>2. \A k \in accepted' : Present(k)
    BY <1>0, <1>2 DEF MailsOK
  <2>3. \A r \in Senders : sends'[r].at # "idle" => sends'[r].to \in Recipients
    BY <1>0, <1>1, <1>4 DEF MailsOK
  <2>4. \A r \in Senders : sends'[r].at \in {"submit", "record", "count", "failed"} =>
          /\ sends'[r].mail \in Mails /\ Present(sends'[r].mail)
          /\ mails[sends'[r].mail].test = sends'[r].test
    BY <1>0, <1>1, <1>4 DEF MailsOK, HasMail
  <2>5. QED
    BY <1>0, <1>2, <2>1, <2>2, <2>3, <2>4 DEF MailsOK, HasMail, Present
<1>8. BounceSuppresses'
  BY <1>2, <1>3 DEF MailsInv, BounceSuppresses
<1>9. QED
  BY <1>6, <1>7, <1>8 DEF MailsInv

\* The webhook: a bounce is written while its notice waits for the suppression.
LEMMA WebhookSteps ==
    ASSUME MailsInv
    PROVE  /\ \A n \in notices : updateEmailDeliveryByProviderId(n) => MailsInv'
           /\ \A n \in notices : insertEmailSuppression(n) => MailsInv'
           /\ \A n \in notices : SuppressionFails(n) => MailsInv'
           /\ \A m \in Mails : Unsubscribe(m) => MailsInv'
<1>0. /\ EmailTypeOK /\ MailsOK /\ BounceSuppresses /\ mails \in [Mails -> MailType]
      /\ \A n \in notices : n.mail \in Mails /\ n.type \in Statuses \ {"absent", "queued"}
  <2>1. UNION Fates \subseteq Statuses \ {"absent", "queued"}
    BY EmailAssumption DEF Statuses
  <2>2. QED
    BY <2>1 DEF MailsInv, EmailTypeOK, MailType, Statuses
<1>1. ASSUME NEW n \in notices, updateEmailDeliveryByProviderId(n) PROVE MailsInv'
  <2>1. /\ emailFaults' \in 0 .. MaxEmailFaults /\ n \notin receiving
        /\ UNCHANGED <<suppressed, emailsSent, sends, accepted>>
    BY <1>0, <1>1, EmailAssumption
    DEF updateEmailDeliveryByProviderId, EmailOK, EmailFault, EmailTypeOK
  <2>2. CASE ~mails[n.mail].known
    <3>1. mails' = mails /\ receiving' = receiving /\ notices' \in {notices, notices \ {n}}
      BY <1>1, <2>2 DEF updateEmailDeliveryByProviderId
    <3>2. EmailTypeOK' /\ MailsOK'
      BY <1>0, <2>1, <3>1 DEF EmailTypeOK, MailsOK, HasMail, Present
    <3>3. BounceSuppresses'
      BY <1>0, <2>1, <2>2, <3>1 DEF BounceSuppresses, MailsOK
    <3>4. QED
      BY <3>2, <3>3 DEF MailsInv
  <2>3. CASE mails[n.mail].known
    <3> DEFINE m == n.mail
               v == mails[m]
               y == [v EXCEPT !.status = n.type]
    <3>1. mails' = [mails EXCEPT ![m] = y] /\ m \in Mails /\ v \in MailType /\ Present(m)
          /\ v.known
      BY <1>0, <1>1, <2>3 DEF updateEmailDeliveryByProviderId, MailsOK
    <3> HIDE DEF v
    <3>2. /\ y \in MailType /\ y.status = n.type /\ y.to = v.to /\ y.test = v.test /\ y.known
      BY <1>0, <3>1 DEF MailType
    <3> HIDE DEF y
    <3>3. /\ mails' \in [Mails -> MailType] /\ mails'[m] = y
          /\ \A k \in Mails : k # m => mails'[k] = mails[k]
      BY <1>0, <3>1, <3>2
    <3>4. \/ n.type \in Suppressing /\ receiving' = receiving \cup {n} /\ notices' = notices
          \/ /\ n.type \notin Suppressing /\ receiving' = receiving
             /\ notices' \in {notices, notices \ {n}}
      BY <1>1, <2>3 DEF updateEmailDeliveryByProviderId
    <3>5. EmailTypeOK'
      <4>1. notices' \subseteq [mail : Mails, type : UNION Fates] /\ receiving' \subseteq notices'
        BY <1>0, <2>1, <3>4 DEF EmailTypeOK
      <4>2. QED
        BY <1>0, <2>1, <3>3, <4>1 DEF EmailTypeOK, MailType, Statuses
    <3>6. MailsOK'
      <4>1. \A k \in Mails : /\ Present(k)' <=> Present(k)
                             /\ mails'[k].to = mails[k].to /\ mails'[k].test = mails[k].test
        BY <1>0, <3>1, <3>2, <3>3 DEF Present, v
      <4>2. \A k \in Mails : mails'[k].status \in Suppressing => mails'[k].known
        BY <1>0, <3>2, <3>3 DEF MailsOK
      <4>3. /\ \A k \in notices' : k \in notices
            /\ \A k \in receiving' : k.type \in Suppressing
        BY <1>0, <3>4 DEF MailsOK
      <4>4. (\A k \in notices : Present(k.mail))' /\ (\A k \in accepted : Present(k))'
        BY <1>0, <2>1, <4>1, <4>3 DEF MailsOK, EmailTypeOK
      <4>5. (\A s \in Senders : HasMail(s) =>
              /\ sends[s].mail \in Mails /\ Present(sends[s].mail)
              /\ mails[sends[s].mail].test = sends[s].test)'
        BY <1>0, <2>1, <4>1 DEF MailsOK, HasMail
      <4>6. (\A k \in Mails : Present(k) => mails[k].to \in Recipients)'
        BY <1>0, <4>1 DEF MailsOK
      <4>7. (\A s \in Senders : sends[s].at # "idle" => sends[s].to \in Recipients)'
        BY <1>0, <2>1 DEF MailsOK
      <4>8. QED
        BY <4>2, <4>3, <4>4, <4>5, <4>6, <4>7 DEF MailsOK
    <3>7. BounceSuppresses'
      <4> SUFFICES ASSUME NEW k \in Mails, mails'[k].status \in Suppressing
                   PROVE  \/ mails'[k].to \in suppressed'
                          \/ \E i \in notices' : i.mail = k /\ i.type \in Suppressing
        BY DEF BounceSuppresses
      <4>1. CASE k = m
        <5>1. n.type \in Suppressing
          BY <3>2, <3>3, <4>1
        <5>2. QED
          BY <3>4, <4>1, <5>1
      <4>2. CASE k # m
        BY <1>0, <2>1, <3>3, <3>4, <4>2 DEF BounceSuppresses
      <4>3. QED
        BY <4>1, <4>2
    <3>8. QED
      BY <3>5, <3>6, <3>7 DEF MailsInv
  <2>4. QED
    BY <2>2, <2>3
<1>2. ASSUME NEW n \in notices, insertEmailSuppression(n) PROVE MailsInv'
  <2>1. /\ suppressed' = suppressed \cup {mails[n.mail].to} /\ mails[n.mail].to \in Recipients
        /\ receiving' = receiving \ {n} /\ notices' = notices \ {n} /\ EmailOK
        /\ UNCHANGED <<mails, emailsSent, sends, accepted>>
    BY <1>0, <1>2 DEF insertEmailSuppression, MailsOK
  <2>2. EmailTypeOK' /\ MailsOK'
    BY <1>0, <2>1 DEF EmailTypeOK, MailsOK, HasMail, Present, EmailOK
  <2>3. BounceSuppresses'
    BY <1>0, <2>1 DEF BounceSuppresses
  <2>4. QED
    BY <2>2, <2>3 DEF MailsInv
<1>3. ASSUME NEW n \in notices, SuppressionFails(n) PROVE MailsInv'
  <2>1. receiving' = receiving \ {n} /\ emailFaults' \in 0 .. MaxEmailFaults
        /\ UNCHANGED <<mails, suppressed, emailsSent, sends, accepted, notices>>
    BY <1>0, <1>3, EmailAssumption DEF SuppressionFails, EmailFault, EmailTypeOK
  <2>2. QED
    BY <1>0, <2>1 DEF MailsInv, EmailTypeOK, MailsOK, BounceSuppresses, HasMail, Present
<1>4. ASSUME NEW m \in Mails, Unsubscribe(m) PROVE MailsInv'
  <2>1. suppressed' = suppressed \cup {mails[m].to} /\ mails[m].to \in Recipients /\ EmailOK
        /\ UNCHANGED <<mails, emailsSent, sends, accepted, notices, receiving>>
    BY <1>0, <1>4 DEF Unsubscribe, MailsOK
  <2>2. QED
    BY <1>0, <2>1
    DEF MailsInv, EmailTypeOK, MailsOK, BounceSuppresses, HasMail, Present, EmailOK
<1>5. QED
  BY <1>1, <1>2, <1>3, <1>4

(* A send past the quota is counted among Passed until it ends; a mail that *)
(* was taken is one whose send is still to count it, a counted one, or one  *)
(* that a fault left uncounted.                                            *)
PastQuota(x) == ~x.test /\ x.at \in {"insert", "submit", "record", "count", "failed"}
ToCount(x)   == ~x.test /\ x.at \in {"record", "count"}
Passed    == {s \in Senders : PastQuota(sends[s])}
Uncounted == {s \in Senders : ToCount(sends[s])}
Taken     == {m \in accepted : ~mails[m].test}

CountsOK ==
    /\ IsFiniteSet(accepted)
    /\ \A s \in Senders : sends[s].at = "count" => ~sends[s].test
    /\ emailsSent + Cardinality(Passed) <= EmailLimit + Cardinality(Senders) - 1
    /\ Cardinality(Taken) <= emailsSent + Cardinality(Uncounted) + emailFaults

EmailInv == MailsInv /\ CountsOK

LEMMA CountedSets ==
    /\ Cardinality(Senders) \in Nat /\ Cardinality(Senders) >= 1
    /\ IsFiniteSet(Passed) /\ Cardinality(Passed) \in Nat
    /\ Cardinality(Passed) <= Cardinality(Senders)
    /\ IsFiniteSet(Uncounted) /\ Cardinality(Uncounted) \in Nat
    /\ Cardinality(Uncounted) <= Cardinality(Passed)
<1>1. IsFiniteSet(Senders) /\ Senders # {}
  BY EmailAssumption
<1>2. Passed \subseteq Senders /\ Uncounted \subseteq Passed
  BY DEF Passed, Uncounted, PastQuota, ToCount
<1>3. Cardinality(Senders) \in Nat /\ Cardinality(Senders) # 0
  BY <1>1, FS_EmptySet, FS_CardinalityType
<1>4. IsFiniteSet(Passed) /\ Cardinality(Passed) <= Cardinality(Senders)
  BY <1>1, <1>2, FS_Subset
<1>5. IsFiniteSet(Uncounted) /\ Cardinality(Uncounted) <= Cardinality(Passed)
  BY <1>2, <1>4, FS_Subset
<1>6. QED
  BY <1>3, <1>4, <1>5, FS_CardinalityType

LEMMA TakenFinite ==
    ASSUME IsFiniteSet(accepted)
    PROVE  IsFiniteSet(Taken) /\ Cardinality(Taken) \in Nat
BY FS_Subset, FS_CardinalityType DEF Taken

\* One send goes on as x: the two sets lose it or gain it.
LEMMA SendCounted ==
    ASSUME MailsInv, NEW s \in Senders, NEW x, sends' = [sends EXCEPT ![s] = x]
    PROVE  /\ Cardinality(Passed') \in Nat /\ Cardinality(Uncounted') \in Nat
           /\ Passed' \subseteq Senders
           /\ Cardinality(Passed') = Cardinality(Passed)
                - (IF PastQuota(sends[s]) THEN 1 ELSE 0) + (IF PastQuota(x) THEN 1 ELSE 0)
           /\ Cardinality(Uncounted') = Cardinality(Uncounted)
                - (IF ToCount(sends[s]) THEN 1 ELSE 0) + (IF ToCount(x) THEN 1 ELSE 0)
<1>1. /\ sends'[s] = x /\ \A r \in Senders : r # s => sends'[r] = sends[r]
  BY DEF MailsInv, EmailTypeOK
<1>2. /\ Passed' = IF PastQuota(x) THEN Passed \cup {s} ELSE Passed \ {s}
      /\ Uncounted' = IF ToCount(x) THEN Uncounted \cup {s} ELSE Uncounted \ {s}
  BY <1>1 DEF Passed, Uncounted
<1>3. /\ s \in Passed <=> PastQuota(sends[s])
      /\ s \in Uncounted <=> ToCount(sends[s])
  BY DEF Passed, Uncounted
<1>4. /\ Cardinality(Passed \cup {s}) =
            IF s \in Passed THEN Cardinality(Passed) ELSE Cardinality(Passed) + 1
      /\ Cardinality(Passed \ {s}) =
            IF s \in Passed THEN Cardinality(Passed) - 1 ELSE Cardinality(Passed)
      /\ IsFiniteSet(Passed \cup {s}) /\ IsFiniteSet(Passed \ {s})
  BY CountedSets, FS_AddElement, FS_RemoveElement
<1>5. /\ Cardinality(Uncounted \cup {s}) =
            IF s \in Uncounted THEN Cardinality(Uncounted) ELSE Cardinality(Uncounted) + 1
      /\ Cardinality(Uncounted \ {s}) =
            IF s \in Uncounted THEN Cardinality(Uncounted) - 1 ELSE Cardinality(Uncounted)
      /\ IsFiniteSet(Uncounted \cup {s}) /\ IsFiniteSet(Uncounted \ {s})
  BY CountedSets, FS_AddElement, FS_RemoveElement
<1>6. Cardinality(Passed') \in Nat /\ Cardinality(Uncounted') \in Nat
  BY <1>2, <1>4, <1>5, FS_CardinalityType
<1>7. Passed' \subseteq Senders
  BY <1>2 DEF Passed
<1>8. Cardinality(Passed') = Cardinality(Passed)
        - (IF PastQuota(sends[s]) THEN 1 ELSE 0) + (IF PastQuota(x) THEN 1 ELSE 0)
  BY <1>2, <1>3, <1>4, CountedSets
<1>9. Cardinality(Uncounted') = Cardinality(Uncounted)
        - (IF ToCount(sends[s]) THEN 1 ELSE 0) + (IF ToCount(x) THEN 1 ELSE 0)
  BY <1>2, <1>3, <1>5, CountedSets
<1>10. QED
  BY <1>6, <1>7, <1>8, <1>9

\* A step that counts no mail and lets no send pass the quota.
LEMMA NothingCounted ==
    ASSUME EmailInv, Taken' = Taken, accepted' = accepted,
           emailsSent' = emailsSent, emailFaults' \in Nat, emailFaults' >= emailFaults,
           Cardinality(Passed') \in Nat, Cardinality(Passed') <= Cardinality(Passed),
           Cardinality(Uncounted') \in Nat,
           Cardinality(Uncounted') + (emailFaults' - emailFaults) >= Cardinality(Uncounted),
           \A s \in Senders : sends'[s].at = "count" => ~sends'[s].test
    PROVE  CountsOK'
<1>1. /\ emailsSent \in Nat /\ emailFaults \in Nat
      /\ Cardinality(Taken) \in Nat /\ Cardinality(Taken') = Cardinality(Taken)
  BY TakenFinite DEF EmailInv, MailsInv, EmailTypeOK, CountsOK
<1>2. /\ emailsSent' + Cardinality(Passed') <= EmailLimit + Cardinality(Senders) - 1
      /\ Cardinality(Taken') <= emailsSent' + Cardinality(Uncounted') + emailFaults'
  BY <1>1, CountedSets, EmailAssumption DEF EmailInv, CountsOK
<1>3. QED
  BY <1>2 DEF EmailInv, CountsOK

\* A send that does not pass the quota, and drops its mail only with a fault.
LEMMA SendGoesOn ==
    ASSUME EmailInv, NEW s \in Senders, NEW x, sends' = [sends EXCEPT ![s] = x],
           PastQuota(x) => PastQuota(sends[s]),
           ToCount(sends[s]) => ToCount(x) \/ EmailFault,
           x.at = "count" => ~x.test,
           EmailOK \/ EmailFault, accepted' = accepted, emailsSent' = emailsSent,
           \A m \in accepted : mails'[m].test = mails[m].test
    PROVE  CountsOK'
<1>1. /\ emailFaults \in Nat /\ emailFaults' \in Nat /\ emailFaults' >= emailFaults
      /\ EmailFault => emailFaults' = emailFaults + 1
  BY DEF EmailInv, MailsInv, EmailTypeOK, EmailOK, EmailFault
<1>2. Taken' = Taken
  BY DEF Taken
<1>3. \A r \in Senders : sends'[r].at = "count" => ~sends'[r].test
  BY DEF EmailInv, MailsInv, EmailTypeOK, CountsOK
<1>4. /\ Cardinality(Passed') \in Nat /\ Cardinality(Uncounted') \in Nat
      /\ Cardinality(Passed') = Cardinality(Passed)
           - (IF PastQuota(sends[s]) THEN 1 ELSE 0) + (IF PastQuota(x) THEN 1 ELSE 0)
      /\ Cardinality(Uncounted') = Cardinality(Uncounted)
           - (IF ToCount(sends[s]) THEN 1 ELSE 0) + (IF ToCount(x) THEN 1 ELSE 0)
  BY SendCounted DEF EmailInv
<1>5. Cardinality(Passed') <= Cardinality(Passed)
  BY <1>4, CountedSets
<1>6. Cardinality(Uncounted') + (emailFaults' - emailFaults) >= Cardinality(Uncounted)
  BY <1>1, <1>4, CountedSets
<1>7. QED
  BY <1>1, <1>2, <1>3, <1>4, <1>5, <1>6, NothingCounted

LEMMA QuotaSteps ==
    ASSUME EmailInv, NEW s \in Senders
    PROVE  /\ \A to \in Recipients, test \in BOOLEAN : BeginSend(s, to, test) => CountsOK'
           /\ isEmailSuppressed(s) => CountsOK'
           /\ checkUsageQuota(s) => CountsOK'
           /\ missingConfig(s) => CountsOK'
           /\ recordFailed(s) => CountsOK'
           /\ SendFails(s) => CountsOK'
<1> DEFINE w == sends[s]
<1>0. /\ w \in SendType /\ sends \in [Senders -> SendType] /\ mails \in [Mails -> MailType]
      /\ accepted \subseteq Mails /\ ~PastQuota(NoSend) /\ NoSend.at = "idle"
  BY SendFacts DEF EmailInv, MailsInv, EmailTypeOK, SendType, SendPlaces, PastQuota, NoSend
<1>1. ASSUME EndSend(s), EmailOK \/ EmailFault, ToCount(w) => EmailFault,
             accepted' = accepted, emailsSent' = emailsSent,
             \A m \in accepted : mails'[m].test = mails[m].test
      PROVE  CountsOK'
  BY <1>0, <1>1, SendGoesOn DEF EndSend
<1>2. ASSUME NEW to \in Recipients, NEW test \in BOOLEAN, BeginSend(s, to, test)
      PROVE  CountsOK'
  <2> DEFINE x == [at |-> IF test THEN "insert" ELSE "suppression", to |-> to, test |-> test,
                   mail |-> 0, id |-> FALSE]
  <2>1. ~PastQuota(x) /\ x.at # "count" /\ ~ToCount(w)
    BY <1>2 DEF PastQuota, ToCount, BeginSend
  <2>2. /\ sends' = [sends EXCEPT ![s] = x] /\ EmailOK
        /\ UNCHANGED <<mails, emailsSent, accepted>>
    BY <1>2 DEF BeginSend
  <2> HIDE DEF x
  <2>3. QED
    BY <2>1, <2>2, SendGoesOn
<1>3. CASE isEmailSuppressed(s)
  <2>1. ~PastQuota(w) /\ ~ToCount(w) /\ EmailOK /\ UNCHANGED <<mails, emailsSent, accepted>>
    BY <1>3 DEF isEmailSuppressed, PastQuota, ToCount
  <2>2. CASE EndSend(s)
    BY <1>1, <2>1, <2>2
  <2>3. CASE GoOn(s, "quota")
    <3> DEFINE x == [w EXCEPT !.at = "quota"]
    <3>1. sends' = [sends EXCEPT ![s] = x] /\ x.at = "quota"
      BY <1>0, <2>3 DEF GoOn, SendType
    <3> HIDE DEF x, w
    <3>2. ~PastQuota(x) /\ x.at # "count"
      BY <3>1 DEF PastQuota
    <3>3. QED
      BY <2>1, <3>1, <3>2, SendGoesOn DEF w
  <2>4. QED
    BY <1>3, <2>2, <2>3 DEF isEmailSuppressed
\* The gate: below the limit before, and at most every sender is past it then.
<1>4. CASE checkUsageQuota(s)
  <2>0. /\ w.at = "quota" /\ ~PastQuota(w) /\ ~ToCount(w) /\ EmailOK
        /\ UNCHANGED <<mails, emailsSent, accepted>>
    BY <1>4 DEF checkUsageQuota, PastQuota, ToCount
  <2>1. CASE EndSend(s)
    BY <1>1, <2>0, <2>1
  <2>2. CASE emailsSent < EmailLimit /\ GoOn(s, "insert")
    <3> DEFINE x == [w EXCEPT !.at = "insert"]
    <3>1. sends' = [sends EXCEPT ![s] = x] /\ x.at = "insert"
      BY <1>0, <2>2 DEF GoOn, SendType
    <3> HIDE DEF x
    <3>2. ~ToCount(x) /\ x.at # "count"
      BY <3>1 DEF ToCount
    <3>3. /\ Cardinality(Passed') \in Nat /\ Passed' \subseteq Senders
          /\ Cardinality(Uncounted') = Cardinality(Uncounted)
      <4>1. Cardinality(Uncounted') = Cardinality(Uncounted)
              - (IF ToCount(w) THEN 1 ELSE 0) + (IF ToCount(x) THEN 1 ELSE 0)
        BY <3>1, SendCounted DEF EmailInv
      <4>2. Cardinality(Passed') \in Nat /\ Passed' \subseteq Senders
        BY <3>1, SendCounted DEF EmailInv
      <4>3. QED
        BY <2>0, <3>2, <4>1, <4>2, CountedSets
    <3>4. Cardinality(Passed') <= Cardinality(Senders)
      BY <3>3, EmailAssumption, FS_Subset
    <3>5. Taken' = Taken
      BY <2>0 DEF Taken
    <3>6. \A r \in Senders : sends'[r].at = "count" => ~sends'[r].test
      BY <1>0, <3>1, <3>2 DEF EmailInv, CountsOK
    <3>7. emailsSent \in Nat /\ emailsSent' = emailsSent /\ emailFaults' = emailFaults
      BY <2>0 DEF EmailInv, MailsInv, EmailTypeOK, EmailOK
    <3>8. emailsSent' + Cardinality(Passed') <= EmailLimit + Cardinality(Senders) - 1
      BY <2>2, <3>3, <3>4, <3>7, CountedSets, EmailAssumption
    <3>9. Cardinality(Taken') <= emailsSent' + Cardinality(Uncounted') + emailFaults'
      BY <3>3, <3>5, <3>7 DEF EmailInv, CountsOK
    <3>10. QED
      BY <2>0, <3>6, <3>8, <3>9 DEF EmailInv, CountsOK
  <2>3. QED
    BY <1>4, <2>1, <2>2 DEF checkUsageQuota
<1>5. CASE missingConfig(s)
  BY <1>1, <1>5 DEF missingConfig, ToCount
<1>6. CASE recordFailed(s)
  <2>1. w.mail \in Mails
    BY <1>6 DEF recordFailed, EmailInv, MailsInv, MailsOK, HasMail
  <2>2. \A m \in accepted : mails'[m].test = mails[m].test
    BY <1>0, <1>6, <2>1 DEF recordFailed, MailType
  <2>3. QED
    BY <1>1, <1>6, <2>2 DEF recordFailed, ToCount
<1>7. CASE SendFails(s)
  <2>0. EmailFault /\ UNCHANGED <<mails, emailsSent, accepted>>
    BY <1>7 DEF SendFails
  <2>1. CASE EndSend(s)
    BY <1>1, <2>0, <2>1
  <2>2. CASE w.at \in {"record", "count"} /\ GoOn(s, "failed")
    <3> DEFINE x == [w EXCEPT !.at = "failed"]
    <3>1. sends' = [sends EXCEPT ![s] = x] /\ x.at = "failed" /\ x.test = w.test
      BY <1>0, <2>2 DEF GoOn, SendType
    <3> HIDE DEF x
    <3>2. PastQuota(x) => PastQuota(w)
      BY <2>2, <3>1 DEF PastQuota
    <3>3. QED
      BY <2>0, <3>1, <3>2, SendGoesOn
  <2>3. QED
    BY <1>7, <2>0, <2>1, <2>2 DEF SendFails
<1>8. QED
  BY <1>2, <1>3, <1>4, <1>5, <1>6, <1>7

\* The steps between the row and the count of a mail.
LEMMA CountSteps ==
    ASSUME EmailInv, NEW s \in Senders
    PROVE  /\ insertEmailDelivery(s) => CountsOK'
           /\ recordSent(s) => CountsOK'
           /\ incrementUsage(s) => CountsOK'
<1> DEFINE w == sends[s]
<1>0. /\ w \in SendType /\ sends \in [Senders -> SendType] /\ mails \in [Mails -> MailType]
      /\ accepted \subseteq Mails /\ NoSend.at = "idle"
      /\ ~PastQuota(NoSend) /\ ~ToCount(NoSend) /\ MailsOK
  BY SendFacts
  DEF EmailInv, MailsInv, EmailTypeOK, SendType, SendPlaces, PastQuota, ToCount, NoSend
<1>1. CASE insertEmailDelivery(s)
  <2>1. PICK m \in Mails :
          /\ mails[m].status = "absent"
          /\ mails' = [mails EXCEPT ![m] =
                [to |-> w.to, test |-> w.test, status |-> "queued", known |-> FALSE]]
          /\ sends' = [sends EXCEPT ![s].at = "submit", ![s].mail = m]
    BY <1>1 DEF insertEmailDelivery
  <2> DEFINE x == [w EXCEPT !.at = "submit", !.mail = m]
  <2>2. sends' = [sends EXCEPT ![s] = x] /\ x.at = "submit" /\ x.test = w.test
    BY <1>0, <2>1 DEF SendType
  <2> HIDE DEF x
  <2>3. /\ PastQuota(x) => PastQuota(w)
        /\ ~ToCount(w) /\ x.at # "count"
    BY <1>1, <2>2 DEF insertEmailDelivery, PastQuota, ToCount
  <2>4. m \notin accepted
    BY <1>0, <2>1 DEF MailsOK, Present
  <2>5. \A k \in accepted : mails'[k].test = mails[k].test
    BY <1>0, <2>1, <2>4
  <2>6. EmailOK /\ emailsSent' = emailsSent /\ accepted' = accepted
    BY <1>1 DEF insertEmailDelivery
  <2>7. QED
    BY <2>2, <2>3, <2>5, <2>6, SendGoesOn
<1>2. CASE recordSent(s)
  <2>1. w.mail \in Mails /\ w.at = "record"
    BY <1>0, <1>2 DEF recordSent, MailsOK, HasMail
  <2>2. \A m \in accepted : mails'[m].test = mails[m].test
    BY <1>0, <1>2, <2>1 DEF recordSent, MailType
  <2>3. EmailOK /\ emailsSent' = emailsSent /\ accepted' = accepted
    BY <1>2 DEF recordSent
  <2>4. CASE w.test /\ EndSend(s)
    BY <1>0, <2>2, <2>3, <2>4, SendGoesOn DEF EndSend, ToCount
  <2>5. CASE ~w.test /\ GoOn(s, "count")
    <3> DEFINE x == [w EXCEPT !.at = "count"]
    <3>1. sends' = [sends EXCEPT ![s] = x] /\ x.at = "count" /\ x.test = w.test
      BY <1>0, <2>5 DEF GoOn, SendType
    <3> HIDE DEF x
    <3>2. PastQuota(w) /\ ToCount(x) /\ ~x.test
      BY <2>1, <2>5, <3>1 DEF PastQuota, ToCount
    <3>3. QED
      BY <2>2, <2>3, <3>1, <3>2, SendGoesOn
  <2>6. QED
    BY <1>2, <2>4, <2>5 DEF recordSent
\* The mail is counted and its send is not any more.
<1>3. CASE incrementUsage(s)
  <2>1. /\ sends' = [sends EXCEPT ![s] = NoSend] /\ emailsSent' = emailsSent + 1
        /\ emailFaults' = emailFaults /\ UNCHANGED <<mails, accepted>>
    BY <1>3 DEF incrementUsage, EndSend, EmailOK
  <2>2. PastQuota(w) /\ ToCount(w)
    BY <1>3 DEF incrementUsage, EmailInv, CountsOK, PastQuota, ToCount
  <2>3. /\ Cardinality(Passed') = Cardinality(Passed)
             - (IF PastQuota(w) THEN 1 ELSE 0) + (IF PastQuota(NoSend) THEN 1 ELSE 0)
        /\ Cardinality(Uncounted') = Cardinality(Uncounted)
             - (IF ToCount(w) THEN 1 ELSE 0) + (IF ToCount(NoSend) THEN 1 ELSE 0)
    BY <2>1, SendCounted DEF EmailInv
  <2>4. /\ Cardinality(Passed') = Cardinality(Passed) - 1
        /\ Cardinality(Uncounted') = Cardinality(Uncounted) - 1
    BY <1>0, <2>2, <2>3, CountedSets
  <2>5. Taken' = Taken
    BY <2>1 DEF Taken
  <2>6. \A r \in Senders : sends'[r].at = "count" => ~sends'[r].test
    BY <1>0, <2>1 DEF EmailInv, CountsOK
  <2>7. emailsSent \in Nat /\ emailFaults \in Nat /\ Cardinality(Taken) \in Nat
    BY TakenFinite DEF EmailInv, MailsInv, EmailTypeOK, CountsOK
  <2>8. /\ emailsSent' + Cardinality(Passed') <= EmailLimit + Cardinality(Senders) - 1
        /\ Cardinality(Taken') <= emailsSent' + Cardinality(Uncounted') + emailFaults'
    BY <2>1, <2>4, <2>5, <2>7, CountedSets, EmailAssumption DEF EmailInv, CountsOK
  <2>9. QED
    BY <2>1, <2>6, <2>8 DEF EmailInv, CountsOK
<1>4. QED
  BY <1>1, <1>2, <1>3

\* A mail that is taken is one to count, or the fault explains it.
LEMMA SubmitCounted ==
    ASSUME EmailInv, NEW s \in Senders, Submit(s)
    PROVE  CountsOK'
<1> DEFINE w == sends[s]
<1>0. /\ w \in SendType /\ sends \in [Senders -> SendType] /\ accepted \subseteq Mails
      /\ w.at = "submit" /\ w.mail \in Mails /\ mails[w.mail].test = w.test
      /\ emailsSent \in Nat /\ emailFaults \in Nat /\ ~ToCount(w)
      /\ IsFiniteSet(accepted)
  BY SendFacts
  DEF Submit, EmailInv, MailsInv, EmailTypeOK, MailsOK, HasMail, ToCount, CountsOK, SendType,
      SendPlaces
<1>1. emailsSent' = emailsSent /\ mails' = mails
  BY DEF Submit
<1>2. accepted' \in {accepted, accepted \cup {w.mail}} /\ IsFiniteSet(accepted')
  <2>1. accepted' \in {accepted, accepted \cup {w.mail}}
    BY DEF Submit
  <2>2. QED
    BY <1>0, <2>1, FS_AddElement
\* Only a mail that is no test is counted, and only once.
<1>3. /\ Cardinality(Taken') \in Nat
      /\ Cardinality(Taken') <= Cardinality(Taken) + 1
      /\ accepted' = accepted \/ w.test => Cardinality(Taken') = Cardinality(Taken)
  <2>1. IsFiniteSet(Taken) /\ Cardinality(Taken) \in Nat
    BY <1>0, TakenFinite
  <2>2. CASE accepted' = accepted \/ w.test
    <3>1. Taken' = Taken
      BY <1>0, <1>1, <1>2, <2>2 DEF Taken
    <3>2. QED
      BY <2>1, <3>1
  <2>3. CASE ~(accepted' = accepted \/ w.test)
    <3>1. Taken' = Taken \cup {w.mail}
      BY <1>0, <1>1, <1>2, <2>3 DEF Taken
    <3>2. /\ IsFiniteSet(Taken \cup {w.mail})
          /\ Cardinality(Taken \cup {w.mail}) =
               IF w.mail \in Taken THEN Cardinality(Taken) ELSE Cardinality(Taken) + 1
      BY <2>1, FS_AddElement
    <3>3. QED
      BY <2>1, <2>3, <3>1, <3>2
  <2>4. QED
    BY <2>2, <2>3
<1>4. PICK x : /\ sends' = [sends EXCEPT ![s] = x] /\ x.test = w.test /\ x.at \in {"record", "failed"}
               /\ \/ x.at = "record" /\ emailFaults' = emailFaults
                  \/ emailFaults' = emailFaults + 1
  <2>1. CASE sends' = [sends EXCEPT ![s].at = "record", ![s].id = TRUE] /\ EmailOK
    <3> DEFINE x == [w EXCEPT !.at = "record", !.id = TRUE]
    <3>1. sends' = [sends EXCEPT ![s] = x] /\ x.at = "record" /\ x.test = w.test
      BY <1>0, <2>1 DEF SendType
    <3>2. emailFaults' = emailFaults
      BY <2>1 DEF EmailOK
    <3> HIDE DEF x
    <3>3. QED
      BY <3>1, <3>2
  <2>2. ASSUME NEW place \in {"record", "failed"}, GoOn(s, place), EmailFault
        PROVE  \E x : /\ sends' = [sends EXCEPT ![s] = x] /\ x.test = w.test
                      /\ x.at \in {"record", "failed"} /\ emailFaults' = emailFaults + 1
    <3> DEFINE x == [w EXCEPT !.at = place]
    <3>1. sends' = [sends EXCEPT ![s] = x] /\ x.at = place /\ x.test = w.test
      BY <1>0, <2>2 DEF GoOn, SendType
    <3>2. emailFaults' = emailFaults + 1
      BY <2>2 DEF EmailFault
    <3> HIDE DEF x, w
    <3>3. QED
      BY <3>1, <3>2
  <2>3. QED
    BY <2>1, <2>2 DEF Submit
<1>5. /\ Cardinality(Passed') \in Nat /\ Cardinality(Uncounted') \in Nat
      /\ Cardinality(Passed') = Cardinality(Passed)
           - (IF PastQuota(w) THEN 1 ELSE 0) + (IF PastQuota(x) THEN 1 ELSE 0)
      /\ Cardinality(Uncounted') = Cardinality(Uncounted)
           - (IF ToCount(w) THEN 1 ELSE 0) + (IF ToCount(x) THEN 1 ELSE 0)
  BY <1>4, SendCounted DEF EmailInv
<1>6. PastQuota(w) <=> PastQuota(x)
  BY <1>0, <1>4 DEF PastQuota
<1>7. /\ Cardinality(Passed') = Cardinality(Passed)
      /\ Cardinality(Uncounted') = Cardinality(Uncounted) + (IF ToCount(x) THEN 1 ELSE 0)
  BY <1>0, <1>5, <1>6, CountedSets
<1>8. Cardinality(Taken') <= emailsSent' + Cardinality(Uncounted') + emailFaults'
  <2>1. Cardinality(Taken) <= emailsSent + Cardinality(Uncounted) + emailFaults
        /\ Cardinality(Taken) \in Nat
    BY <1>0, TakenFinite DEF EmailInv, CountsOK
  <2>2. CASE emailFaults' = emailFaults + 1
    BY <1>0, <1>1, <1>3, <1>7, <2>1, <2>2, CountedSets
  <2>3. CASE x.at = "record" /\ emailFaults' = emailFaults
    <3>1. w.test \/ ToCount(x)
      BY <1>0, <1>4, <2>3 DEF ToCount, SendType
    <3>2. QED
      BY <1>0, <1>1, <1>3, <1>7, <2>1, <2>3, <3>1, CountedSets
  <2>4. QED
    BY <1>4, <2>2, <2>3
<1>9. \A r \in Senders : sends'[r].at = "count" => ~sends'[r].test
  BY <1>0, <1>4 DEF EmailInv, CountsOK
<1>10. QED
  BY <1>1, <1>2, <1>7, <1>8, <1>9 DEF EmailInv, CountsOK

LEMMA EmailInvariant == EmailSpec => []EmailInv
<1>1. EmailInit => EmailInv
  <2> SUFFICES ASSUME EmailInit PROVE EmailInv
    OBVIOUS
  <2>1. MailsInv
    BY EmailAssumption
    DEF EmailInit, MailsInv, EmailTypeOK, MailsOK, BounceSuppresses, HasMail, Present, NoMail,
        NoSend, Suppressing
  <2>2. Passed = {} /\ Uncounted = {} /\ Taken = {}
    BY DEF EmailInit, Passed, Uncounted, Taken, PastQuota, ToCount, NoSend
  <2>3. Cardinality({}) = 0 /\ IsFiniteSet({})
    BY FS_EmptySet
  <2>4. CountsOK
    BY <2>2, <2>3, CountedSets, EmailAssumption DEF EmailInit, CountsOK, NoSend
  <2>5. QED
    BY <2>1, <2>4 DEF EmailInv
<1>2. EmailInv /\ [EmailNext]_emailVars => EmailInv'
  <2> SUFFICES ASSUME EmailInv, [EmailNext]_emailVars PROVE EmailInv'
    OBVIOUS
  <2>1. ASSUME NEW s \in Senders, SendStep(s) PROVE EmailInv'
    <3>1. MailsInv'
      BY <2>1, SendSteps, WriteSteps, SubmitStep DEF EmailInv, SendStep
    <3>2. CountsOK'
      BY <2>1, QuotaSteps, CountSteps, SubmitCounted DEF SendStep
    <3>3. QED
      BY <3>1, <3>2 DEF EmailInv
  \* Webhooks, unsubscriptions and stuttering leave sends, mails taken and counts.
  <2>2. ASSUME MailsInv', sends' = sends, emailsSent' = emailsSent, accepted' = accepted,
               emailFaults' >= emailFaults,
               \A m \in accepted : mails'[m].test = mails[m].test
        PROVE  EmailInv'
    <3>1. Passed' = Passed /\ Uncounted' = Uncounted /\ Taken' = Taken
      BY <2>2 DEF Passed, Uncounted, Taken
    <3>2. emailFaults \in Nat /\ emailFaults' \in Nat
      BY <2>2 DEF EmailInv, MailsInv, EmailTypeOK
    <3>3. Cardinality(Uncounted') + (emailFaults' - emailFaults) >= Cardinality(Uncounted)
      BY <2>2, <3>1, <3>2, CountedSets
    <3>4. \A s \in Senders : sends'[s].at = "count" => ~sends'[s].test
      BY <2>2 DEF EmailInv, CountsOK
    <3>5. CountsOK'
      BY <2>2, <3>1, <3>2, <3>3, <3>4, CountedSets, NothingCounted
    <3>6. QED
      BY <2>2, <3>5 DEF EmailInv
  <2>3. ASSUME NEW n \in notices, updateEmailDeliveryByProviderId(n) PROVE EmailInv'
    <3>1. MailsInv'
      BY <2>3, WebhookSteps DEF EmailInv
    <3>2. \A m \in accepted : mails'[m].test = mails[m].test
      BY <2>3 DEF updateEmailDeliveryByProviderId, EmailInv, MailsInv, EmailTypeOK
    <3>3. /\ sends' = sends /\ emailsSent' = emailsSent /\ accepted' = accepted
          /\ EmailOK \/ EmailFault
      BY <2>3 DEF updateEmailDeliveryByProviderId
    <3>4. emailFaults' >= emailFaults
      BY <3>3 DEF EmailInv, MailsInv, EmailTypeOK, EmailOK, EmailFault
    <3>5. QED
      BY <2>2, <3>1, <3>2, <3>3, <3>4
  <2>4. ASSUME NEW n \in notices, insertEmailSuppression(n) \/ SuppressionFails(n)
        PROVE  EmailInv'
    <3>1. MailsInv'
      BY <2>4, WebhookSteps DEF EmailInv
    <3>2. /\ UNCHANGED <<sends, emailsSent, accepted, mails>>
          /\ EmailOK \/ EmailFault
      BY <2>4 DEF insertEmailSuppression, SuppressionFails
    <3>3. emailFaults' >= emailFaults
      BY <3>2 DEF EmailInv, MailsInv, EmailTypeOK, EmailOK, EmailFault
    <3>4. QED
      BY <2>2, <3>1, <3>2, <3>3
  <2>5. ASSUME NEW m \in Mails, Unsubscribe(m) PROVE EmailInv'
    <3>1. MailsInv'
      BY <2>5, WebhookSteps DEF EmailInv
    <3>2. UNCHANGED <<sends, emailsSent, accepted, mails, emailFaults>>
      BY <2>5 DEF Unsubscribe, EmailOK
    <3>3. emailFaults' >= emailFaults
      BY <3>2 DEF EmailInv, MailsInv, EmailTypeOK
    <3>4. QED
      BY <2>2, <3>1, <3>2, <3>3
  <2>6. CASE UNCHANGED emailVars
    <3>1. MailsInv'
      BY <2>6 DEF emailVars, EmailInv, MailsInv, EmailTypeOK, MailsOK, BounceSuppresses,
                  HasMail, Present
    <3>2. UNCHANGED <<sends, emailsSent, accepted, mails, emailFaults>>
      BY <2>6 DEF emailVars
    <3>3. emailFaults' >= emailFaults
      BY <3>2 DEF EmailInv, MailsInv, EmailTypeOK
    <3>4. QED
      BY <2>2, <3>1, <3>2, <3>3
  <2>7. QED
    BY <2>1, <2>3, <2>4, <2>5, <2>6 DEF EmailNext
<1>3. QED
  BY <1>1, <1>2, PTL DEF EmailSpec

\* Deliveries, sends and webhooks keep their types (services/email.ts).
THEOREM EmailTypeCorrect == EmailSpec => []EmailTypeOK
<1>1. EmailInv => EmailTypeOK
  BY DEF EmailInv, MailsInv
<1>2. QED
  BY <1>1, EmailInvariant, PTL

\* The mails a tenant gets out beyond its plan are at most the sends under way
\* besides the last one, and one for each fault (sendEmail, services/email.ts).
THEOREM MailOverrunBounded == EmailSpec => []OverrunBounded
<1>1. EmailInv => OverrunBounded
  <2> SUFFICES ASSUME EmailInv PROVE OverrunBounded
    OBVIOUS
  <2>1. /\ emailsSent \in Nat /\ emailFaults \in Nat
        /\ Cardinality(Taken) \in Nat
    BY TakenFinite DEF EmailInv, MailsInv, EmailTypeOK, CountsOK
  <2>2. Cardinality(Taken) <= EmailLimit + Cardinality(Senders) - 1 + emailFaults
    BY <2>1, CountedSets, EmailAssumption DEF EmailInv, CountsOK
  <2>3. QED
    BY <2>2 DEF OverrunBounded, Taken
<1>2. QED
  BY <1>1, EmailInvariant, PTL

\* A bounce or a complaint suppresses the address, or its webhook comes again
\* (routes/webhook/resend.ts).
THEOREM BouncesSuppress == EmailSpec => []BounceSuppresses
<1>1. EmailInv => BounceSuppresses
  BY DEF EmailInv, MailsInv
<1>2. QED
  BY <1>1, EmailInvariant, PTL
=============================================================================
