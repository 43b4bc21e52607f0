-------------------------------- MODULE Install --------------------------------
(***************************************************************************)
(* Installing the platform on a shop: the OAuth callback, the secrets it   *)
(* stores and the tenants row it creates or updates.  Callbacks of one or  *)
(* of several shops run concurrently, each as far as its next await.  The  *)
(* handlers of a tenant read the two secrets its row names, through        *)
(* /services/shopify.                                                      *)
(*                                                                         *)
(* Shopify is not in the repository: it hands out the access token of the  *)
(* shop's current authorization and a new one after a reinstall.           *)
(***************************************************************************)
EXTENDS Naturals

CONSTANTS
    Shops,
    Slug,              \* the slug upsertTenant derives from each shop's domain
    Callbacks,         \* callbacks under way at a time
    MaxAuthorizations, \* bound: authorizations of each shop
    MaxInstallFaults   \* bound: calls and statements that fail

ASSUME InstallAssumption ==
    /\ MaxAuthorizations \in Nat \ {0} /\ MaxInstallFaults \in Nat
    /\ DOMAIN Slug = Shops
    /\ "none" \notin Shops

VARIABLES
    authorization,  \* how often each shop authorized the app
    secrets,        \* Secret Manager: the latest version of each secret, by kind and id
    tenants,        \* the tenants rows by shop_domain: [storefront, secret]
    callbacks,      \* progress of each callback: [at, shop, token, storefront]
    installFaults

installVars == <<authorization, secrets, tenants, callbacks, installFaults>>

Empty == [shop |-> "none", token |-> 0]
NoTenant == [secret |-> "none", storefront |-> "none"]
NoCallback == [at |-> "idle", shop |-> "none", token |-> 0, storefront |-> "none"]

\* Mutant: secret ids derived as the slug is, runs of other characters collapsed.
MutSecretId(shop) == Slug[shop]

\* The id keeps one character for each of the domain's: it tells shops apart.
SecretId(shop) == shop

Kinds == {"admin", "storefront"}
SecretIds == Shops \cup {Slug[s] : s \in Shops}

InstallInit ==
    /\ authorization = [s \in Shops |-> 1]
    /\ secrets = [kind \in Kinds |-> [i \in SecretIds |-> Empty]]
    /\ tenants = [s \in Shops |-> NoTenant]
    /\ callbacks = [c \in Callbacks |-> NoCallback]
    /\ installFaults = 0

InstallOK    == UNCHANGED installFaults
InstallFault == installFaults < MaxInstallFaults /\ installFaults' = installFaults + 1
To(c, place) == callbacks' = [callbacks EXCEPT ![c].at = place]
Leave(c)     == callbacks' = [callbacks EXCEPT ![c] = NoCallback]

Known(shop) == tenants[shop] # NoTenant

-----------------------------------------------------------------------------
\* The merchant removes the app and installs it again.
Reauthorize(shop) ==
    /\ authorization[shop] < MaxAuthorizations
    /\ authorization' = [authorization EXCEPT ![shop] = @ + 1]
    /\ UNCHANGED <<secrets, tenants, callbacks, installFaults>>

\* callbackHandler, the checks passed: exchangeCodeForToken, and the metafield,
\* whose failure changes nothing.  A failing exchange is answered 502.
exchangeCodeForToken(c, shop) ==
    /\ callbacks[c].at = "idle"
    /\ callbacks' = [callbacks EXCEPT ![c] =
          [at |-> "token", shop |-> shop, token |-> authorization[shop], storefront |-> "none"]]
    /\ UNCHANGED <<authorization, secrets, tenants, installFaults>>

Store(kind, shop, token) ==
    secrets' = [secrets EXCEPT ![kind][SecretId(shop)] = [shop |-> shop, token |-> token]]

\* storeSecret: a new version; the name it returns reads the latest one.
persistAccessToken(c) ==
    /\ callbacks[c].at = "token"
    /\ \/ /\ Store("admin", callbacks[c].shop, callbacks[c].token)
          /\ To(c, "storefront") /\ InstallOK
       \/ Leave(c) /\ InstallFault /\ UNCHANGED secrets
    /\ UNCHANGED <<authorization, tenants>>

\* Its failure, also of a token Shopify no longer accepts, leaves the install
\* without a storefront secret.
provisionStorefrontToken(c) ==
    /\ callbacks[c].at = "storefront"
    /\ LET shop == callbacks[c].shop IN
       \/ /\ callbacks[c].token = authorization[shop]
          /\ Store("storefront", shop, callbacks[c].token)
          /\ callbacks' = [callbacks EXCEPT ![c].at = "lookup",
                                            ![c].storefront = SecretId(shop)]
          /\ InstallOK
       \/ /\ callbacks[c].token # authorization[shop]
          /\ To(c, "lookup") /\ InstallOK /\ UNCHANGED secrets
       \/ To(c, "lookup") /\ InstallFault /\ UNCHANGED secrets
    /\ UNCHANGED <<authorization, tenants>>

\* upsertTenant: the row is looked up ...
getTenantByShopDomain(c) ==
    /\ callbacks[c].at = "lookup"
    /\ To(c, IF Known(callbacks[c].shop) THEN "update" ELSE "create")
    /\ InstallOK
    /\ UNCHANGED <<authorization, secrets, tenants>>

KeptStorefront(shop, storefront) ==
    IF storefront = "none" THEN tenants[shop].storefront ELSE storefront

WriteTenant(shop, storefront) ==
    tenants' = [tenants EXCEPT ![shop] =
        [secret |-> SecretId(shop), storefront |-> KeptStorefront(shop, storefront)]]

\* ... updated, and its webhooks registered again on the way out ...
updateTenantAccessToken(c) ==
    /\ callbacks[c].at = "update"
    /\ \/ WriteTenant(callbacks[c].shop, callbacks[c].storefront) /\ InstallOK
       \/ InstallFault /\ UNCHANGED tenants
    /\ Leave(c)
    /\ UNCHANGED <<authorization, secrets>>

\* UNIQUE (shop_domain), UNIQUE (slug).
Clashes(shop) == \E s \in Shops : Known(s) /\ Slug[s] = Slug[shop]

\* ... or inserted; the loser of a race, and every shop whose slug is taken,
\* is answered 500 with its secrets already written.
createTenant(c) ==
    /\ callbacks[c].at = "create"
    /\ \/ /\ ~Clashes(callbacks[c].shop)
          /\ WriteTenant(callbacks[c].shop, callbacks[c].storefront) /\ InstallOK
       \/ Clashes(callbacks[c].shop) /\ InstallOK /\ UNCHANGED tenants
       \/ InstallFault /\ UNCHANGED tenants
    /\ Leave(c)
    /\ UNCHANGED <<authorization, secrets>>

InstallNext ==
    \/ \E s \in Shops : Reauthorize(s)
    \/ \E c \in Callbacks :
          \/ \E s \in Shops : exchangeCodeForToken(c, s)
          \/ persistAccessToken(c) \/ provisionStorefrontToken(c)
          \/ getTenantByShopDomain(c) \/ updateTenantAccessToken(c) \/ createTenant(c)

InstallSpec == InstallInit /\ [][InstallNext]_installVars

-----------------------------------------------------------------------------
InstallTypeOK ==
    /\ authorization \in [Shops -> 1 .. MaxAuthorizations]
    /\ secrets \in [Kinds -> [SecretIds ->
          [shop : Shops \cup {"none"}, token : 0 .. MaxAuthorizations]]]
    /\ tenants \in [Shops -> [secret : Shops \cup {"none"}, storefront : Shops \cup {"none"}]]
    /\ callbacks \in [Callbacks -> [
          at : {"idle", "token", "storefront", "lookup", "update", "create"},
          shop : Shops \cup {"none"}, token : 0 .. MaxAuthorizations,
          storefront : Shops \cup {"none"}]]
    /\ installFaults \in 0 .. MaxInstallFaults

(* What /services/shopify hands a tenant's handlers is a token of that     *)
(* tenant's shop, whatever installs of other shops did meanwhile, failed   *)
(* ones included: they write the secrets before the row is refused.        *)
TokenIsOwn ==
    \A s \in Shops : Known(s) =>
        /\ secrets["admin"][tenants[s].secret].shop = s
        /\ tenants[s].storefront # "none" =>
              secrets["storefront"][tenants[s].storefront].shop = s
================================================================================
