------------------------------ MODULE AdminShell ------------------------------
(***************************************************************************)
(* A page of the app that Shopify's admin embeds: AdminShell lists the     *)
(* shop's apps and asks for the shop's currency and locale, and            *)
(* ModuleFrame fetches, imports and mounts the admin module of the app the *)
(* page shows.  A link to another app loads a new page.                    *)
(*                                                                         *)
(* makeBridge is called in render, so whatever renders AdminShell again    *)
(* gives ModuleFrame a new bridge, and its effect runs anew: after the     *)
(* shop's answer, and in a development build after the first time, since   *)
(* StrictMode runs, cleans up and runs an effect at mount.  Fetches and    *)
(* imports of the loads before go on.  GET /admin/shop is a TODO of        *)
(* platform-back; the shell is written for its answer.                     *)
(***************************************************************************)
EXTENDS Integers

CONSTANTS
    PanelApps,  \* ids of the shop's apps
    NoPanel     \* null

ASSUME ShellAssumption == NoPanel \notin PanelApps

\* StrictMode's two loads and the one that the shop's answer starts.
Loads == 1 .. 3

VARIABLES
    strict,      \* a development build
    shellView,   \* what AdminShell renders
    activeAppId,
    shopMeta,
    asking,      \* the requests of AdminShell's two effects
    loads,       \* each run of ModuleFrame's effect: see NoLoad
    latest,      \* how many there are
    frame,       \* state.phase; none: no ModuleFrame
    moduleRef,   \* the load whose module it holds; 0: null
    blobUrlRef,  \* the load whose Blob URL it holds; 0: null
    blobUrls,    \* the loads whose Blob URL is not revoked
    container    \* the loads whose module ran mount() and was not told to unmount
                 \* (one that exports no unmount counts as told)

shellVars == <<strict, shellView, activeAppId, shopMeta, asking, loads, latest, frame,
               moduleRef, blobUrlRef, blobUrls, container>>

\* meta: the currency and locale of the bridge the load was given.
NoLoad  == [at |-> "none", cancelled |-> FALSE, meta |-> "default"]
Load(m) == [NoLoad EXCEPT !.at = "fetch", !.meta = m]

ShellInit ==
    /\ strict \in BOOLEAN
    /\ shellView \in {"missing", "loading"}
    /\ activeAppId \in PanelApps \cup {NoPanel}
    /\ shopMeta = "default"
    /\ asking = IF shellView = "missing" THEN {} ELSE {"apps", "shop"}
    /\ loads = [i \in Loads |-> NoLoad] /\ latest = 0
    /\ frame = "none" /\ moduleRef = 0 /\ blobUrlRef = 0
    /\ blobUrls = {} /\ container = {}

-----------------------------------------------------------------------------
(* ModuleFrame's effect *)

\* Mutant: a load goes on after the cleanup.
MutCancelled(i) == FALSE

Cancelled(i) == loads[i].cancelled

\* The effect at mount.
FirstEffect ==
    /\ latest' = IF strict THEN 2 ELSE 1
    /\ loads' = [loads EXCEPT ![latest'] = Load(shopMeta),
                              ![1] = [Load(shopMeta) EXCEPT !.cancelled = strict]]
    /\ frame' = "loading"
    /\ UNCHANGED <<moduleRef, blobUrlRef, blobUrls, container>>

\* The cleanup, then the effect with the new bridge.
EffectAgain(m) ==
    /\ latest' = latest + 1
    /\ loads' = [loads EXCEPT ![latest].cancelled = TRUE, ![latest + 1] = Load(m)]
    /\ container' = container \ {moduleRef} /\ moduleRef' = 0
    /\ blobUrls' = blobUrls \ {blobUrlRef} /\ blobUrlRef' = 0
    /\ frame' = "loading"

Shell == <<strict, shellView, activeAppId, shopMeta, asking, latest>>

Fails(i) == frame' = IF Cancelled(i) THEN frame ELSE "error"

FetchPanelFails(i) ==
    /\ loads[i].at = "fetch"
    /\ loads' = [loads EXCEPT ![i].at = "ended"]
    /\ Fails(i)
    /\ UNCHANGED <<Shell, moduleRef, blobUrlRef, blobUrls, container>>

\* The source is there; a load that was not cancelled imports it.
FetchPanel(i) ==
    /\ loads[i].at = "fetch"
    /\ IF Cancelled(i)
          THEN loads' = [loads EXCEPT ![i].at = "ended"] /\ UNCHANGED <<blobUrlRef, blobUrls>>
          ELSE /\ loads' = [loads EXCEPT ![i].at = "import"]
               /\ blobUrls' = blobUrls \cup {i} /\ blobUrlRef' = i
    /\ UNCHANGED <<Shell, frame, moduleRef, container>>

\* The load's own URL is revoked; the ref is reset whichever load's it holds.
DropUrl(i) ==
    /\ loads[i].at = "import"
    /\ loads' = [loads EXCEPT ![i].at = "ended"]
    /\ blobUrls' = blobUrls \ {i} /\ blobUrlRef' = 0
    /\ UNCHANGED <<Shell, moduleRef, container>>

ImportFails(i)  == DropUrl(i) /\ Fails(i)
ImportedLate(i) == DropUrl(i) /\ Cancelled(i) /\ UNCHANGED frame

Mount(i) ==
    /\ loads[i].at = "import" /\ ~Cancelled(i)
    /\ loads' = [loads EXCEPT ![i].at = "mounted"]
    /\ container' = container \cup {i} /\ moduleRef' = i
    /\ frame' = "mounted"
    /\ UNCHANGED <<Shell, blobUrlRef, blobUrls>>

\* What mount() put into the container before it threw stays there.
MountThrows(i) ==
    /\ loads[i].at = "import" /\ ~Cancelled(i)
    /\ loads' = [loads EXCEPT ![i].at = "threw"]
    /\ container' = container \cup {i}
    /\ frame' = "error"
    /\ UNCHANGED <<Shell, moduleRef, blobUrlRef, blobUrls>>

-----------------------------------------------------------------------------
(* AdminShell's requests *)

Frame == <<loads, latest, frame, moduleRef, blobUrlRef, blobUrls, container>>

AppsFail ==
    /\ "apps" \in asking /\ asking' = asking \ {"apps"}
    /\ shellView' = "error"
    /\ UNCHANGED <<strict, activeAppId, shopMeta, Frame>>

\* listAdminAppsForShop: the apps with an admin archetype that are not deleted,
\* the one updated last first.
AppsArrive ==
    /\ "apps" \in asking /\ asking' = asking \ {"apps"}
    /\ \E list \in SUBSET PanelApps :
          IF list = {}
            THEN activeAppId' = NoPanel /\ shellView' = "empty" /\ UNCHANGED Frame
            ELSE /\ activeAppId' \in IF activeAppId \in list THEN {activeAppId} ELSE list
                 /\ shellView' = "app" /\ FirstEffect
    /\ UNCHANGED <<strict, shopMeta>>

\* Without a currency or a locale nothing is set.
ShopFails ==
    /\ "shop" \in asking /\ asking' = asking \ {"shop"}
    /\ UNCHANGED <<strict, shellView, activeAppId, shopMeta, Frame>>

\* setShopMeta sets a new object, so even the defaults render the shell again.
ShopArrives ==
    /\ "shop" \in asking /\ asking' = asking \ {"shop"}
    /\ shopMeta' \in {"default", "own"}
    /\ IF shellView = "app" THEN EffectAgain(shopMeta') ELSE UNCHANGED Frame
    /\ UNCHANGED <<strict, shellView, activeAppId>>

-----------------------------------------------------------------------------
LoadStep(i) ==
    \/ FetchPanelFails(i) \/ FetchPanel(i) \/ ImportFails(i) \/ ImportedLate(i)
    \/ Mount(i) \/ MountThrows(i)

ShellNext ==
    \/ AppsFail \/ AppsArrive \/ ShopFails \/ ShopArrives
    \/ \E i \in Loads : LoadStep(i)

ShellSpec == ShellInit /\ [][ShellNext]_shellVars

-----------------------------------------------------------------------------
ShellTypeOK ==
    /\ strict \in BOOLEAN
    /\ shellView \in {"missing", "loading", "error", "empty", "app"}
    /\ activeAppId \in PanelApps \cup {NoPanel}
    /\ shopMeta \in {"default", "own"} /\ asking \subseteq {"apps", "shop"}
    /\ loads \in [Loads -> [at : {"none", "fetch", "import", "ended", "mounted", "threw"},
                            cancelled : BOOLEAN, meta : {"default", "own"}]]
    /\ latest \in Loads \cup {0}
    /\ frame \in {"none", "loading", "mounted", "error"}
    /\ moduleRef \in Loads \cup {0} /\ blobUrlRef \in Loads \cup {0}
    /\ blobUrls \subseteq Loads /\ container \subseteq Loads

(* While the page shows a module, it is the one of the last run of the      *)
(* effect, with the shop's currency and locale as last known and its Blob   *)
(* URL alive, and no other module is left in the container but one whose    *)
(* mount() threw - in whatever order fetches and imports of the loads       *)
(* before end (ModuleFrame: "cancelled", the cleanup).                      *)
ShowsLatest ==
    frame = "mounted" =>
        /\ moduleRef = latest /\ latest # 0
        /\ loads[latest].at = "mounted" /\ loads[latest].meta = shopMeta
        /\ latest \in blobUrls
        /\ \A i \in container \ {latest} : loads[i].at = "threw"
===============================================================================
