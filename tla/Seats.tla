--------------------------------- MODULE Seats ---------------------------------
(***************************************************************************)
(* The seats of a plan: how many apps of a tenant may be active at a time. *)
(* PATCH /tenants/:tenantId/apps/:appId (apps/api/src/routes/tenants.ts)   *)
(* reads the app, the tenant and the count of active apps and then writes  *)
(* the app's status, one await each, so that two calls interleave at each; *)
(* billing may change the plan, and DELETE the row, in between.            *)
(***************************************************************************)
EXTENDS Naturals, FiniteSets

CONSTANTS
    Apps,     \* ids of the tenant's apps
    Patches,  \* PATCH calls under way at a time
    Limits    \* maxApps of the plans

SeatsConstantsOK ==
    /\ IsFiniteSet(Apps) /\ IsFiniteSet(Patches) /\ Patches # {}
    /\ Limits \subseteq Nat

ASSUME SeatsAssumption == SeatsConstantsOK

VARIABLES
    appStatus,  \* apps.status; "none" when there is no row
    maxApps,    \* maxApps of the tenant's plan
    granted,    \* the highest maxApps the tenant had (history)
    patch       \* the calls' progress: [at, app, to, limit], limit once read

seatsVars == <<appStatus, maxApps, granted, patch>>

NoPatch == [at |-> "idle", app |-> "none", to |-> "none", limit |-> 0]

Active == {a \in Apps : appStatus[a] = "active"}

SeatsInit ==
    /\ appStatus = [a \in Apps |-> "none"]
    /\ maxApps \in Limits /\ granted = maxApps
    /\ patch = [p \in Patches |-> NoPatch]

-----------------------------------------------------------------------------
createApp(a) ==
    /\ appStatus[a] = "none"
    /\ appStatus' = [appStatus EXCEPT ![a] = "draft"]
    /\ UNCHANGED <<maxApps, granted, patch>>

\* The last statement of DELETE, whatever the row's status is.
hardDeleteApp(a) ==
    /\ appStatus' = [appStatus EXCEPT ![a] = "none"]
    /\ UNCHANGED <<maxApps, granted, patch>>

\* updateTenantBilling, by a billing route or webhook.
ChangePlan(n) ==
    /\ maxApps' = n
    /\ granted' = IF n > granted THEN n ELSE granted
    /\ UNCHANGED <<appStatus, patch>>

\* getAppById finds the row, whatever its status; only activation has a gate.
BeginPatch(p, a, to) ==
    /\ patch[p].at = "idle" /\ appStatus[a] # "none"
    /\ patch' = [patch EXCEPT ![p] =
                    [at |-> IF to = "active" THEN "tenant" ELSE "write",
                     app |-> a, to |-> to, limit |-> 0]]
    /\ UNCHANGED <<appStatus, maxApps, granted>>

\* getTenantById: the limit is the one of the plan read here.
ReadPlan(p) ==
    /\ patch[p].at = "tenant"
    /\ patch' = [patch EXCEPT ![p].at = "count", ![p].limit = maxApps]
    /\ UNCHANGED <<appStatus, maxApps, granted>>

\* Mutant: the last seat is given away twice.
MutHasSeat(limit) == Cardinality(Active) <= limit

\* The app itself counts when it is active already.
HasSeat(limit) == Cardinality(Active) < limit

\* getActiveAppCount; 403 when the seats are taken.
canActivateApp(p) ==
    /\ patch[p].at = "count"
    /\ patch' = [patch EXCEPT ![p] =
                    IF HasSeat(patch[p].limit) THEN [patch[p] EXCEPT !.at = "write"] ELSE NoPatch]
    /\ UNCHANGED <<appStatus, maxApps, granted>>

\* UPDATE apps ... WHERE id: nothing is written when the row is gone.
updateAppStatus(p) ==
    /\ patch[p].at = "write"
    /\ appStatus' = [a \in Apps |-> IF a = patch[p].app /\ appStatus[a] # "none"
                                    THEN patch[p].to ELSE appStatus[a]]
    /\ patch' = [patch EXCEPT ![p] = NoPatch]
    /\ UNCHANGED <<maxApps, granted>>

\* A statement rejects: 500, nothing written.
PatchFails(p) ==
    /\ patch[p].at # "idle"
    /\ patch' = [patch EXCEPT ![p] = NoPatch]
    /\ UNCHANGED <<appStatus, maxApps, granted>>

PatchStep(p) ==
    \/ \E a \in Apps, to \in {"active", "inactive", "deleted"} : BeginPatch(p, a, to)
    \/ ReadPlan(p) \/ canActivateApp(p) \/ updateAppStatus(p) \/ PatchFails(p)

SeatsNext ==
    \/ \E a \in Apps : createApp(a) \/ hardDeleteApp(a)
    \/ \E n \in Limits : ChangePlan(n)
    \/ \E p \in Patches : PatchStep(p)

SeatsSpec == SeatsInit /\ [][SeatsNext]_seatsVars

-----------------------------------------------------------------------------
\* Type invariant of the apps, the plan and the calls.
SeatsTypeOK ==
    /\ appStatus \in [Apps -> {"none", "draft", "active", "inactive", "deleted"}]
    /\ maxApps \in Limits /\ granted \in Limits /\ maxApps <= granted
    /\ patch \in [Patches -> [at : {"idle", "tenant", "count", "write"},
                              app : Apps \cup {"none"},
                              to : {"none", "active", "inactive", "deleted"},
                              limit : Limits \cup {0}]]

(* The active apps exceed the seats the tenant ever had by at most the     *)
(* number of calls under way at a time minus one (tenants.ts counts before *)
(* it writes): an overshoot by races stays that small, however many calls  *)
(* follow, and a cheaper plan opens no more.                               *)
SeatsOvershoot == Cardinality(Active) <= granted + Cardinality(Patches) - 1
================================================================================
