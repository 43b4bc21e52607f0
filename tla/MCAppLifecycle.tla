--------------------------- MODULE MCAppLifecycle ---------------------------
(***************************************************************************)
(* One app with a topic: versions 1 and 2 are in app_versions, version 3   *)
(* is one the API made up for a generation.                                *)
(***************************************************************************)
EXTENDS AppLifecycle, TLC

CONSTANTS t1, v1, v2, v3

MCBundle == v1 :> [cron |-> TRUE, topics |-> {t1}]
         @@ v2 :> [cron |-> FALSE, topics |-> {}]
         @@ v3 :> [cron |-> FALSE, topics |-> {}]
=============================================================================
