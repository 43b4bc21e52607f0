----------------------------- MODULE MCServices -----------------------------
(***************************************************************************)
(* A shop and the apps that run for it, side by side: an app's cron runner, *)
(* workflow helper and Shopify client, its life cycle and test theme, and  *)
(* the shop's installation.  In the models they share no state, so each    *)
(* behaviour runs the one that `component` names and the others stay in    *)
(* the state they began in.                                                *)
(***************************************************************************)
EXTENDS MCCronRunner, MCAppLifecycle, Workflow, ShopifyClient, Install, ThemeInjection

CONSTANTS j1, j2

VARIABLE component

MCSlug       == [s \in Shops |-> "a-b"]
MCTemplateOf == [s \in Sections |-> IF s = "other" THEN "index" ELSE "product"]
MCTargets    == [i \in Injections |-> IF i = j1 THEN <<"main", "side">> ELSE <<"main", "other">>]

cronVars == vars

-----------------------------------------------------------------------------
ServicesInit ==
    /\ component \in {"cron", "workflow", "shopify", "lifecycle", "shops", "themes"}
    /\ Init /\ WorkflowInit /\ ShopifyInit
    /\ LifecycleInit /\ InstallInit /\ ThemeInit
    /\ component # "lifecycle" => local

CronStep ==
    /\ component = "cron" /\ Next
    /\ UNCHANGED <<component, workflowVars, shopifyVars, lifecycleVars, installVars,
                   themeVars>>

WorkflowStep ==
    /\ component = "workflow" /\ WorkflowNext
    /\ UNCHANGED <<component, cronVars, shopifyVars, lifecycleVars, installVars,
                   themeVars>>

ShopifyStep ==
    /\ component = "shopify" /\ ShopifyNext
    /\ UNCHANGED <<component, cronVars, workflowVars, lifecycleVars, installVars,
                   themeVars>>

LifecycleStep ==
    /\ component = "lifecycle" /\ LifecycleNext
    /\ UNCHANGED <<component, cronVars, workflowVars, shopifyVars, installVars,
                   themeVars>>

ShopsStep ==
    /\ component = "shops" /\ InstallNext
    /\ UNCHANGED <<component, cronVars, workflowVars, shopifyVars, lifecycleVars, themeVars>>

ThemesStep ==
    /\ component = "themes" /\ ThemeNext
    /\ UNCHANGED <<component, cronVars, workflowVars, shopifyVars, lifecycleVars, installVars>>

ServicesNext ==
    \/ CronStep \/ WorkflowStep \/ ShopifyStep \/ LifecycleStep \/ ShopsStep \/ ThemesStep

servicesVars ==
    <<component, cronVars, workflowVars, shopifyVars, lifecycleVars, installVars, themeVars>>

ServicesSpec == ServicesInit /\ [][ServicesNext]_servicesVars

=============================================================================
