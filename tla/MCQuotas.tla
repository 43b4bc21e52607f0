------------------------------ MODULE MCQuotas ------------------------------
(***************************************************************************)
(* What a tenant may use, side by side: the webhook pipeline against its   *)
(* quota of executions, the email service against its quota of mails, the  *)
(* billing routes that set the plan, the periods uses are counted in, the  *)
(* calls that activate apps against the plan's seats.                      *)
(* In the models they share no state, so each behaviour runs the one that  *)
(* `component` names and the others stay in the state they began in.       *)
(***************************************************************************)
EXTENDS MCWebhookPipeline, Seats, EmailService, Billing, UsagePeriod

VARIABLE component

webhookVars == vars

-----------------------------------------------------------------------------
QuotasInit ==
    /\ component \in {"webhooks", "email", "plans", "period", "seats"}
    /\ Init /\ EmailInit /\ BillingInit /\ PeriodInit
    /\ SeatsInit
    /\ component # "period" => anchorDay = 1
    /\ component # "seats" => maxApps = 1
    /\ component # "plans" => billed

WebhooksStep ==
    /\ component = "webhooks" /\ Next
    /\ UNCHANGED <<component, emailVars, billingVars, periodVars, seatsVars>>

EmailStep ==
    /\ component = "email" /\ EmailNext
    /\ UNCHANGED <<component, webhookVars, billingVars, periodVars, seatsVars>>

PlansStep ==
    /\ component = "plans" /\ BillingNext
    /\ UNCHANGED <<component, webhookVars, emailVars, periodVars, seatsVars>>

PeriodStep ==
    /\ component = "period" /\ NextDay
    /\ UNCHANGED <<component, webhookVars, emailVars, billingVars, seatsVars>>

SeatsStep ==
    /\ component = "seats" /\ SeatsNext
    /\ UNCHANGED <<component, webhookVars, emailVars, billingVars, periodVars>>

QuotasNext == WebhooksStep \/ EmailStep \/ PlansStep \/ PeriodStep \/ SeatsStep

quotasVars == <<component, webhookVars, emailVars, billingVars, periodVars, seatsVars>>

QuotasSpec == QuotasInit /\ [][QuotasNext]_quotasVars

=============================================================================
