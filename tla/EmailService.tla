---------------------------- MODULE EmailService ----------------------------
(***************************************************************************)
(* The email service for one tenant: sendEmail as the /services/email      *)
(* routes and the merchant's test send call it, the Resend webhook and the *)
(* unsubscribe page.  A batch sends its items one after the other and      *)
(* stops at the first quota refusal: it is one sender that sends again.    *)
(*                                                                         *)
(* Resend is not in the repository: it accepts a mail and reports its fate *)
(* in webhooks that come late, in any order and again after an error.      *)
(***************************************************************************)
EXTENDS Naturals, FiniteSets

CONSTANTS
    Recipients,     \* addresses, trimmed and in lower case as sendEmail makes them
    Mails,          \* ids of email_deliveries, 1 .. n
    Senders,        \* sends under way at a time
    EmailLimit,     \* maxEmailsPerMonth of the plan
    Fates,          \* the sets of events Resend may report of a mail it took
    MaxEmailFaults  \* bound: failing statements and calls, repeated webhooks

ASSUME EmailAssumption ==
    /\ Mails \subseteq Nat \ {0} /\ EmailLimit \in Nat /\ MaxEmailFaults \in Nat
    /\ IsFiniteSet(Senders) /\ Senders # {}
    /\ Fates \subseteq SUBSET {"sent", "delivered", "bounced", "complained", "failed"}

VARIABLES
    mails,       \* email_deliveries: [to, test, status, known]; known:
                 \* provider_msg_id is set
    suppressed,  \* email_suppressions
    emailsSent,  \* usage_records.emails_sent
    sends,       \* progress of each sendEmail: [at, to, test, mail, id]
    accepted,    \* the mails Resend took
    notices,     \* its webhooks not yet answered 200: [mail, type]
    receiving,   \* those whose status is written and whose suppression is not
    emailFaults

emailVars == <<mails, suppressed, emailsSent, sends, accepted, notices, receiving, emailFaults>>

Suppressing == {"bounced", "complained"}
NoMail == [to |-> "none", test |-> FALSE, status |-> "absent", known |-> FALSE]
NoSend == [at |-> "idle", to |-> "none", test |-> FALSE, mail |-> 0, id |-> FALSE]

EmailOK    == UNCHANGED emailFaults
EmailFault == emailFaults < MaxEmailFaults /\ emailFaults' = emailFaults + 1

EmailInit ==
    /\ mails = [m \in Mails |-> NoMail]
    /\ suppressed = {} /\ accepted = {} /\ notices = {} /\ receiving = {}
    /\ sends = [s \in Senders |-> NoSend]
    /\ emailsSent = 0 /\ emailFaults = 0

-----------------------------------------------------------------------------
(* sendEmail *)

GoOn(s, place) == sends' = [sends EXCEPT ![s].at = place]
EndSend(s)     == sends' = [sends EXCEPT ![s] = NoSend]

\* A test send passes the suppression list and the quota by.
BeginSend(s, to, test) ==
    /\ sends[s].at = "idle"
    /\ sends' = [sends EXCEPT ![s] =
          [at |-> IF test THEN "insert" ELSE "suppression", to |-> to, test |-> test,
           mail |-> 0, id |-> FALSE]]
    /\ EmailOK
    /\ UNCHANGED <<mails, suppressed, emailsSent, accepted, notices, receiving>>

isEmailSuppressed(s) ==
    /\ sends[s].at = "suppression"
    /\ IF sends[s].to \in suppressed THEN EndSend(s) ELSE GoOn(s, "quota")
    /\ EmailOK
    /\ UNCHANGED <<mails, suppressed, emailsSent, accepted, notices, receiving>>

\* Mutant: off by one.
MutCheckUsageQuota(s) ==
    /\ sends[s].at = "quota"
    /\ IF emailsSent <= EmailLimit THEN GoOn(s, "insert") ELSE EndSend(s)
    /\ EmailOK
    /\ UNCHANGED <<mails, suppressed, emailsSent, accepted, notices, receiving>>

\* QuotaExceededError ends the send, and the rest of a batch, with 429.
checkUsageQuota(s) ==
    /\ sends[s].at = "quota"
    /\ IF emailsSent < EmailLimit THEN GoOn(s, "insert") ELSE EndSend(s)
    /\ EmailOK
    /\ UNCHANGED <<mails, suppressed, emailsSent, accepted, notices, receiving>>

\* An app without an app_email_configs row sends nothing.
missingConfig(s) ==
    /\ sends[s].at = "insert"
    /\ EndSend(s)
    /\ EmailOK
    /\ UNCHANGED <<mails, suppressed, emailsSent, accepted, notices, receiving>>

insertEmailDelivery(s) ==
    /\ sends[s].at = "insert"
    /\ \E m \in Mails :
          /\ mails[m].status = "absent"
          /\ \A n \in Mails : n < m => mails[n].status # "absent"
          /\ mails' = [mails EXCEPT ![m] =
                [to |-> sends[s].to, test |-> sends[s].test, status |-> "queued", known |-> FALSE]]
          /\ sends' = [sends EXCEPT ![s].at = "submit", ![s].mail = m]
    /\ EmailOK
    /\ UNCHANGED <<suppressed, emailsSent, accepted, notices, receiving>>

\* emails.send: the mail is taken and its id returned; or the call rejects,
\* before or after Resend took the mail; or the answer is an error object,
\* which the code reads as an answer without an id.
Submit(s) ==
    /\ sends[s].at = "submit"
    /\ \/ /\ sends' = [sends EXCEPT ![s].at = "record", ![s].id = TRUE]
          /\ EmailOK
          /\ accepted' = accepted \cup {sends[s].mail}
       \/ /\ GoOn(s, "failed") /\ EmailFault
          /\ accepted' \in {accepted, accepted \cup {sends[s].mail}}
       \/ GoOn(s, "record") /\ EmailFault /\ UNCHANGED accepted
    /\ IF accepted' = accepted THEN UNCHANGED notices
       ELSE \E fate \in Fates :
               notices' = notices \cup [mail : {sends[s].mail}, type : fate]
    /\ UNCHANGED <<mails, suppressed, emailsSent, receiving>>

\* updateEmailDeliveryStatus with "sent": it overwrites what a webhook wrote.
recordSent(s) ==
    /\ sends[s].at = "record"
    /\ mails' = [mails EXCEPT ![sends[s].mail].status = "sent",
                              ![sends[s].mail].known = @ \/ sends[s].id]
    /\ IF sends[s].test THEN EndSend(s) ELSE GoOn(s, "count")
    /\ EmailOK
    /\ UNCHANGED <<suppressed, emailsSent, accepted, notices, receiving>>

incrementUsage(s) ==
    /\ sends[s].at = "count"
    /\ emailsSent' = emailsSent + 1
    /\ EndSend(s)
    /\ EmailOK
    /\ UNCHANGED <<mails, suppressed, accepted, notices, receiving>>

\* The catch around the submission: also of a mail that was taken.
recordFailed(s) ==
    /\ sends[s].at = "failed"
    /\ mails' = [mails EXCEPT ![sends[s].mail].status = "failed"]
    /\ EndSend(s)
    /\ EmailOK
    /\ UNCHANGED <<suppressed, emailsSent, accepted, notices, receiving>>

\* A statement rejects, or the API dies.
SendFails(s) ==
    /\ sends[s].at # "idle"
    /\ \/ EndSend(s)
       \/ sends[s].at \in {"record", "count"} /\ GoOn(s, "failed")
    /\ EmailFault
    /\ UNCHANGED <<mails, suppressed, emailsSent, accepted, notices, receiving>>

-----------------------------------------------------------------------------
(* POST /webhook/resend: the status of whatever mail has the id, then, for  *)
(* a bounce or a complaint, the suppression.                               *)

\* The mail of an id not yet recorded is unknown, and answered 200 too.
updateEmailDeliveryByProviderId(n) ==
    /\ n \in notices \ receiving
    /\ IF mails[n.mail].known
       THEN mails' = [mails EXCEPT ![n.mail].status = n.type] ELSE UNCHANGED mails
    /\ IF mails[n.mail].known /\ n.type \in Suppressing
       THEN receiving' = receiving \cup {n} /\ UNCHANGED notices /\ EmailOK
       ELSE /\ UNCHANGED receiving
            /\ \/ notices' = notices \ {n} /\ EmailOK
               \/ UNCHANGED notices /\ EmailFault
    /\ UNCHANGED <<suppressed, emailsSent, sends, accepted>>

insertEmailSuppression(n) ==
    /\ n \in receiving
    /\ suppressed' = suppressed \cup {mails[n.mail].to}
    /\ receiving' = receiving \ {n}
    /\ notices' = notices \ {n}
    /\ EmailOK
    /\ UNCHANGED <<mails, emailsSent, sends, accepted>>

\* Mutant: a failed insert is logged and the webhook answered 200.
MutSuppressionFails(n) ==
    /\ n \in receiving
    /\ receiving' = receiving \ {n}
    /\ notices' = notices \ {n}
    /\ EmailFault
    /\ UNCHANGED <<mails, suppressed, emailsSent, sends, accepted>>

\* 500: Resend delivers the webhook again.
SuppressionFails(n) ==
    /\ n \in receiving
    /\ receiving' = receiving \ {n}
    /\ EmailFault
    /\ UNCHANGED <<mails, suppressed, emailsSent, sends, accepted, notices>>

\* The customer confirms on the page a mail links to; the link never expires.
Unsubscribe(m) ==
    /\ m \in accepted
    /\ suppressed' = suppressed \cup {mails[m].to}
    /\ EmailOK
    /\ UNCHANGED <<mails, emailsSent, sends, accepted, notices, receiving>>

-----------------------------------------------------------------------------
SendStep(s) ==
    \/ \E to \in Recipients, test \in BOOLEAN : BeginSend(s, to, test)
    \/ isEmailSuppressed(s) \/ checkUsageQuota(s) \/ missingConfig(s)
    \/ insertEmailDelivery(s) \/ Submit(s) \/ recordSent(s) \/ incrementUsage(s)
    \/ recordFailed(s) \/ SendFails(s)

EmailNext ==
    \/ \E s \in Senders : SendStep(s)
    \/ \E n \in notices :
          \/ updateEmailDeliveryByProviderId(n)
          \/ insertEmailSuppression(n) \/ SuppressionFails(n)
    \/ \E m \in Mails : Unsubscribe(m)

EmailSpec == EmailInit /\ [][EmailNext]_emailVars

-----------------------------------------------------------------------------
EmailTypeOK ==
    /\ mails \in [Mails -> [to: Recipients \cup {"none"}, test: BOOLEAN,
          status: {"absent", "queued", "sent", "delivered", "bounced", "complained", "failed"},
          known: BOOLEAN]]
    /\ suppressed \subseteq Recipients
    /\ emailsSent \in Nat /\ emailFaults \in 0..MaxEmailFaults
    /\ sends \in [Senders -> [
          at: {"idle", "suppression", "quota", "insert", "submit", "record", "count", "failed"},
          to: Recipients \cup {"none"}, test: BOOLEAN, mail: Mails \cup {0},
          id: BOOLEAN]]
    /\ accepted \subseteq Mails
    /\ notices \subseteq [mail: Mails, type: UNION Fates]
    /\ receiving \subseteq notices

(* Concurrent sends overrun the plan's limit by at most the sends under way *)
(* besides the last one: each fault can leave one more mail uncounted.     *)
OverrunBounded ==
    Cardinality({m \in accepted : ~mails[m].test})
        <= EmailLimit + Cardinality(Senders) - 1 + emailFaults

(* A delivery that bounced or drew a complaint has its address suppressed,  *)
(* or a webhook is still to come back for it.                              *)
BounceSuppresses ==
    \A m \in Mails : mails[m].status \in Suppressing =>
        \/ mails[m].to \in suppressed
        \/ \E n \in notices : n.mail = m /\ n.type \in Suppressing

(* A delivery that arrived does not go back to sent.                       *)
DeliveredStays ==
    [][\A m \in Mails : mails[m].status = "delivered" => mails'[m].status # "sent"]_emailVars
=============================================================================
