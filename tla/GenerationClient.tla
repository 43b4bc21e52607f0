-------------------------- MODULE GenerationClient --------------------------
(***************************************************************************)
(* The dashboard's generation page on top of GenerationPipeline: the       *)
(* useGeneration hook with its event stream, its polls and its two copies  *)
(* of the state, the page's hydration from the latest session and its      *)
(* generation card, and the API instances that fan progress events out to  *)
(* the streams they hold.  One page is open; going from one app's page to  *)
(* another's keeps the component, and with it the hook, mounted.           *)
(*                                                                         *)
(* `ui` is what React renders; `ref` is the status in stateRef, which only *)
(* _setState updates.  Drops of a stream and failing polls are not         *)
(* bounded: the front end ends its streams after timeoutSeconds anyway.    *)
(***************************************************************************)
EXTENDS GenerationPipeline

CONSTANTS
    Instances,      \* instances of the API
    NoInstance,
    PollAttempts,   \* length of RETRY_DELAYS (4)
    MaxReconnects   \* reconnects an opened stream may use (2)

ASSUME ClientAssumption ==
    /\ NoInstance \notin Instances
    /\ PollAttempts \in Nat \ {0} /\ MaxReconnects \in Nat

VARIABLES
    ui,          \* rendered state: [status, job, error]
    ref,         \* stateRef.current.status
    streams,     \* [Jobs -> the instance its open EventSource is on]
    esRef,       \* the job of the stream esRef holds, 0 if null
    polls,       \* [Jobs -> attempts its pollWithRetry has left]
    reconnects,
    starting,    \* jobs whose start or revise request is awaited
    cancelling,  \* jobs whose cancel request is awaited
    card,        \* the generation card in the chat
    session,     \* latestSessionQuery.data: [job, status], job 0 if null
    hydrated,
    explained,   \* history: jobs of which a run reported its explanation
    astray       \* history: the page went on while a call of it did too

page  == <<ui, ref, streams, esRef, polls, reconnects, starting, cancelling, card>>
query == <<session, hydrated>>
history == <<explained, astray>>
all   == <<vars, page, query, history>>

Initial == [status |-> "idle", job |-> 0, error |-> "none"]
NoSession == [job |-> 0, status |-> "absent"]

Phases == {"idle", "running", "completed", "failed"}
Errors == {"none", "cancelled", "failed", "auth", "lost", "refused"}
Cards  == {"none", "generating", "loading", "ready", "empty", "failed", "cancelled"}

ClientTypeOK ==
    /\ TypeOK
    /\ ui \in [status : Phases, job : Jobs \cup {0}, error : Errors]
    /\ ref \in Phases
    /\ streams \in [Jobs -> Instances \cup {NoInstance}]
    /\ esRef \in Jobs \cup {0}
    /\ polls \in [Jobs -> 0 .. PollAttempts]
    /\ reconnects \in 0 .. MaxReconnects
    /\ starting \subseteq Jobs /\ cancelling \subseteq Jobs
    /\ card \in Cards
    /\ session \in [job : Jobs \cup {0}, status : Statuses]
    /\ hydrated \in BOOLEAN
    /\ explained \subseteq Jobs /\ astray \in BOOLEAN

ClientInit ==
    /\ Init
    /\ ui = Initial /\ ref = "idle"
    /\ streams = [j \in Jobs |-> NoInstance]
    /\ esRef = 0
    /\ polls = [j \in Jobs |-> 0]
    /\ reconnects = 0 /\ starting = {} /\ cancelling = {} /\ card = "none"
    /\ session = NoSession /\ hydrated = FALSE
    /\ explained = {} /\ astray = FALSE

Closed == IF esRef = 0 THEN streams ELSE [streams EXCEPT ![esRef] = NoInstance]

\* What goes on of the hook's calls when the page turns to something else.
Calling(j) ==
    polls[j] > 0 \/ j \in starting \cup cancelling \/ (streams[j] # NoInstance /\ j # esRef)
GoesOn == astray' = (astray \/ \E j \in Jobs : Calling(j))

\* The page's effect on a change of gen.status.
CardAfter(status, error) ==
    CASE ui.status # "running" -> card
      [] status = "completed"  -> IF ui.job = 0 THEN card ELSE "loading"
      [] status = "failed"     -> IF error = "cancelled" THEN "cancelled" ELSE "failed"
      [] OTHER                 -> card

Show(status, error) ==
    /\ ui' = [ui EXCEPT !.status = status, !.error = error]
    /\ card' = CardAfter(status, error)

\* _setState: the ref follows.
SetState(status, error) == Show(status, error) /\ ref' = status

-----------------------------------------------------------------------------
(* Starting, revising, stopping *)

\* start and startRevision: plain setState.  The input and the retry button
\* are there whenever nothing is running.
Begin(j) ==
    /\ ui.status # "running" /\ intake[j] = "none" /\ j \notin starting
    /\ \A k \in Jobs : k < j => intake[k] # "none" \/ k \in starting
    /\ streams' = Closed
    /\ reconnects' = 0
    /\ ui' = [Initial EXCEPT !.status = "running"]
    /\ card' = "generating"
    /\ starting' = starting \cup {j}
    /\ UNCHANGED <<vars, ref, esRef, polls, cancelling, query, history>>

\* 202: the job is known and its stream opened on some instance; without a
\* token progressStream throws.
Started(j) ==
    /\ j \in starting /\ intake[j] = "accepted"
    /\ starting' = starting \ {j}
    /\ \/ \E i \in Instances : streams' = [streams EXCEPT ![j] = i]
          /\ esRef' = j
          /\ ui' = [ui EXCEPT !.job = j]
          /\ UNCHANGED <<ref, card>>
       \/ /\ ui' = [ui EXCEPT !.job = j, !.status = "failed", !.error = "auth"]
          /\ card' = CardAfter("failed", "auth")
          /\ ref' = "failed"
          /\ UNCHANGED <<streams, esRef>>
    /\ UNCHANGED <<vars, polls, reconnects, cancelling, query, history>>

StartRejected(j) ==
    /\ j \in starting /\ intake[j] = "rejected"
    /\ starting' = starting \ {j}
    /\ Show("failed", "refused")
    /\ UNCHANGED <<vars, ref, streams, esRef, polls, reconnects, cancelling, query, history>>

\* cancel: closes the stream and asks the API.
Stop ==
    /\ ui.status = "running" /\ ui.job # 0
    /\ streams' = Closed /\ esRef' = 0
    /\ cancelling' = cancelling \cup {ui.job}
    /\ GoesOn
    /\ UNCHANGED <<vars, ui, ref, polls, reconnects, starting, card, query, explained>>

\* The API has cancelled, or its error is ignored: plain setState whatever the
\* page shows by then, and a poll loop that is waiting is not told.
Cancelled(j) ==
    /\ j \in cancelling
    /\ Cancel(j) \/ UNCHANGED vars
    /\ cancelling' = cancelling \ {j}
    /\ Show("failed", "cancelled")
    /\ UNCHANGED <<ref, streams, esRef, polls, reconnects, starting, query, history>>

-----------------------------------------------------------------------------
(* The stream: progress-subscriber, progressHandler, onmessage and onerror *)

\* Instance i pulls and acknowledges the event; only its own streams see it.
\* "failed" of any agent and "explained" end the stream, with the error the
\* row has by now.
Receive(e, i) ==
    /\ Pull(e)
    /\ \/ /\ streams[e.job] # i
          /\ UNCHANGED page
       \/ /\ streams[e.job] = i /\ e.kind = "step"
          /\ ref' = ui.status
          /\ UNCHANGED <<ui, streams, esRef, polls, reconnects, starting, cancelling, card>>
       \/ /\ streams[e.job] = i /\ e.kind # "step"
          /\ streams' = [streams EXCEPT ![e.job] = NoInstance]
          /\ esRef' = 0
          /\ SetState(IF e.kind = "explained" THEN "completed" ELSE "failed",
                      row[e.job].error)
          /\ UNCHANGED <<polls, reconnects, starting, cancelling>>
    /\ UNCHANGED <<query, history>>

\* onerror: the guard reads the ref.  Unless it is "running" the EventSource is
\* left alone and the browser reconnects it.
Drop(j) ==
    /\ streams[j] # NoInstance
    /\ \/ /\ ref # "running"
          /\ \E i \in Instances : streams' = [streams EXCEPT ![j] = i]
          /\ UNCHANGED <<esRef, polls>>
       \/ /\ ref = "running"
          /\ streams' = [streams EXCEPT ![j] = NoInstance]
          /\ esRef' = 0
          /\ polls' = [polls EXCEPT ![j] = PollAttempts]
    /\ UNCHANGED <<vars, ui, ref, reconnects, starting, cancelling, card, query, history>>

\* resultHandler: the bundle of a row is null while it has no path, and when
\* its download fails.
PollAnswered(j) ==
    /\ polls[j] > 0 /\ ref = "running"
    /\ \E bundle \in {FALSE, row[j].path /\ j \in stored} :
          SetState(IF bundle THEN "completed" ELSE "failed",
                   IF bundle THEN "none"
                   ELSE IF row[j].error = "none" THEN "failed" ELSE row[j].error)
    /\ polls' = [polls EXCEPT ![j] = 0]
    /\ UNCHANGED <<vars, streams, esRef, reconnects, starting, cancelling, query, history>>

PollUnauthorized(j) ==
    /\ polls[j] > 0 /\ ref = "running"
    /\ SetState("failed", "auth")
    /\ polls' = [polls EXCEPT ![j] = 0]
    /\ UNCHANGED <<vars, streams, esRef, reconnects, starting, cancelling, query, history>>

PollBails(j) ==
    /\ polls[j] > 0 /\ ref # "running"
    /\ polls' = [polls EXCEPT ![j] = 0]
    /\ UNCHANGED <<vars, ui, ref, streams, esRef, reconnects, starting, cancelling, card,
                   query, history>>

\* A network error; after the last attempt one more stream, or the end.
PollErrs(j) ==
    /\ polls[j] > 0 /\ ref = "running"
    /\ polls' = [polls EXCEPT ![j] = @ - 1]
    /\ \/ /\ polls[j] > 1
          /\ UNCHANGED <<ui, ref, card, streams, esRef, reconnects>>
       \/ /\ polls[j] = 1 /\ reconnects < MaxReconnects
          /\ reconnects' = reconnects + 1
          /\ \E i \in Instances : streams' = [streams EXCEPT ![j] = i]
          /\ esRef' = j
          /\ UNCHANGED <<ui, ref, card>>
       \/ /\ polls[j] = 1 /\ reconnects = MaxReconnects
          /\ SetState("failed", "lost")
          /\ UNCHANGED <<streams, esRef, reconnects>>
    /\ UNCHANGED <<vars, starting, cancelling, query, history>>

-----------------------------------------------------------------------------
(* The page *)

LatestSession ==
    IF \A j \in Jobs : row[j].status = "absent" THEN NoSession
    ELSE LET j == CHOOSE k \in Jobs : /\ row[k].status # "absent"
                                      /\ \A l \in Jobs : l > k => row[l].status = "absent"
         IN [job |-> j, status |-> row[j].status]

\* The status effect loads the result of a completed generation into its card.
ShowResult ==
    /\ card = "loading"
    /\ card' \in {IF row[ui.job].path /\ ui.job \in stored THEN "ready" ELSE "empty", "failed"}
    /\ UNCHANGED <<vars, ui, ref, streams, esRef, polls, reconnects, starting, cancelling,
                   query, history>>

\* Mutant of Navigate: reset() forgets the stream without closing it.
MutNavigate ==
    /\ ui' = Initial /\ ref' = "idle" /\ esRef' = 0
    /\ card' = "none"
    /\ session' = LatestSession /\ hydrated' = FALSE
    /\ GoesOn
    /\ UNCHANGED <<vars, streams, polls, reconnects, starting, cancelling, explained>>

\* The route's app changes: the layout effect resets the hook of the mounted
\* page; its requests, waiting polls and their reconnects go on.
Navigate ==
    /\ ui' = Initial /\ ref' = "idle"
    /\ streams' = Closed /\ esRef' = 0
    /\ card' = "none"
    /\ session' = LatestSession /\ hydrated' = FALSE
    /\ GoesOn
    /\ UNCHANGED <<vars, polls, reconnects, starting, cancelling, explained>>

Refetch ==
    /\ session' = LatestSession
    /\ UNCHANGED <<vars, page, hydrated, history>>

\* The page knows the statuses running, completed, failed and cancelled; of
\* those the API writes only failed, so nothing else is ever hydrated.
Hydrate ==
    /\ ~hydrated /\ session.status = "failed"
    /\ hydrated' = TRUE
    /\ streams' = Closed
    /\ ui' = [status |-> "failed", job |-> session.job, error |-> "failed"]
    /\ ref' = "failed"
    /\ card' = CardAfter("failed", "failed")
    /\ GoesOn
    /\ UNCHANGED <<vars, esRef, polls, reconnects, starting, cancelling, session, explained>>

PageStep ==
    \/ \E j \in Jobs :
          \/ Begin(j) \/ Started(j) \/ StartRejected(j) \/ Cancelled(j) \/ Drop(j)
          \/ PollAnswered(j) \/ PollUnauthorized(j) \/ PollBails(j) \/ PollErrs(j)
    \/ Stop \/ ShowResult \/ Navigate \/ Refetch \/ Hydrate

\* The API serves the requests of the page; everything else is as before.
ServerStep ==
    /\ \/ \E j \in starting : Accept(j) \/ Refuse(j)
       \/ \E j \in Jobs : Publish(j) \/ PublishFails(j) \/ Deliver(j) \/ Report(j)
       \/ \E m \in Messages : MessageStep(m)
       \/ \E j \in Jobs, r \in Routes : DeployStep(j, r)
    /\ UNCHANGED <<page, query, history>>

RunEnds(j) ==
    /\ Finish(j) \/ RunLost(j)
    /\ explained' = explained \cup
          {e.job : e \in {x \in events' \ events : x.kind = "explained"}}
    /\ UNCHANGED <<page, query, astray>>

ClientNext ==
    \/ ServerStep
    \/ \E j \in Jobs : RunEnds(j)
    \/ \E e \in Events, i \in Instances : Receive(e, i)
    \/ PageStep

ClientSpec == ClientInit /\ [][ClientNext]_all

-----------------------------------------------------------------------------
(* A page that shows its job as finished has seen a run explain that very  *)
(* job or its bundle stored, through dropped streams, browser reconnects,  *)
(* polls, stops and one job after another - unless the page once turned to *)
(* something else (a stop, another app, the restored session) while a poll *)
(* or a request of its own was out: the hook's calls do not say whose they *)
(* are, and a poll left behind then finishes the next job.                 *)
NoFalseSuccess ==
    ui.status = "completed" /\ ~astray => ui.job \in explained \cup stored

(* useGeneration.ts: "Poll the server with retries - the backend may still *)
(* be running [...] A single poll would false-fail healthy slow             *)
(* generations": a poll does not fail a generation the server still has as  *)
(* pending.                                                                 *)
HealthyIsNotFailed ==
    [][\A j \in Jobs :
          PollAnswered(j) /\ row[j].status = "pending" => ui'.status # "failed"]_all
=============================================================================
