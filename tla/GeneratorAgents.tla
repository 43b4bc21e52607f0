---------------------------- MODULE GeneratorAgents ----------------------------
(***************************************************************************)
(* The agents that turn a merchant's request into an app, as the generation *)
(* CLI runs them (platform-ai: cli, subagents): product analysis, design,  *)
(* review, revision and coding, with the state file that lets a session    *)
(* resume where an earlier one stopped, failed or was killed.              *)
(*                                                                         *)
(* The models behind the agents are not in the repository: a turn answers  *)
(* anything.  A plan is the design it goes back to and how often it was    *)
(* revised; a scaffold is what the checks of done() tell apart.            *)
(***************************************************************************)
EXTENDS Naturals

CONSTANTS
    ProductAttempts, \* _MAX_ATTEMPTS
    DesignTurns,     \* DEFAULT_MAX_TURNS of the design loop
    ReviewTurns,     \* _MAX_TURNS of the reviewer
    CodingTurns,     \* DEFAULT_MAX_TURNS of the coding loop
    MaxDoneAttempts, \* MAX_DONE_ATTEMPTS
    MaxToolCalls,    \* bound: tool calls in one turn
    MaxSessions,     \* bound: times the CLI is started
    MaxAgentFaults   \* bound: sessions killed

ASSUME AgentAssumption ==
    /\ \A n \in {ProductAttempts, DesignTurns, ReviewTurns, CodingTurns,
                 MaxDoneAttempts, MaxToolCalls, MaxSessions} : n \in Nat \ {0}
    /\ MaxAgentFaults \in Nat

VARIABLES
    saved,       \* state.json
    loaded,      \* what main read of it at its start
    stage,       \* where main is; "off" when the CLI does not run
    stopAfter,   \* --stop-after
    interactive, \* stdin is a terminal
    plan,        \* main's plan
    turn,        \* of the loop under way
    pending,     \* tool calls of this turn left to dispatch
    scaffold,    \* what is under scaffold/: [sound, types]
    gate,        \* RunnerContext: [done, failed, forced]
    report,      \* incomplete_reason of the last coding run, "clean" when None
    compiler,    \* tsc can be started
    sessions, drafts, agentFaults

invocation == <<loaded, stopAfter, interactive, sessions>>
agentVars == <<saved, loaded, stage, stopAfter, interactive, plan, turn, pending,
               scaffold, gate, report, compiler, sessions, drafts, agentFaults>>

NoPlan     == [draft |-> 0, revisions |-> 0]
Unreviewed == [draft |-> 0, found |-> FALSE]
NewGate    == [done |-> FALSE, failed |-> 0, forced |-> FALSE]

(* intent, review, revised, done: the keys "intent", "hld_v_findings",     *)
(* "tokens_hld_revise", "coding_done_called"; torn: write_text was cut off *)
(* and the file no longer parses.                                          *)
NewRun == [intent |-> FALSE, plan |-> NoPlan, review |-> Unreviewed,
           revised |-> FALSE, done |-> FALSE, torn |-> FALSE]

AgentsInit ==
    /\ saved = NewRun /\ loaded = NewRun
    /\ stage = "off" /\ stopAfter = "never" /\ interactive = FALSE
    /\ plan = NoPlan /\ turn = 1 /\ pending = 0
    /\ scaffold = [sound |-> FALSE, types |-> TRUE]
    /\ gate = NewGate /\ report = "none"
    /\ compiler \in BOOLEAN
    /\ sessions = 0 /\ drafts = 0 /\ agentFaults = 0

-----------------------------------------------------------------------------
(* The sequence of phases: what main goes on with, given the keys l it     *)
(* loaded and where s it is to stop                                        *)

CodingStage(l, s) == IF s = "hld_v" \/ l.done THEN "off" ELSE "coding"

\* Mutant: revises whenever there are findings.
MutReviseStage(l, s, found) == IF found THEN "revise" ELSE CodingStage(l, s)

ReviseStage(l, s, found) ==
    IF found /\ ~l.revised THEN "revise" ELSE CodingStage(l, s)

ReviewStage(l, s) ==
    CASE s = "hld" -> "off"
      [] s # "hld" /\ l.review = Unreviewed -> "review"
      [] OTHER -> ReviseStage(l, s, l.review.found)

DesignStage(l, s) ==
    CASE s = "product" -> "off"
      [] s # "product" /\ l.plan = NoPlan -> "hld"
      [] OTHER -> ReviewStage(l, s)

FirstStage(l, s) == IF l.intent THEN DesignStage(l, s) ELSE "product"

\* A phase begins: a loop at its first turn, a new RunnerContext.
GoTo(next) ==
    stage' = next /\ turn' = 1 /\ pending' = 0 /\ gate' = NewGate /\ report' = "none"

\* main: a new run, or --resume; a file that does not parse ends the CLI.
Start ==
    /\ stage = "off" /\ sessions < MaxSessions /\ ~saved.torn
    /\ stopAfter' \in {"product", "hld", "hld_v", "never"}
    /\ interactive' \in BOOLEAN
    /\ loaded' = saved /\ plan' = saved.plan
    /\ GoTo(FirstStage(saved, stopAfter'))
    /\ sessions' = sessions + 1
    /\ UNCHANGED <<saved, scaffold, compiler, drafts, agentFaults>>

\* An agent that gives up ends the CLI; what it had is not saved.
GiveUp == GoTo("off") /\ UNCHANGED <<saved, plan, scaffold, drafts>>
Retry  == turn' = turn + 1
          /\ UNCHANGED <<saved, stage, plan, pending, scaffold, gate, report, drafts>>
Quiet  == UNCHANGED <<invocation, compiler, agentFaults>>

-----------------------------------------------------------------------------
(* Product analysis *)

SaveIntent ==
    /\ saved' = [saved EXCEPT !.intent = TRUE]
    /\ GoTo(DesignStage(loaded, stopAfter))
    /\ UNCHANGED <<plan, scaffold, drafts>>

\* Without a terminal: one question to the model, repeated until it parses.
run_product_agent ==
    /\ stage = "product" /\ ~interactive
    /\ \/ SaveIntent
       \/ turn < ProductAttempts /\ Retry
       \/ turn = ProductAttempts /\ GiveUp
    /\ Quiet

\* A conversation until the model is ready; what does not parse is a question.
run_product_agent_analyze ==
    /\ stage = "product" /\ interactive
    /\ stage' = "confirm"
    /\ UNCHANGED <<saved, plan, turn, pending, scaffold, gate, report, drafts>>
    /\ Quiet

\* The merchant confirms, cancels, or types a change.
run_product_analysis ==
    /\ stage = "confirm"
    /\ SaveIntent \/ GiveUp \/ (GoTo("product") /\ UNCHANGED <<saved, plan, scaffold, drafts>>)
    /\ Quiet

-----------------------------------------------------------------------------
(* Design, review, revision: one loop in three modes.  A turn that calls    *)
(* the mode's terminal tool with a valid output ends it, the last valid    *)
(* call counts; prose, a cut-off answer or the last turn end it without.   *)

TurnCap == IF stage = "review" THEN ReviewTurns ELSE DesignTurns

\* Catalog lookups, the terminal of another mode, an output that is not valid.
run_hld_loop ==
    /\ stage \in {"hld", "review", "revise"}
    /\ turn < TurnCap
    /\ Retry
    /\ Quiet

\* emit_hld_plan
Design ==
    /\ stage = "hld"
    /\ drafts' = drafts + 1
    /\ plan' = [draft |-> drafts', revisions |-> 0]
    /\ saved' = [saved EXCEPT !.plan = plan']
    /\ GoTo(ReviewStage(loaded, stopAfter))
    /\ UNCHANGED scaffold
    /\ Quiet

\* HLDValidationError, a plan whose feasibility is "blocked", an API error.
DesignFails ==
    /\ stage \in {"hld", "revise"}
    /\ GiveUp
    /\ Quiet

\* emit_hld_findings; a reviewer that fails is a reviewer that found nothing.
Review ==
    /\ stage = "review"
    /\ \E found \in BOOLEAN :
          /\ saved' = [saved EXCEPT !.review = [draft |-> plan.draft, found |-> found]]
          /\ GoTo(ReviseStage(loaded, stopAfter, found))
    /\ UNCHANGED <<plan, scaffold, drafts>>
    /\ Quiet

\* apply_edits: a copy of the prior plan, all edits applied or none.
apply_edits(prior) == [prior EXCEPT !.revisions = @ + 1]

\* patch_plan; plan and tokens_hld_revise are saved together.
Revise ==
    /\ stage = "revise"
    /\ plan' = apply_edits(plan)
    /\ saved' = [saved EXCEPT !.plan = plan', !.revised = TRUE]
    /\ GoTo(CodingStage(loaded, stopAfter))
    /\ UNCHANGED <<scaffold, drafts>>
    /\ Quiet

-----------------------------------------------------------------------------
(* Coding *)

\* The model calls tools, or stops: at its own will, or because it is cut off.
run_loop ==
    /\ stage = "coding"
    /\ \/ pending' \in 1 .. MaxToolCalls /\ stage' = "dispatch"
       \/ stage' = "final" /\ UNCHANGED pending
    /\ UNCHANGED <<saved, plan, turn, scaffold, gate, report, drafts>>
    /\ Quiet

Dispatch ==
    /\ stage = "dispatch" /\ pending > 0
    /\ pending' = pending - 1
    /\ UNCHANGED <<saved, stage, plan, turn, report, drafts>>
    /\ Quiet

\* write_file, edit_file: also after done(), in the same turn.
tool_write_file ==
    /\ Dispatch
    /\ scaffold' \in [sound : BOOLEAN, types : BOOLEAN]
    /\ UNCHANGED gate

\* The errors tsc prints: none when it cannot be started, its exit code is not read.
TypeErrors == compiler /\ ~scaffold.types

check_structural == scaffold.sound

\* Whether done() has findings; the last of its checks asks a model, and passes
\* when that fails.
run_done_gate == IF check_structural /\ ~TypeErrors THEN BOOLEAN ELSE {TRUE}

tool_done ==
    /\ Dispatch
    /\ \E issues \in run_done_gate :
          LET failed == gate.failed + 1
              force  == issues /\ failed >= MaxDoneAttempts
          IN  gate' = [done   |-> gate.done \/ ~issues \/ force,
                       failed |-> IF issues THEN failed ELSE gate.failed,
                       forced |-> gate.forced \/ force]
    /\ UNCHANGED scaffold

\* All calls of a turn are dispatched before done_called is looked at.
EndTurn ==
    /\ stage = "dispatch" /\ pending = 0
    /\ IF gate.done \/ turn = CodingTurns
       THEN stage' = "final" /\ UNCHANGED turn
       ELSE stage' = "coding" /\ turn' = turn + 1
    /\ UNCHANGED <<saved, plan, pending, scaffold, gate, report, drafts>>
    /\ Quiet

\* Mutant: the final check left out.
MutFinalErrors == {FALSE}

\* _run_final_tsc: a check that times out is an error.
FinalErrors == IF TypeErrors THEN {TRUE} ELSE BOOLEAN

\* run_coding_agent after its loop, and main: the report says what is wrong
\* with the scaffold, the state file only whether done() was accepted.
run_coding_agent ==
    /\ stage = "final"
    /\ \E errors \in FinalErrors :
          report' = IF ~gate.done \/ errors \/ gate.forced THEN "incomplete" ELSE "clean"
    /\ saved' = [saved EXCEPT !.done = gate.done]
    /\ stage' = "off" /\ turn' = 1 /\ gate' = NewGate
    /\ UNCHANGED <<plan, pending, scaffold, drafts>>
    /\ Quiet

-----------------------------------------------------------------------------
AgentFault == agentFaults < MaxAgentFaults /\ agentFaults' = agentFaults + 1

\* Ctrl-C, an API error while coding, a type check of done() that times out.
Die ==
    /\ stage # "off"
    /\ AgentFault /\ GoTo("off")
    /\ UNCHANGED <<saved, plan, scaffold, drafts, invocation, compiler>>

\* _save_state rewrites the file in place.
Tear ==
    /\ stage \in {"product", "confirm", "hld", "review", "revise", "final"}
    /\ AgentFault /\ GoTo("off")
    /\ saved' = [saved EXCEPT !.torn = TRUE]
    /\ UNCHANGED <<plan, scaffold, drafts, invocation, compiler>>

AgentsNext ==
    \/ Start
    \/ run_product_agent \/ run_product_agent_analyze \/ run_product_analysis
    \/ run_hld_loop \/ Design \/ DesignFails \/ Review \/ Revise
    \/ run_loop \/ tool_write_file \/ tool_done \/ EndTurn \/ run_coding_agent
    \/ Die \/ Tear

AgentsSpec == AgentsInit /\ [][AgentsNext]_agentVars

-----------------------------------------------------------------------------
Stages     == {"off", "product", "confirm", "hld", "review", "revise",
               "coding", "dispatch", "final"}
Plans      == [draft : 0 .. drafts, revisions : {0, 1}]
StateFiles == [intent : BOOLEAN, plan : Plans, review : [draft : 0 .. drafts, found : BOOLEAN],
               revised : BOOLEAN, done : BOOLEAN, torn : BOOLEAN]
Gates      == [done : BOOLEAN, failed : 0 .. CodingTurns * MaxToolCalls, forced : BOOLEAN]
TurnLimit  == CASE stage \in {"hld", "review", "revise"}     -> TurnCap
                [] stage \in {"coding", "dispatch", "final"} -> CodingTurns
                [] OTHER                                     -> ProductAttempts

AgentsTypeOK ==
    /\ drafts \in Nat
    /\ saved \in StateFiles /\ loaded \in StateFiles /\ plan \in Plans
    /\ stage \in Stages
    /\ stopAfter \in {"product", "hld", "hld_v", "never"} /\ interactive \in BOOLEAN
    /\ turn \in 1 .. TurnLimit
    /\ pending \in 0 .. MaxToolCalls
    /\ scaffold \in [sound : BOOLEAN, types : BOOLEAN] /\ compiler \in BOOLEAN
    /\ gate \in Gates
    /\ report \in {"none", "clean", "incomplete"}
    /\ sessions \in 0 .. MaxSessions /\ agentFaults \in 0 .. MaxAgentFaults

(* However often the CLI was stopped, killed and resumed: the app is coded *)
(* from the plan on file, that plan goes back to the design the reviewer   *)
(* saw, and it was revised once if the reviewer had findings, else never.  *)
PlanRevisedOnce ==
    stage \in {"coding", "dispatch", "final"} =>
        /\ plan = saved.plan
        /\ plan.draft = saved.review.draft
        /\ plan.revisions = IF saved.review.found THEN 1 ELSE 0

(* A coding run that reports nothing incomplete leaves a scaffold that type *)
(* checks, whatever the agent edited after done() accepted.                *)
CleanBuilds == report = "clean" /\ compiler => scaffold.types
================================================================================
