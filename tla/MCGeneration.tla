---------------------------- MODULE MCGeneration ----------------------------
(***************************************************************************)
(* From a prompt to a bundle, side by side: the generation pipeline, the   *)
(* dashboard's page on top of it and the agents' command line.  Each       *)
(* behaviour runs the one that `component` names: the pipeline with two    *)
(* jobs and a fault, the page with two jobs one after the other, or the    *)
(* agents; the others stay as they began.                                  *)
(*                                                                         *)
(* The conjuncts of PipelineStep and DashboardStep are bounds.  The page   *)
(* is not deployed from; the servers' steps it cannot see run at once; a   *)
(* run is lost only before there is a second job, and a page that went     *)
(* astray starts none; one instance holds the streams, events may come to  *)
(* both.                                                                   *)
(***************************************************************************)
EXTENDS GenerationClient, GeneratorAgents

CONSTANTS a1, a2

VARIABLE component

MCSurfaces == [j \in Jobs |-> IF j = 1 THEN {"widget", "admin"} ELSE {"widget"}]

\* A success with its bundle or a failure without one.
Usual(m) == m.bundle <=> m.status = "success"

\* The servers have a step to take that the page does not see.
Inner == \/ \E m \in Messages : at[m] \in Handling
         \/ requests # {} \/ \E j \in Jobs : intake[j] = "inserted"

clientVars == <<page, query, history>>

-----------------------------------------------------------------------------
GenerationInit ==
    /\ component \in {"pipeline", "page", "agents"}
    /\ ClientInit
    /\ AgentsInit
    /\ component # "agents" => compiler

PipelineStep ==
    /\ component = "pipeline" /\ Next /\ losses' = 0
    /\ Cardinality(events') <= 1 /\ \A e \in events' \ events : e.kind # "step"
    /\ \A m \in Messages : at'[m] # "none" /\ m.job = 2 => Usual(m)
    /\ UNCHANGED <<component, clientVars, agentVars>>

DashboardStep ==
    /\ component = "page" /\ ClientNext /\ faults' = 0
    /\ deployAt' = deployAt
    /\ \A j \in Jobs : streams'[j] # a2
    /\ astray' => 2 \notin starting' /\ intake[2] = "none"
    /\ losses' # losses => intake[2] = "none"
    /\ \A m \in Messages : at'[m] # "none" => Usual(m)
    /\ Inner => <<at, requests, intake>>' # <<at, requests, intake>>
    /\ UNCHANGED <<component, agentVars>>

AgentsStep ==
    /\ component = "agents" /\ AgentsNext
    /\ UNCHANGED <<component, all>>

GenerationNext == PipelineStep \/ DashboardStep \/ AgentsStep

generationVars == <<component, all, agentVars>>

GenerationSpec == GenerationInit /\ [][GenerationNext]_generationVars

=============================================================================
