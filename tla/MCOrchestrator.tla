--------------------------- MODULE MCOrchestrator ---------------------------
(* Small instances of Orchestrator for TLC.                                *)
EXTENDS Orchestrator

MCSubtasks == <<"c", "a", "b", "e">>
MCDependsOn == [a |-> {}, b |-> {}, c |-> {"a"}, e |-> {"a"}]
MCRawGroup == [a |-> "g", b |-> "g", c |-> "h", e |-> "h"]
MCContracted == {"a", "b", "c"}
MCBudget == [lines |-> 1, files |-> 1]
MCDiffLines == {1}

\* The instance is one the theorems of OrchestratorProofs are about.
ASSUME InstanceIsCovered == OneDriver /\ PlanIsSound
=============================================================================
