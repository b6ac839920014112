-------------------------- MODULE MCAssistantTools --------------------------
(* The edits and the paths of the run of AssistantTools.                   *)
EXTENDS AssistantTools

CONSTANTS c1, c2, fix, bug, index, other

MCCalls == {c1, c2}
MCTools == {c1}
MCEdits == {fix, bug}
MCCode == {{}, {fix}, {bug}, {fix, bug}}
MCBuildable == {{}, {fix}}
MCTemplates == {{}}
MCTemplate == {}
MCWhole == {{}, {bug}}
=============================================================================
