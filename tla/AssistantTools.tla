--------------------------- MODULE AssistantTools ---------------------------
(***************************************************************************)
(* Both sides of the assistant's tools: what apply_line_edits makes of the *)
(* edits in one call (LineEdits), and what its calls, and those of the     *)
(* other tools, do to the version store (CodeAssistant).  A behaviour is   *)
(* one or the other, as part says; an edit is an element of Edits in the   *)
(* second, and it is applied as the first says.                            *)
(***************************************************************************)
EXTENDS CodeAssistant

CONSTANTS Existing, Missing, MaxLines, BodySizes, MaxEdits  \* of LineEdits

ASSUME LineEditsAssumption == /\ Existing # Missing
                              /\ MaxLines \in Nat \ {0}
                              /\ BodySizes \subseteq Nat
                              /\ MaxEdits \in Nat \ {0}

VARIABLES
  part,
  text, edits, saved, outcome  \* of LineEdits, where text is files and saved is next

L == INSTANCE LineEdits WITH files <- text, next <- saved

lineVars == <<text, edits, saved, outcome>>

InitTools ==
  /\ part \in {"edits", "calls"}
  /\ InitAll
  /\ IF part = "edits" THEN L!Init ELSE text = << >> /\ edits = << >> /\ saved = << >> /\ outcome = "none"

Edit == part = "edits" /\ L!Next /\ UNCHANGED <<part, allVars>>
Calling == part = "calls" /\ NextAll /\ UNCHANGED <<part, lineVars>>

NextTools == Edit \/ Calling

SpecTools == InitTools /\ [][NextTools]_<<part, allVars, lineVars>>

-----------------------------------------------------------------------------
(* The properties of LineEdits; those of CodeAssistant keep their names.   *)

\* Separate edits land where they say, in whatever order (applyEdits).
EditsLandAsAddressed == part = "edits" => L!EditsLandAsAddressed

\* A call with a wrong edit changes nothing (applyEdits, apply_line_edits).
RefusedAsAWhole == part = "edits" => L!RefusedAsAWhole
=============================================================================
