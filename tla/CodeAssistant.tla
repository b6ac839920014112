---------------------------- MODULE CodeAssistant ----------------------------
(***************************************************************************)
(* The tool calls of the code assistant (code-assistant.ts) on the version *)
(* store of its room, where the editor and other tool calls save and roll  *)
(* back too.  A tool is a chain of calls of AppHost with nothing held in   *)
(* between: read the live files, save the edited ones, ask for the status. *)
(*                                                                         *)
(* The code of a version is the set of edits it contains; what one edit    *)
(* does to the lines of a file is in LineEdits.  AppHost does not restart  *)
(* here: a call it drops makes the tool throw, and nothing is reported.    *)
(* Operators named X_Y are faulty variants of X that no action uses.       *)
(***************************************************************************)
EXTENDS AppVersions

CONSTANTS
  Tools,    \* the slots of Calls the assistant uses, one tool call at a time each
  Edits,    \* edits the model asks for
  Whole     \* bound: file sets that are saved whole, by save_version and the editor

ASSUME ToolsAssumption == Tools \subseteq Calls /\ Code = SUBSET Edits /\ Whole \subseteq Code /\ ~Crashes

VARIABLE tool  \* what each tool call remembers

allVars == <<vars, tool>>

NoTool == [at |-> "idle", base |-> {}, edit |-> None, version |-> 0, alone |-> FALSE, told |-> None]

\* alone is for the properties: no other call has moved the live pointer, changed
\* the status or upgraded the data since the tool call began.
Disturbs == <<activeVersion, status, dataVersion>>' # <<activeVersion, status, dataVersion>>

\* A step of the call c, whose own memory becomes mine.
StepOf(c, mine) == tool' = [t \in Tools |->
  IF t = c THEN mine ELSE IF Disturbs THEN [tool[t] EXCEPT !.alone = FALSE] ELSE tool[t]]

Free(t) == tool[t].at \in {"idle", "reported"} /\ call[t] = Idle

-----------------------------------------------------------------------------
(* The tools.                                                              *)

GetFiles_Newest == files[lastId]
GetFiles == files[activeVersion]

\* apply_line_edits reads the live files, as read_file does.
ReadFiles(t) ==
  /\ Free(t)
  /\ activeVersion # 0
  /\ StepOf(t, [NoTool EXCEPT !.at = "read", !.base = GetFiles, !.alone = TRUE])
  /\ UNCHANGED vars

Saving(t, edit) ==
  StepOf(t, [at |-> "saving", base |-> {}, edit |-> edit, version |-> lastId + 1,
             alone |-> tool[t].alone \/ edit = None, told |-> None])

\* It saves what it has read with the edit applied, if applyEdits accepts it.
ApplyLineEdits(t, edit) ==
  /\ tool[t].at = "read"
  /\ \/ SetFiles(t, tool[t].base \cup {edit}) /\ Saving(t, edit)
     \/ StepOf(t, NoTool) /\ UNCHANGED vars

\* save_version and reset_app look at nothing before they save.
SaveVersion(t, code) == Free(t) /\ SetFiles(t, code) /\ Saving(t, None)
ResetApp(t) == Free(t) /\ ResetToTemplate(t) /\ Saving(t, None)

RollbackTool(t, v) == Free(t) /\ Rollback(t, v) /\ StepOf(t, NoTool)

Built_VersionOnly(version) == activeVersion = version
Built(version) == status = "ready" /\ activeVersion = version

\* #outcome, once the save has answered.
Outcome(t) ==
  /\ tool[t].at = "saving"
  /\ call[t] = Idle
  /\ StepOf(t, [NoTool EXCEPT !.at = "reported", !.told = Built(tool[t].version)])
  /\ UNCHANGED vars

-----------------------------------------------------------------------------

ToolNext(t) ==
  \/ ReadFiles(t)
  \/ \E edit \in Edits : ApplyLineEdits(t, edit)
  \/ \E code \in Whole : SaveVersion(t, code)
  \/ ResetApp(t)
  \/ \E v \in VersionIds : RollbackTool(t, v)
  \/ Outcome(t)

\* The editor, through the API of the host.
EditorNext(c) ==
  /\ \/ \E t \in Templates : EnsureSeeded(c, t)
     \/ \E code \in Whole : SetFiles(c, code)
     \/ ResetToTemplate(c)
     \/ \E v \in VersionIds : Rollback(c, v)
  /\ StepOf(c, NoTool)

Resumes(c) == Resume(c) /\ IF c \in Tools THEN StepOf(c, tool[c]) ELSE StepOf(c, NoTool)

Flushes(id) == FlushReload(id) /\ UNCHANGED tool

NextAll ==
  \/ \E t \in Tools : ToolNext(t)
  \/ \E c \in Calls \ Tools : EditorNext(c)
  \/ \E c \in Calls : Resumes(c)
  \/ \E id \in ReloadIds : Flushes(id)
  \/ (GcVersions \/ OpenPage) /\ UNCHANGED tool

InitAll == Init /\ tool = [t \in Tools |-> NoTool]

SpecAll == InitAll /\ [][NextAll]_allVars

-----------------------------------------------------------------------------
(* Properties.                                                             *)

\* An edit that no other call disturbs is added to the live code, to nothing else
\* of a failed attempt for one, and if the result builds it is what goes live
\* (apply_line_edits).
UndisturbedEditsApply ==
  [][\A t \in Tools : tool[t].alone /\ tool'[t].edit # None =>
       /\ tool[t].at = "read" => files'[lastId'] = files[activeVersion] \cup {tool'[t].edit}
       /\ call[t].pc = "build" /\ call'[t].pc # "build" =>
            files'[activeVersion'] = IF call[t].code \in Buildable
              THEN files[activeVersion] \cup {tool[t].edit} ELSE files[activeVersion]]_allVars

\* The report of a tool call that no other call has disturbed.
UndisturbedReport(t) == tool[t].alone /\ tool[t].at = "saving" /\ tool'[t].at = "reported"

\* When an undisturbed call reports, its version is live exactly if it builds, and
\* it reports success exactly if the data was upgraded to that version as well
\* (setFiles, #outcome).  If the upgrade failed the version is live, while the report
\* calls the build failed and the version not applied.
UndisturbedSuccessIsReported ==
  [][\A t \in Tools : UndisturbedReport(t) =>
       LET version == tool[t].version
           good == version \in VersionIds /\ files[version] \in Buildable
       IN  /\ activeVersion = version <=> good
           /\ tool'[t].told = (good /\ dataVersion >= version)]_allVars
=============================================================================
