----------------------- MODULE AssistantTools_proofs -----------------------
(***************************************************************************)
(* The assistant's tools on the version store, and the edits of one call.  *)
(*                                                                         *)
(* The tools make no other steps of the store than AppVersions allows, so  *)
(* its invariant holds of them.  ToolIInv adds what a tool call relies on  *)
(* between its calls of the store, where it holds nothing: as long as      *)
(* nobody disturbs it, what it has read is the live code, and once its     *)
(* save answers, its version is live exactly if it builds, and ready       *)
(* exactly if the data was upgraded too.  EditIInv says what is refused,   *)
(* and where accepted edits land, in terms of the edits.                   *)
(***************************************************************************)
EXTENDS AssistantTools, AppVersions_proofs, OperatorLemmas, SequenceTheorems

-----------------------------------------------------------------------------
(* The tools on the version store.                                         *)

\* A step of the store that moves no other call than c.
Moves(c) == \E r : call' = [call EXCEPT ![c] = r]

\* A call of AppHost begins or goes on.
CallSteps(c) ==
  \/ \E t \in Templates : EnsureSeeded(c, t)
  \/ \E code \in Code : SetFiles(c, code)
  \/ ResetToTemplate(c)
  \/ \E v \in VersionIds : Rollback(c, v)
  \/ Resume(c)

\* A reload that is scheduled, or not, is a step of its call.
LEMMA ScheduleMoves ==
  ASSUME NEW c \in Calls,
         \/ ScheduleReload(c)
         \/ \E prev, version : ReloadOrReturn(c, prev, version)
  PROVE  Moves(c)
BY DEF ScheduleReload, ReloadOrReturn, ReloadIf, BroadcastReload, Return, Suspend, Moves

\* Whatever a call does, the other calls stay where they are.
LEMMA CallMoves == ASSUME NEW c \in Calls, CallSteps(c) PROVE Moves(c)
<1>1. ASSUME Resume(c) PROVE Moves(c)
  <2>1. CASE BuildOk(c)
    BY <2>1, ScheduleMoves DEF BuildOk, Suspend, Moves
  <2>2. CASE UpgradeOk(c) \/ UpgradeFailed(c) \/ Validated(c) \/ ReloadCancelled(c)
    BY <2>2, ValidatedReloads, ScheduleMoves DEF UpgradeOk, UpgradeFailed, ReloadCancelled
  <2>3. CASE SeedBuilt(c) \/ BuildFailed(c) \/ ReloadScheduled(c)
    BY <2>3 DEF SeedBuilt, BuildFailed, ReloadScheduled, Return, Suspend, Moves
  <2> QED BY <1>1, <2>1, <2>2, <2>3 DEF Resume
<1>2. CASE \E t \in Templates : EnsureSeeded(c, t)
  BY <1>2 DEF EnsureSeeded, Suspend, Moves
<1>3. CASE (\E code \in Code : SetFiles(c, code)) \/ ResetToTemplate(c)
  BY <1>3 DEF SetFiles, ResetToTemplate, Suspend, Moves
<1>4. CASE \E v \in VersionIds : Rollback(c, v)
  BY <1>4 DEF Rollback, Suspend, Moves
<1> QED BY <1>1, <1>2, <1>3, <1>4 DEF CallSteps

\* Ids are not used anew, and the files of a version that stays are what they were.
StoreGrows ==
  /\ lastId <= lastId'
  /\ \A v \in VersionIds' : v <= lastId => v \in VersionIds /\ files'[v] = files[v]

\* A new version gets an id nobody has had.
LEMMA InsertGrows ==
  ASSUME IInv, NEW code, InsertVersion(code)
  PROVE  StoreGrows
BY DEF IInv, TypeOK, InsertVersion, StoreGrows, VersionIds

\* Steps that store nothing keep what is stored.
LEMMA SameFilesGrow == ASSUME IInv, UNCHANGED <<lastId, files>> PROVE StoreGrows
BY DEF IInv, TypeOK, StoreGrows, VersionIds

\* Every step of the store.
LEMMA StoreStep == ASSUME IInv, [Next]_vars PROVE IInv' /\ StoreGrows
<1>1. IInv'
  BY StepPreserves
<1>2. ASSUME NEW c \in Calls, CallSteps(c) PROVE StoreGrows
  <2>1. CASE Resume(c)
    BY <2>1, SameFilesGrow
    DEF Resume, SeedBuilt, BuildOk, BuildFailed, UpgradeOk, UpgradeFailed, Validated,
        ReloadCancelled, ReloadScheduled, tables
  <2>2. CASE \E v \in VersionIds : Rollback(c, v)
    BY <2>2, SameFilesGrow DEF Rollback, tables
  <2>3. CASE \/ \E t \in Templates : EnsureSeeded(c, t)
             \/ \E code \in Code : SetFiles(c, code)
             \/ ResetToTemplate(c)
    BY <2>3, InsertGrows DEF EnsureSeeded, SetFiles, ResetToTemplate
  <2> QED BY <1>2, <2>1, <2>2, <2>3 DEF CallSteps
<1>3. CASE GcVersions
  <2>1. VersionIds' \subseteq VersionIds /\ \A v \in VersionIds' : files'[v] = files[v]
    BY <1>3 DEF GcVersions, VersionIds, PruneVersions, NewestIds
  <2>2. lastId \in Nat /\ lastId' = lastId
    BY <1>3 DEF GcVersions, IInv, TypeOK
  <2> QED BY <1>1, <2>1, <2>2 DEF StoreGrows
<1>4. CASE (\E id \in ReloadIds : FlushReload(id)) \/ OpenPage \/ Restart \/ UNCHANGED vars
  <2>1. UNCHANGED <<lastId, files>>
    BY <1>4 DEF FlushReload, OpenPage, Restart, tables, vars
  <2> QED BY <1>1, <2>1, SameFilesGrow
<1> QED BY <1>1, <1>2, <1>3, <1>4 DEF Next, CallSteps

\* A version whose pointer has not moved has the files it had.
LEMMA LiveFilesStay ==
  ASSUME IInv, IInv', StoreGrows, activeVersion' = activeVersion, activeVersion # 0
  PROVE  files'[activeVersion] = files[activeVersion]
<1>1. activeVersion \in VersionIds' /\ activeVersion <= lastId
  BY DEF IInv, TypeOK, LiveVersionHasFiles
<1> QED BY <1>1 DEF StoreGrows

\* Builds keep the files of their version: they read them before they wait, and
\* gcVersions spares what is recent.
LEMMA BuildsKeepFiles ==
  ASSUME IInv, BuildsOwnFiles, [Next]_vars
  PROVE  BuildsOwnFiles'
<1>1. IInv' /\ StoreGrows
  BY StoreStep
<1>2. ASSUME NEW d \in Calls, call'[d] = call[d], call[d].pc \in {"seed", "build"}
      PROVE  call'[d].code = files'[call'[d].version]
  <2>1. call[d].version \in VersionIds /\ call[d].version \in 1 .. lastId
    BY <1>2, BuildsAreStored
  <2>2. call[d].version \in VersionIds'
    <3>1. call'[d].pc \in {"seed", "build"} => call'[d].version \in VersionIds'
      <4> USE <1>1
      <4>1. lastId' \in Nat /\ call'[d] \in CallRecord
        BY DEF IInv, TypeOK
      <4>2. call'[d].pc \in {"seed", "build"} =>
              call'[d].version \in 1 .. lastId' /\ lastId' - call'[d].version < Keep
        BY <4>1 DEF IInv, CallsNameVersions, CallRecord
      <4> QED BY <4>2 DEF IInv, UndoHistoryIsComplete
    <3> QED BY <1>2, <3>1
  <2>3. files'[call[d].version] = files[call[d].version]
    BY <1>1, <2>1, <2>2 DEF StoreGrows, IInv, TypeOK
  <2> QED BY <1>2, <2>3 DEF BuildsOwnFiles
<1>3. ASSUME NEW c \in Calls, CallSteps(c) PROVE BuildsOwnFiles'
  <2>0. call \in [Calls -> CallRecord] /\ Moves(c)
    BY <1>3, CallMoves DEF IInv, TypeOK
  <2>1. \A d \in Calls : d # c => call'[d] = call[d]
    BY <2>0 DEF Moves
  <2>2. call'[c].pc \in {"seed", "build"} => call'[c].code = files'[call'[c].version]
    <3>1. CASE Resume(c)
      <4>1. call'[c].pc \notin {"seed", "build"}
        <5>1. ASSUME \/ ScheduleReload(c)
                     \/ \E prev, version : ReloadOrReturn(c, prev, version)
              PROVE  call'[c].pc \notin {"seed", "build"}
          <6>1. PICK r : Settled(r) /\ call' = [call EXCEPT ![c] = r]
            BY <5>1, ReloadSettles DEF IInv
          <6> QED BY <2>0, <6>1 DEF Settled
        <5>2. CASE BuildOk(c)
          BY <2>0, <5>1, <5>2 DEF BuildOk, Suspend, Awaiting
        <5>3. CASE UpgradeOk(c) \/ UpgradeFailed(c) \/ Validated(c) \/ ReloadCancelled(c)
          BY <5>1, <5>3, ValidatedReloads DEF UpgradeOk, UpgradeFailed, ReloadCancelled
        <5>4. CASE SeedBuilt(c) \/ BuildFailed(c) \/ ReloadScheduled(c)
          BY <2>0, <5>4 DEF SeedBuilt, BuildFailed, ReloadScheduled, Return, Suspend, Idle, Awaiting
        <5> QED BY <3>1, <5>2, <5>3, <5>4 DEF Resume
      <4> QED BY <4>1
    <3>2. CASE \E v \in VersionIds : Rollback(c, v)
      BY <2>0, <3>2 DEF Rollback, Suspend, Awaiting
    <3>3. CASE \/ \E t \in Templates : EnsureSeeded(c, t)
               \/ \E code \in Code : SetFiles(c, code)
               \/ ResetToTemplate(c)
      <4>1. PICK code, pc : /\ InsertVersion(code)
                            /\ Suspend(c, Awaiting(pc, lastId + 1, code, 0, None))
        BY <3>3 DEF EnsureSeeded, SetFiles, ResetToTemplate
      <4>2. files'[lastId + 1] = code
        BY <4>1 DEF InsertVersion
      <4> QED BY <2>0, <4>1, <4>2 DEF Suspend, Awaiting
    <3> QED BY <1>3, <3>1, <3>2, <3>3 DEF CallSteps
  <2>3. ASSUME NEW d \in Calls, call'[d].pc \in {"seed", "build"}
        PROVE  call'[d].code = files'[call'[d].version]
    <3>1. CASE d = c
      BY <2>2, <2>3, <3>1
    <3>2. CASE d # c
      BY <1>2, <2>1, <2>3, <3>2
    <3> QED BY <3>1, <3>2
  <2> QED BY <2>3 DEF BuildsOwnFiles
<1>4. CASE Restart
  BY <1>4 DEF Restart, BuildsOwnFiles, Idle, Awaiting
<1>5. CASE GcVersions \/ (\E id \in ReloadIds : FlushReload(id)) \/ OpenPage \/ UNCHANGED vars
  <2>1. call' = call
    BY <1>5 DEF GcVersions, FlushReload, OpenPage, vars
  <2> QED BY <1>2, <2>1 DEF BuildsOwnFiles
<1> QED BY <1>3, <1>4, <1>5 DEF Next, CallSteps

-----------------------------------------------------------------------------
(* What a tool call remembers.                                             *)

\* The fields of a tool call.
IsTool(r) == r = [at |-> r.at, base |-> r.base, edit |-> r.edit,
                  version |-> r.version, alone |-> r.alone, told |-> r.told]

\* What the version of a save has come to.
IsLive(version) == status = "ready" /\ activeVersion = version
Builds(version) == version \in VersionIds /\ files[version] \in Buildable
HasBuilt(version) == Builds(version) /\ dataVersion >= version

\* A tool that has read the live files is in no call of the store; one that saves
\* waits for the version it has stored.  If nobody has disturbed it, what it has read
\* is still live until its own version is, and the status speaks of that version once
\* the save answers.
IsSaving(t) ==
  /\ tool[t].version \in 1 .. lastId
  /\ call[t].pc \in {"build", "upgrade", "cancel", "schedule", "idle"}
  /\ call[t].pc \in {"build", "upgrade"} => call[t].version = tool[t].version
  /\ tool[t].alone =>
       /\ call[t].pc = "build" => activeVersion # tool[t].version
       /\ call[t].pc = "build" /\ tool[t].edit # None =>
            activeVersion # 0 /\ call[t].code = files[activeVersion] \cup {tool[t].edit}
       /\ call[t].pc = "upgrade" =>
            /\ IsLive(tool[t].version) /\ files[tool[t].version] \in Buildable
            /\ tool[t].version > dataVersion
       /\ call[t].pc \in {"cancel", "schedule", "idle"} =>
            /\ activeVersion = tool[t].version <=> Builds(tool[t].version)
            /\ IsLive(tool[t].version) <=> HasBuilt(tool[t].version)

\* A tool that has read the live files.
HasRead(t) ==
  /\ call[t].pc = "idle"
  /\ tool[t].base \in Code
  /\ tool[t].alone => activeVersion # 0 /\ tool[t].base = files[activeVersion]

\* What a tool call remembers is true.
ToolIsSound(t) ==
  /\ IsTool(tool[t])
  /\ tool[t].at # "saving" => tool[t].edit = None
  /\ tool[t].at = "read" => HasRead(t)
  /\ tool[t].at = "saving" => IsSaving(t)

\* The inductive invariant.
ToolIInv ==
  /\ IInv /\ BuildsOwnFiles
  /\ DOMAIN tool = Tools
  /\ \A t \in Tools : ToolIsSound(t)

\* Code with one edit more is code.
LEMMA SavesCode == ASSUME NEW base \in Code, NEW edit \in Edits PROVE base \cup {edit} \in Code
BY ToolsAssumption

\* A tool whose own call does not move stays sound: another's step either leaves
\* the live version, the status and the data as they are, or is noticed.
LEMMA OthersStaySound ==
  ASSUME ToolIInv, IInv', StoreGrows, NEW t \in Tools, call'[t] = call[t],
         \/ tool'[t] = tool[t] /\ ~Disturbs
         \/ tool'[t] = IF Disturbs THEN [tool[t] EXCEPT !.alone = FALSE] ELSE tool[t]
  PROVE  ToolIsSound(t)'
<1>0. ToolIsSound(t) /\ IInv
  BY DEF ToolIInv
<1>1. /\ IsTool(tool'[t])
      /\ tool'[t].at = tool[t].at /\ tool'[t].base = tool[t].base
      /\ tool'[t].edit = tool[t].edit /\ tool'[t].version = tool[t].version
      /\ tool'[t].alone => tool[t].alone /\ ~Disturbs
  <2>1. PICK r : r = tool[t] /\ r = [at |-> r.at, base |-> r.base, edit |-> r.edit,
                  version |-> r.version, alone |-> r.alone, told |-> r.told]
    BY <1>0 DEF ToolIsSound, IsTool
  <2>2. CASE tool'[t] = r /\ ~Disturbs
    BY <2>1, <2>2 DEF IsTool
  <2>3. CASE Disturbs /\ tool'[t] = [r EXCEPT !.alone = FALSE]
    <3>1. tool'[t] = [at |-> r.at, base |-> r.base, edit |-> r.edit,
                      version |-> r.version, alone |-> FALSE, told |-> r.told]
      BY <2>1, <2>3
    <3> QED BY <2>1, <3>1 DEF IsTool
  <2> QED BY <2>1, <2>2, <2>3
<1>2. ~Disturbs => UNCHANGED <<activeVersion, status, dataVersion>>
  BY DEF Disturbs
<1>3. ~Disturbs /\ activeVersion # 0 => files'[activeVersion'] = files[activeVersion]
  BY <1>0, <1>2, LiveFilesStay
<1>4. tool[t].at = "read" => HasRead(t)'
  BY <1>0, <1>1, <1>2, <1>3 DEF ToolIsSound, HasRead
<1>5. ASSUME tool[t].at = "saving" PROVE IsSaving(t)'
  <2>0. PICK v : v = tool[t].version
    OBVIOUS
  <2>1. IsSaving(t) /\ v \in 1 .. lastId /\ lastId \in Nat /\ lastId <= lastId' /\ lastId' \in Nat
    BY <1>0, <1>5, <2>0 DEF ToolIsSound, IsSaving, StoreGrows, IInv, TypeOK
  <2>2. v \in VersionIds' => v \in VersionIds /\ files'[v] = files[v]
    BY <2>1 DEF StoreGrows
  <2>3. Builds(v)' => Builds(v)
    BY <2>2 DEF Builds
  <2>4. ~Disturbs /\ activeVersion = v => v \in VersionIds' /\ files'[v] = files[v]
    <3>1. ~Disturbs /\ activeVersion = v => activeVersion' = v /\ v # 0
      BY <1>2, <2>1
    <3>2. IInv' => (activeVersion' # 0 => activeVersion' \in VersionIds')
      BY DEF IInv, LiveVersionHasFiles
    <3> QED BY <1>2, <2>2, <3>1, <3>2
  <2>5. ~Disturbs /\ (activeVersion = v <=> Builds(v)) => (Builds(v)' <=> Builds(v))
    BY <2>2, <2>3, <2>4 DEF Builds
  <2>6. /\ ~Disturbs => (activeVersion' = v <=> activeVersion = v) /\ (IsLive(v)' <=> IsLive(v))
        /\ ~Disturbs /\ (Builds(v)' <=> Builds(v)) => (HasBuilt(v)' <=> HasBuilt(v))
    <3>1. ~Disturbs => dataVersion' = dataVersion /\ activeVersion' = activeVersion /\ status' = status
      BY <1>2
    <3> QED BY <3>1 DEF IsLive, HasBuilt
  <2>7. tool'[t].version = v
    BY <1>1, <2>0
  <2>8. call'[t].pc = call[t].pc /\ call'[t].version = call[t].version /\ call'[t].code = call[t].code
    OBVIOUS
  <2>9. tool'[t].alone /\ call'[t].pc \in {"cancel", "schedule", "idle"} =>
          /\ activeVersion' = v <=> Builds(v)'
          /\ IsLive(v)' <=> HasBuilt(v)'
    <3>1. tool[t].alone /\ call[t].pc \in {"cancel", "schedule", "idle"} =>
            (activeVersion = v <=> Builds(v)) /\ (IsLive(v) <=> HasBuilt(v))
      BY <2>0, <2>1 DEF IsSaving
    <3> QED BY <1>1, <2>5, <2>6, <2>8, <3>1
  <2>10. tool'[t].alone /\ call'[t].pc = "upgrade" =>
           IsLive(v)' /\ files'[v] \in Buildable /\ v > dataVersion'
    BY <1>1, <1>2, <2>0, <2>1, <2>4, <2>8 DEF IsSaving, IsLive
  <2>14. tool'[t].alone /\ call'[t].pc = "build" => activeVersion' # v
    BY <1>1, <1>2, <2>0, <2>1, <2>8 DEF IsSaving
  <2>11. tool'[t].alone /\ call'[t].pc = "build" /\ tool'[t].edit # None =>
           activeVersion' # 0 /\ call'[t].code = files'[activeVersion'] \cup {tool'[t].edit}
    BY <1>1, <1>2, <1>3, <2>1, <2>8 DEF IsSaving
  <2>12. v \in 1 .. lastId'
    BY <2>1
  <2>13. /\ call'[t].pc \in {"build", "upgrade", "cancel", "schedule", "idle"}
         /\ call'[t].pc \in {"build", "upgrade"} => call'[t].version = tool'[t].version
    BY <2>0, <2>1, <2>7, <2>8 DEF IsSaving
  <2> QED BY <2>7, <2>9, <2>10, <2>11, <2>12, <2>13, <2>14 DEF IsSaving, IsLive, Builds, HasBuilt
<1> QED BY <1>0, <1>1, <1>4, <1>5 DEF ToolIsSound

\* A tool call that is forgotten, or has only answered.
LEMMA RestingToolIsSound ==
  ASSUME NEW t \in Tools, NEW how \in {"idle", "reported"}, NEW told,
         tool'[t] = [at |-> how, base |-> {}, edit |-> None, version |-> 0,
                     alone |-> FALSE, told |-> told]
  PROVE  ToolIsSound(t)'
BY DEF ToolIsSound, IsTool

\* So is one that has ended without a report.
LEMMA NoToolRests ==
  ASSUME NEW t \in Tools, tool'[t] = NoTool
  PROVE  ToolIsSound(t)'
BY RestingToolIsSound DEF NoTool

\* A tool that reads has read the live files.
LEMMA ReadFilesSound ==
  ASSUME ToolIInv, NEW t \in Tools, ReadFiles(t)
  PROVE  ToolIsSound(t)' /\ UNCHANGED vars
<1>1. /\ call'[t] = Idle /\ activeVersion' # 0 /\ files' = files /\ activeVersion' = activeVersion
      /\ tool'[t] = [at |-> "read", base |-> files[activeVersion], edit |-> None, version |-> 0,
                     alone |-> TRUE, told |-> None]
  BY DEF ReadFiles, Free, StepOf, NoTool, GetFiles, vars
<1>2. files[activeVersion] \in Code
  BY <1>1 DEF ToolIInv, IInv, TypeOK, LiveVersionHasFiles
<1> QED BY <1>1, <1>2 DEF ToolIsSound, IsTool, HasRead, Idle, Awaiting, ReadFiles

\* A save that has stored its version.
LEMMA SavingSound ==
  ASSUME ToolIInv, NEW t \in Tools, NEW edit, NEW code, SetFiles(t, code), Saving(t, edit),
         tool[t].alone /\ edit # None => activeVersion # 0 /\ code = files[activeVersion] \cup {edit},
         IInv', StoreGrows
  PROVE  ToolIsSound(t)'
<1>1. /\ call'[t] = Awaiting("build", lastId + 1, code, 0, None)
      /\ lastId' = lastId + 1 /\ lastId \in Nat /\ activeVersion' = activeVersion
      /\ activeVersion # lastId + 1
  BY ToolsAssumption DEF SetFiles, Suspend, InsertVersion, ToolIInv, IInv, TypeOK, hostState
<1>2. PICK alone : /\ alone => tool[t].alone \/ edit = None
                   /\ tool'[t] = [at |-> "saving", base |-> {}, edit |-> edit,
                                  version |-> lastId + 1, alone |-> alone, told |-> None]
  BY DEF Saving, StepOf
<1>3. activeVersion # 0 => files'[activeVersion'] = files[activeVersion]
  BY <1>1, LiveFilesStay DEF ToolIInv
<1>4. IsSaving(t)'
  BY <1>1, <1>2, <1>3 DEF IsSaving, Awaiting
<1> QED BY <1>2, <1>4 DEF ToolIsSound, IsTool

\* Every step of a tool is a step of a call of the store, or none of the store's.
LEMMA ToolSteps ==
  ASSUME ToolIInv, NEW t \in Tools, ToolNext(t)
  PROVE  (CallSteps(t) \/ UNCHANGED vars) /\ ToolIsSound(t)'
<1>0. t \in Calls /\ IInv
  BY ToolsAssumption DEF ToolIInv
<1>1. CASE ReadFiles(t)
  BY <1>1, ReadFilesSound
<1>2. ASSUME NEW edit \in Edits, ApplyLineEdits(t, edit)
      PROVE  (CallSteps(t) \/ UNCHANGED vars) /\ ToolIsSound(t)'
  <2>1. HasRead(t)
    BY <1>2 DEF ApplyLineEdits, ToolIInv, ToolIsSound
  <2>2. CASE SetFiles(t, tool[t].base \cup {edit}) /\ Saving(t, edit)
    <3> DEFINE code == tool[t].base \cup {edit}
    <3>1. code \in Code
      BY <2>1, SavesCode DEF HasRead
    <3>2. tool[t].alone /\ edit # None => activeVersion # 0 /\ code = files[activeVersion] \cup {edit}
      BY <2>1 DEF HasRead
    <3> HIDE DEF code
    <3>3. SetFiles(t, code) /\ Saving(t, edit)
      BY <2>2 DEF code
    <3>4. CallSteps(t) /\ Next
      BY <1>0, <3>1, <3>3 DEF CallSteps, Next
    <3>5. IInv' /\ StoreGrows
      BY <1>0, <3>4, StoreStep
    <3> QED BY <3>2, <3>3, <3>4, <3>5, SavingSound
  <2>3. CASE StepOf(t, NoTool) /\ UNCHANGED vars
    BY <2>3, NoToolRests DEF StepOf
  <2> QED BY <1>2, <2>2, <2>3 DEF ApplyLineEdits
<1>3. ASSUME NEW code \in Code, SetFiles(t, code), Saving(t, None)
      PROVE  (CallSteps(t) \/ UNCHANGED vars) /\ ToolIsSound(t)'
  <2>1. CallSteps(t) /\ Next
    BY <1>0, <1>3 DEF CallSteps, Next
  <2>2. IInv' /\ StoreGrows
    BY <1>0, <2>1, StoreStep
  <2> QED BY <1>3, <2>1, <2>2, SavingSound
<1>4. ASSUME NEW code \in Whole, SaveVersion(t, code)
      PROVE  (CallSteps(t) \/ UNCHANGED vars) /\ ToolIsSound(t)'
  BY <1>3, <1>4, ToolsAssumption DEF SaveVersion
<1>5. CASE ResetApp(t)
  <2>1. templateId \in Code
    BY <1>0, CodeAssumption DEF IInv, TypeOK
  <2> QED BY <1>3, <1>5, <2>1 DEF ResetApp, ResetToTemplate
<1>6. ASSUME NEW v \in VersionIds, RollbackTool(t, v)
      PROVE  (CallSteps(t) \/ UNCHANGED vars) /\ ToolIsSound(t)'
  BY <1>6, NoToolRests DEF RollbackTool, StepOf, CallSteps
<1>7. CASE Outcome(t)
  BY <1>7, RestingToolIsSound DEF Outcome, StepOf, NoTool
<1> QED BY <1>1, <1>2, <1>4, <1>5, <1>6, <1>7 DEF ToolNext

\* After a reload is scheduled, or not, the call waits for the alarm or is over.
LEMMA ReloadReturns ==
  ASSUME IInv, NEW c \in Calls,
         ScheduleReload(c) \/ \E prev, version : ReloadOrReturn(c, prev, version)
  PROVE  call'[c].pc \in {"cancel", "schedule", "idle"}
<1>1. PICK r : Settled(r) /\ call' = [call EXCEPT ![c] = r]
  BY ReloadSettles DEF IInv
<1> QED BY <1>1 DEF Settled, IInv, TypeOK

\* A save that goes on: the build ends, then the upgrade, then the reload.
LEMMA ResumedSave ==
  ASSUME ToolIInv, NEW t \in Tools, t \in Calls, Resume(t), IInv', StoreGrows,
         IsSaving(t), tool'[t] = tool[t]
  PROVE  IsSaving(t)'
<1>0. PICK v : v = tool[t].version
  OBVIOUS
<1>1. /\ IInv /\ BuildsOwnFiles /\ v \in 1 .. lastId /\ lastId \in Nat /\ lastId' = lastId
      /\ files' = files /\ call \in [Calls -> CallRecord] /\ tool'[t].version = v
      /\ dataVersion \in Nat
  BY <1>0 DEF ToolIInv, IInv, TypeOK, IsSaving, Resume, SeedBuilt, BuildOk, BuildFailed, UpgradeOk,
         UpgradeFailed, Validated, ReloadCancelled, ReloadScheduled, tables
<1>2. CASE BuildOk(t)
  <2>1. /\ call[t].version = v /\ v \in VersionIds /\ files[v] = call[t].code
        /\ files[v] \in Buildable
    BY <1>0, <1>1, <1>2, BuildsAreStored DEF BuildOk, IsSaving, BuildsOwnFiles
  <2>2. activeVersion' = v /\ status' = "ready" /\ dataVersion' = dataVersion
    BY <1>2, <2>1 DEF BuildOk
  <2>3. CASE v > dataVersion
    <3>1. call'[t] = Awaiting("upgrade", v, None, activeVersion, None)
      BY <1>1, <1>2, <2>1, <2>3 DEF BuildOk, Suspend
    <3> QED BY <1>1, <2>1, <2>2, <2>3, <3>1 DEF IsSaving, IsLive, Awaiting
  <2>4. CASE ~(v > dataVersion)
    <3>1. call'[t].pc \in {"cancel", "schedule", "idle"}
      BY <1>1, <1>2, <2>1, <2>4, ReloadReturns DEF BuildOk
    <3> QED BY <1>1, <2>1, <2>2, <2>4, <3>1 DEF IsSaving, IsLive, Builds, HasBuilt, VersionIds
  <2> QED BY <2>3, <2>4
<1>3. CASE BuildFailed(t)
  <2>1. call[t].version = v /\ files[v] = call[t].code /\ files[v] \notin Buildable
    BY <1>0, <1>1, <1>3 DEF BuildFailed, IsSaving, BuildsOwnFiles
  <2>2. status' = "error" /\ call'[t].pc = "idle" /\ activeVersion' = activeVersion
    BY <1>1, <1>3 DEF BuildFailed, Return, Suspend, Idle, Awaiting
  <2>3. tool[t].alone => activeVersion # v
    BY <1>0, <1>3 DEF BuildFailed, IsSaving
  <2> QED BY <1>1, <2>1, <2>2, <2>3 DEF IsSaving, IsLive, Builds, HasBuilt
<1>4. CASE UpgradeOk(t)
  <2>1. call'[t].pc \in {"cancel", "schedule", "idle"} /\ call[t].version = v /\ dataVersion' = v
    BY <1>0, <1>1, <1>4, ReloadReturns DEF UpgradeOk, IsSaving
  <2>2. UNCHANGED <<activeVersion, status>>
    BY <1>4 DEF UpgradeOk, hostState
  <2>3. tool[t].alone => /\ IsLive(v) /\ files[v] \in Buildable /\ v \in VersionIds
    BY <1>0, <1>1, <1>4 DEF UpgradeOk, IsSaving, IsLive, IInv, LiveVersionHasFiles
  <2>4. tool'[t].alone => IsLive(v)' /\ HasBuilt(v)' /\ Builds(v)' /\ activeVersion' = v
    BY <1>1, <2>1, <2>2, <2>3 DEF IsLive, Builds, HasBuilt, VersionIds
  <2> QED BY <1>1, <2>1, <2>4 DEF IsSaving
<1>5. CASE UpgradeFailed(t)
  <2>1. call'[t].pc \in {"cancel", "schedule", "idle"} /\ status' = "error" /\ dataVersion' = dataVersion
    BY <1>1, <1>5, ReloadReturns DEF UpgradeFailed, tables
  <2>2. tool[t].alone => v > dataVersion /\ files[v] \in Buildable /\ activeVersion = v
    BY <1>0, <1>5 DEF UpgradeFailed, IsSaving, IsLive
  <2>3. activeVersion' = activeVersion /\ (activeVersion = v => v \in VersionIds)
    BY <1>1, <1>5 DEF UpgradeFailed, IInv, LiveVersionHasFiles
  <2> QED BY <1>1, <2>1, <2>2, <2>3 DEF IsSaving, IsLive, Builds, HasBuilt, VersionIds
<1>6. CASE ReloadCancelled(t) \/ ReloadScheduled(t)
  <2>1. call'[t].pc \in {"cancel", "schedule", "idle"}
    BY <1>1, <1>6, ReloadReturns DEF ReloadCancelled, ReloadScheduled, Return, Suspend, Idle, Awaiting
  <2>2. UNCHANGED <<activeVersion, status, dataVersion>> /\ call[t].pc \in {"cancel", "schedule"}
    BY <1>6 DEF ReloadCancelled, ReloadScheduled, hostState, tables
  <2> QED BY <1>0, <1>1, <2>1, <2>2 DEF IsSaving, IsLive, Builds, HasBuilt, VersionIds
<1>7. ~SeedBuilt(t) /\ ~Validated(t)
  BY DEF SeedBuilt, Validated, IsSaving
<1> QED BY <1>2, <1>3, <1>4, <1>5, <1>6, <1>7 DEF Resume

-----------------------------------------------------------------------------
(* Every step.                                                             *)

\* A step that is not one of t's own.
IsOthers(t) ==
  /\ call'[t] = call[t]
  /\ \/ (tool'[t] = tool[t] /\ ~Disturbs)
     \/ tool'[t] = IF Disturbs THEN [tool[t] EXCEPT !.alone = FALSE] ELSE tool[t]

\* The steps of the tools, the editor and the environment, seen by a tool.
LEMMA Steps ==
  ASSUME ToolIInv, NextAll, NEW t \in Tools
  PROVE  /\ DOMAIN tool' = Tools
         /\ \/ ToolNext(t)
            \/ (Resume(t) /\ tool'[t] = tool[t])
            \/ IsOthers(t)
<1>0. /\ call \in [Calls -> CallRecord] /\ Tools \subseteq Calls /\ DOMAIN tool = Tools
  BY ToolsAssumption DEF ToolIInv, IInv, TypeOK
<1>1. ASSUME NEW c \in Calls, NEW mine, StepOf(c, mine), Moves(c) \/ UNCHANGED vars, c # t
      PROVE  DOMAIN tool' = Tools /\ IsOthers(t)
  BY <1>0, <1>1 DEF StepOf, Moves, IsOthers, vars
<1>2. ASSUME NEW u \in Tools, ToolNext(u) PROVE DOMAIN tool' = Tools /\ (u # t => IsOthers(t))
  <2>1. (CallSteps(u) \/ UNCHANGED vars) /\ u \in Calls
    BY <1>0, <1>2, ToolSteps
  <2>2. \E mine : StepOf(u, mine)
    BY <1>2 DEF ToolNext, ReadFiles, ApplyLineEdits, SaveVersion, ResetApp, RollbackTool, Outcome,
       Saving
  <2> QED BY <1>1, <2>1, <2>2, CallMoves DEF StepOf
<1>3. ASSUME NEW c \in Calls \ Tools, EditorNext(c) PROVE DOMAIN tool' = Tools /\ IsOthers(t)
  <2>1. CallSteps(c) /\ StepOf(c, NoTool)
    BY <1>3, ToolsAssumption DEF EditorNext, CallSteps
  <2> QED BY <1>0, <1>1, <2>1, CallMoves
<1>4. ASSUME NEW c \in Calls, Resumes(c)
      PROVE  DOMAIN tool' = Tools /\ (IsOthers(t) \/ (Resume(t) /\ tool'[t] = tool[t]))
  <2>1. Resume(c) /\ \E mine : StepOf(c, mine)
    BY <1>4 DEF Resumes
  <2>2. CASE c = t
    BY <1>4, <2>1, <2>2 DEF Resumes, StepOf
  <2>3. CASE c # t
    <3>1. CallSteps(c)
      BY <2>1 DEF CallSteps
    <3> QED BY <1>1, <2>1, <2>3, <3>1, CallMoves
  <2> QED BY <2>2, <2>3
<1>5. ASSUME (\E id \in ReloadIds : Flushes(id)) \/ ((GcVersions \/ OpenPage) /\ UNCHANGED tool)
      PROVE  DOMAIN tool' = Tools /\ IsOthers(t)
  <2>1. UNCHANGED <<tool, call, activeVersion, status, dataVersion>>
    BY <1>5 DEF Flushes, FlushReload, GcVersions, OpenPage, hostState, tables
  <2> QED BY <1>0, <2>1 DEF IsOthers, Disturbs
<1> QED BY <1>2, <1>3, <1>4, <1>5 DEF NextAll

\* The tools use the version store as it is.
LEMMA ToolsUseTheStore ==
  ASSUME ToolIInv, NextAll
  PROVE  [Next]_vars
<1>1. ASSUME NEW t \in Tools, ToolNext(t) PROVE [Next]_vars
  BY <1>1, ToolSteps, ToolsAssumption DEF CallSteps, Next
<1>2. ASSUME NEW c \in Calls \ Tools, EditorNext(c) PROVE [Next]_vars
  <2>1. CallSteps(c)
    BY <1>2, ToolsAssumption DEF EditorNext, CallSteps
  <2> QED BY <2>1 DEF CallSteps, Next
<1>3. ASSUME NEW c \in Calls, Resumes(c) PROVE [Next]_vars
  BY <1>3 DEF Resumes, Next
<1>4. ASSUME (\E id \in ReloadIds : Flushes(id)) \/ ((GcVersions \/ OpenPage) /\ UNCHANGED tool)
      PROVE  [Next]_vars
  BY <1>4 DEF Flushes, Next
<1> QED BY <1>1, <1>2, <1>3, <1>4 DEF NextAll

\* Every step preserves the invariant.
LEMMA NextToolIInv ==
  ASSUME ToolIInv, [NextTools]_<<part, allVars, lineVars>>
  PROVE  ToolIInv'
<1>1. CASE NextAll
  <2>1. IInv' /\ BuildsOwnFiles' /\ StoreGrows
    BY <1>1, ToolsUseTheStore, StoreStep, BuildsKeepFiles DEF ToolIInv
  <2>2. ASSUME NEW t \in Tools PROVE DOMAIN tool' = Tools /\ ToolIsSound(t)'
    <3>1. DOMAIN tool' = Tools
      BY <1>1, Steps
    <3>2. CASE ToolNext(t)
      BY <3>1, <3>2, ToolSteps
    <3>3. CASE Resume(t) /\ tool'[t] = tool[t]
      <4>1. t \in Calls /\ ToolIsSound(t)
        BY ToolsAssumption DEF ToolIInv
      <4>2. call[t].pc # "idle"
        BY <3>3 DEF Resume, SeedBuilt, BuildOk, BuildFailed, UpgradeOk, UpgradeFailed, Validated,
           ReloadCancelled, ReloadScheduled
      <4>3. tool[t].at = "saving" => IsSaving(t)'
        BY <2>1, <3>3, <4>1, ResumedSave DEF ToolIsSound
      <4> QED BY <3>1, <3>3, <4>1, <4>2, <4>3 DEF ToolIsSound, HasRead
    <3>4. CASE IsOthers(t)
      BY <2>1, <3>1, <3>4, OthersStaySound DEF IsOthers
    <3> QED BY <1>1, <3>2, <3>3, <3>4, Steps
  <2>3. DOMAIN tool' = Tools
    <3>1. CASE Tools = {}
      BY <1>1, <3>1, ToolsAssumption
      DEF NextAll, EditorNext, Resumes, Flushes, StepOf, ToolIInv
    <3>2. CASE Tools # {}
      BY <2>2, <3>2
    <3> QED BY <3>1, <3>2
  <2> QED BY <2>1, <2>2, <2>3 DEF ToolIInv
<1>2. CASE UNCHANGED allVars
  BY <1>2 DEF allVars, vars, ToolIInv, IInv, TypeOK, VersionIds, CallsNameVersions,
     UndoHistoryIsComplete, LiveVersionHasFiles, BuildsOwnFiles, ToolIsSound, IsTool, HasRead,
     IsSaving, IsLive, Builds, HasBuilt
<1> QED BY <1>1, <1>2 DEF NextTools, Edit, Calling

\* It holds initially.
LEMMA InitToolIInv == ASSUME InitTools PROVE ToolIInv
<1>1. Init /\ tool = [t \in Tools |-> NoTool]
  BY DEF InitTools, InitAll
<1>2. IInv
  BY <1>1, InitEstablishes
<1>3. BuildsOwnFiles
  BY <1>1 DEF Init, BuildsOwnFiles, Idle, Awaiting
<1>4. \A t \in Tools : ToolIsSound(t)
  BY <1>1 DEF NoTool, ToolIsSound, IsTool
<1> QED BY <1>1, <1>2, <1>3, <1>4 DEF ToolIInv

\* An edit of t, at a step.
EditApplies(t) ==
  tool[t].alone /\ tool'[t].edit # None =>
    /\ tool[t].at = "read" => files'[lastId'] = files[activeVersion] \cup {tool'[t].edit}
    /\ call[t].pc = "build" /\ call'[t].pc # "build" =>
         files'[activeVersion'] = IF call[t].code \in Buildable
           THEN files[activeVersion] \cup {tool[t].edit} ELSE files[activeVersion]

\* A report of t, at a step.
SaveIsReported(t) ==
  UndisturbedReport(t) =>
    LET version == tool[t].version
        good == version \in VersionIds /\ files[version] \in Buildable
    IN  /\ activeVersion = version <=> good
        /\ tool'[t].told = (good /\ dataVersion >= version)

\* A step that is not one of t's own neither applies an edit of t nor reports one.
LEMMA OthersLeaveAlone ==
  ASSUME ToolIInv, NEW t \in Tools, IsOthers(t)
  PROVE  EditApplies(t) /\ SaveIsReported(t)
<1>1. ToolIsSound(t)
  BY DEF ToolIInv
<1>2. tool'[t].at = tool[t].at /\ tool'[t].edit = tool[t].edit
  <2>1. PICK r : r = tool[t] /\ r = [at |-> r.at, base |-> r.base, edit |-> r.edit,
                  version |-> r.version, alone |-> r.alone, told |-> r.told]
    BY <1>1 DEF ToolIsSound, IsTool
  <2>2. CASE tool'[t] = r
    BY <2>1, <2>2
  <2>3. CASE tool'[t] = [r EXCEPT !.alone = FALSE]
    <3>1. tool'[t] = [at |-> r.at, base |-> r.base, edit |-> r.edit,
                      version |-> r.version, alone |-> FALSE, told |-> r.told]
      BY <2>1, <2>3
    <3> QED BY <2>1, <3>1
  <2> QED BY <2>1, <2>2, <2>3 DEF IsOthers
<1> QED BY <1>1, <1>2 DEF IsOthers, EditApplies, SaveIsReported, UndisturbedReport, ToolIsSound

\* A step of the tool itself.
LEMMA OwnStep ==
  ASSUME ToolIInv, NEW t \in Tools, ToolNext(t)
  PROVE  EditApplies(t) /\ SaveIsReported(t)
<1>0. /\ ToolIsSound(t) /\ IInv /\ t \in Calls /\ call \in [Calls -> CallRecord] /\ lastId \in Nat
  BY ToolsAssumption DEF ToolIInv, IInv, TypeOK
<1>1. CASE Free(t)
  <2>1. call[t].pc = "idle" /\ tool[t].at \notin {"read", "saving"}
    BY <1>1 DEF Free, Idle, Awaiting
  <2> QED BY <2>1 DEF EditApplies, SaveIsReported, UndisturbedReport
<1>2. ASSUME NEW edit \in Edits, ApplyLineEdits(t, edit)
      PROVE  EditApplies(t) /\ SaveIsReported(t)
  <2>1. tool[t].at = "read" /\ HasRead(t)
    BY <1>0, <1>2 DEF ApplyLineEdits, ToolIsSound
  <2>2. CASE SetFiles(t, tool[t].base \cup {edit}) /\ Saving(t, edit)
    <3>1. tool'[t].edit = edit /\ files'[lastId'] = tool[t].base \cup {edit}
      BY <1>0, <2>2 DEF SetFiles, InsertVersion, Saving, StepOf
    <3> QED BY <2>1, <3>1 DEF HasRead, EditApplies, SaveIsReported, UndisturbedReport
  <2>3. CASE StepOf(t, NoTool)
    BY <2>1, <2>3 DEF StepOf, NoTool, EditApplies, SaveIsReported, UndisturbedReport
  <2> QED BY <1>2, <2>2, <2>3 DEF ApplyLineEdits
<1>3. CASE Outcome(t)
  <2>1. /\ tool[t].at = "saving" /\ IsSaving(t) /\ call[t].pc = "idle"
        /\ tool'[t].told = Built(tool[t].version) /\ tool'[t].edit = None
    <3>1. tool[t].at = "saving" /\ call[t] = Idle
      BY <1>3 DEF Outcome
    <3>2. tool'[t] = [NoTool EXCEPT !.at = "reported", !.told = Built(tool[t].version)]
      BY <1>3 DEF Outcome, StepOf
    <3>3. tool'[t].told = Built(tool[t].version) /\ tool'[t].edit = None
      BY <3>2 DEF NoTool
    <3> QED BY <1>0, <3>1, <3>3 DEF ToolIsSound, Idle, Awaiting
  <2>2. tool[t].alone => (Built(tool[t].version) <=> HasBuilt(tool[t].version))
    BY <2>1 DEF IsSaving, IsLive, Built
  <2>3. tool[t].alone => Built(tool[t].version) = HasBuilt(tool[t].version)
    BY <2>2 DEF Built, HasBuilt
  <2>4. tool[t].alone => (activeVersion = tool[t].version <=> Builds(tool[t].version))
    BY <2>1 DEF IsSaving
  <2> QED BY <2>1, <2>3, <2>4 DEF EditApplies, SaveIsReported, UndisturbedReport, Builds, HasBuilt
<1> QED BY <1>1, <1>2, <1>3
    DEF ToolNext, ReadFiles, SaveVersion, ResetApp, RollbackTool

\* A step of the call of the store that the tool waits for.
LEMMA OwnCallGoesOn ==
  ASSUME ToolIInv, NEW t \in Tools, Resume(t), tool'[t] = tool[t]
  PROVE  EditApplies(t) /\ SaveIsReported(t)
<1>0. /\ ToolIsSound(t) /\ IInv /\ BuildsOwnFiles /\ t \in Calls
  BY ToolsAssumption DEF ToolIInv
<1>1. SaveIsReported(t)
  BY DEF SaveIsReported, UndisturbedReport
<1>2. CASE tool[t].edit = None
  BY <1>1, <1>2 DEF EditApplies
<1>3. CASE call[t].pc # "build"
  <2>1. call[t].pc # "idle"
    BY DEF Resume, SeedBuilt, BuildOk, BuildFailed, UpgradeOk, UpgradeFailed, Validated,
       ReloadCancelled, ReloadScheduled
  <2>2. tool[t].at # "read"
    BY <1>0, <2>1 DEF ToolIsSound, HasRead
  <2> QED BY <1>1, <1>3, <2>2 DEF EditApplies
<1>4. CASE tool[t].alone /\ tool[t].edit # None /\ call[t].pc = "build"
  <2>1. /\ tool[t].at = "saving"
        /\ call[t].code = files[activeVersion] \cup {tool[t].edit}
    BY <1>0, <1>4 DEF ToolIsSound, IsSaving
  <2>2. files[call[t].version] = call[t].code
    BY <1>0, <1>4 DEF BuildsOwnFiles
  <2>3. \/ call[t].code \in Buildable /\ activeVersion' = call[t].version /\ files' = files
        \/ call[t].code \notin Buildable /\ activeVersion' = activeVersion /\ files' = files
    BY <1>4 DEF Resume, SeedBuilt, BuildOk, BuildFailed, UpgradeOk, UpgradeFailed, Validated,
       ReloadCancelled, ReloadScheduled, tables
  <2> QED BY <1>1, <2>1, <2>2, <2>3 DEF EditApplies
<1>5. CASE ~tool[t].alone
  BY <1>1, <1>5 DEF EditApplies
<1> QED BY <1>2, <1>3, <1>4, <1>5

\* Every step.
LEMMA ToolsTellTheTruth ==
  ASSUME ToolIInv, [NextTools]_<<part, allVars, lineVars>>
  PROVE  UNCHANGED allVars \/ \A t \in Tools : EditApplies(t) /\ SaveIsReported(t)
<1>1. CASE NextAll
  BY <1>1, Steps, OthersLeaveAlone, OwnStep, OwnCallGoesOn
<1> QED BY <1>1 DEF NextTools, Edit, Calling

\* The version store keeps its promises when the assistant's tools use it, for they use
\* nothing but its calls: it implements AppVersions.
THEOREM ToolsImplementVersionStore == SpecTools => Spec
<1>1. InitTools => Init
  BY DEF InitTools, InitAll
<1>2. ToolIInv /\ [NextTools]_<<part, allVars, lineVars>> => [Next]_vars
  BY ToolsUseTheStore DEF NextTools, Edit, Calling, allVars
<1> QED BY <1>1, <1>2, InitToolIInv, NextToolIInv, PTL DEF SpecTools, Spec

\* An edit that no other call disturbs is added to the live code, to nothing else, and
\* it goes live exactly if the result builds; the live code stays as it is otherwise
\* (apply_line_edits, setFiles).
THEOREM UndisturbedEditsGoLive == SpecTools => UndisturbedEditsApply
<1>1. ToolIInv /\ [NextTools]_<<part, allVars, lineVars>> =>
        [\A t \in Tools : EditApplies(t)]_allVars
  BY ToolsTellTheTruth
<1> QED BY <1>1, InitToolIInv, NextToolIInv, PTL DEF SpecTools, UndisturbedEditsApply, EditApplies

\* When a save that no other call disturbs reports, its version is live if and only if
\* it builds, and it reports success if and only if the data was upgraded to that
\* version as well (setFiles, #outcome).
THEOREM SuccessIsReported == SpecTools => UndisturbedSuccessIsReported
<1>1. ToolIInv /\ [NextTools]_<<part, allVars, lineVars>> =>
        [\A t \in Tools : SaveIsReported(t)]_allVars
  BY ToolsTellTheTruth
<1> QED BY <1>1, InitToolIInv, NextToolIInv, PTL
    DEF SpecTools, UndisturbedSuccessIsReported, SaveIsReported

-----------------------------------------------------------------------------
(* The line edits of one call.                                             *)

\* What an edit may be.
OpNames == {"create", "replace", "delete", "insert"}

IsEdit(e) ==
  /\ e.path \in {Existing, Missing}
  /\ e.op \in OpNames
  /\ e.start \in Nat
  /\ e.end \in Int

\* A call as the model builds it, on an app of one file.
EditTypes ==
  /\ DOMAIN text = {Existing} /\ DOMAIN text[Existing] = 1 .. Len(text[Existing])
  /\ Len(text[Existing]) \in Nat
  /\ edits \in Seq(Range(edits))
  /\ \A i \in DOMAIN edits : IsEdit(edits[i])

\* The edits i and j both take line k.
Share(i, j, k) == k \in edits[i].start .. edits[i].end /\ k \in edits[j].start .. edits[j].end

\* Whatever has an op sorted after it has one next to it.
LEMMA SomeOpIsNext ==
  ASSUME NEW is \in SUBSET Nat, \A i \in is : edits[i].start \in Nat,
         NEW i \in is, NEW j \in is, L!Before(i, j)
  PROVE  \E k \in is : L!NextTo(i, k, is) /\ edits[k].start <= edits[j].start
<1> DEFINE After == {k \in is : L!Before(i, k)}
           Starts == {edits[k].start : k \in After}
<1>1. PICK m \in Starts : \A n \in Starts : m <= n
  <2>1. Starts \in SUBSET Nat /\ Starts # {}
    OBVIOUS
  <2> QED BY <2>1, LeastNumber
<1> DEFINE First == {k \in After : edits[k].start = m}
<1>2. PICK k \in First : \A n \in First : k <= n
  <2>1. First \in SUBSET Nat /\ First # {}
    OBVIOUS
  <2> QED BY <2>1, LeastNumber
<1>3. k \in is /\ L!Before(i, k) /\ edits[k].start = m
  OBVIOUS
<1>4. edits[k].start <= edits[j].start
  BY <1>1, <1>3
<1>5. ASSUME NEW n \in is, L!Before(i, n), L!Before(n, k) PROVE FALSE
  <2>1. n \in After /\ m <= edits[n].start
    BY <1>1, <1>5
  <2>2. edits[n].start = m /\ n < k
    BY <1>3, <1>5, <2>1 DEF L!Before
  <2>3. n \in First /\ k <= n
    BY <1>2, <2>1, <2>2
  <2> QED BY <2>2, <2>3
<1> QED BY <1>3, <1>4, <1>5 DEF L!NextTo

\* Comparing each range with the one before it finds any two that share a line.
LEMMA OverlapsAreFound ==
  ASSUME EditTypes, NEW path, NEW n \in Nat,
         \A i \in L!Ranges(path) : 1 <= edits[i].start /\ edits[i].start <= edits[i].end /\ edits[i].end <= n
  PROVE  L!Overlap(path) <=> \E i, j \in L!Ranges(path), k \in 1 .. n : i # j /\ Share(i, j, k)
<1> DEFINE R == L!Ranges(path)
<1>0. R \in SUBSET Nat /\ \A i \in R : edits[i].start \in Nat /\ edits[i].end \in Int
  BY DEF EditTypes, IsEdit, L!Ranges, L!On
<1>1. ASSUME L!Overlap(path) PROVE \E i, j \in R, k \in 1 .. n : i # j /\ Share(i, j, k)
  <2>1. PICK i \in R, j \in R : L!Before(i, j) /\ edits[j].start <= edits[i].end
    BY <1>1 DEF L!Overlap, L!NextTo
  <2>2. i # j /\ edits[i].start <= edits[j].start
    BY <1>0, <2>1 DEF L!Before
  <2>3. Share(i, j, edits[j].start) /\ edits[j].start \in 1 .. n
    BY <1>0, <2>1, <2>2 DEF Share
  <2> QED BY <2>2, <2>3
<1>2. ASSUME NEW i \in R, NEW j \in R, NEW k \in 1 .. n, Share(i, j, k), L!Before(i, j)
      PROVE  L!Overlap(path)
  <2>1. PICK e \in R : L!NextTo(i, e, R) /\ edits[e].start <= edits[j].start
    BY <1>0, <1>2, SomeOpIsNext
  <2>2. edits[e].start <= edits[i].end
    BY <1>0, <1>2, <2>1 DEF Share
  <2> QED BY <2>1, <2>2 DEF L!Overlap
<1>3. ASSUME NEW i \in R, NEW j \in R, NEW k \in 1 .. n, Share(i, j, k), i # j
      PROVE  L!Overlap(path)
  <2>1. L!Before(i, j) \/ L!Before(j, i)
    BY <1>0, <1>3 DEF L!Before
  <2>2. Share(j, i, k)
    BY <1>3 DEF Share
  <2> QED BY <1>2, <1>3, <2>1, <2>2
<1> QED BY <1>1, <1>3

\* What is wrong with the edits of a file.
Wrong(path) ==
  /\ L!Creates(path) = {}
  /\ \/ path = Missing
     \/ \E i \in L!Ranges(path) :
          ~(edits[i].start .. edits[i].end \subseteq DOMAIN text[path]
            /\ edits[i].start <= edits[i].end)
     \/ \E i \in L!Inserts : edits[i].start > Len(text[path])
     \/ \E i, j \in L!Ranges(path), k \in DOMAIN text[path] :
          i # j /\ {i, j} \subseteq L!Covering(k)

\* A file is accepted exactly if nothing is wrong with its edits.
LEMMA WrongIsRefused ==
  ASSUME EditTypes, NEW path \in L!Edited
  PROVE  L!Accepted(path) <=> ~Wrong(path)
<1>0. path \in {Existing, Missing} /\ Existing # Missing
  BY LineEditsAssumption DEF EditTypes, IsEdit, L!Edited
<1>1. CASE L!Creates(path) # {}
  BY <1>1 DEF Wrong, L!Accepted
<1>2. CASE L!Creates(path) = {} /\ path = Missing
  BY <1>0, <1>2 DEF Wrong, L!Accepted, EditTypes
<1>3. CASE L!Creates(path) = {} /\ path = Existing
  <2> DEFINE n == Len(text[Existing])
  <2>0. n \in Nat /\ DOMAIN text[Existing] = 1 .. n /\ Existing \in DOMAIN text
    BY DEF EditTypes
  <2>1. L!Accepted(path) <=> (\A i \in L!On(Existing) : L!InBounds(edits[i], n)) /\ ~L!Overlap(Existing)
    BY <1>3, <2>0 DEF L!Accepted
  <2>2. \A i \in L!On(Existing) :
          /\ i \in L!Ranges(Existing) \/ i \in L!Inserts
          /\ edits[i].start \in Nat /\ edits[i].end \in Int
    BY <1>3 DEF EditTypes, IsEdit, OpNames, L!On, L!Creates, L!Ranges, L!IsRange, L!Inserts
  <2>3. \A i \in L!Ranges(Existing) : i \in L!On(Existing) /\
          (L!InBounds(edits[i], n) <=> edits[i].start .. edits[i].end \subseteq 1 .. n
                                       /\ edits[i].start <= edits[i].end)
    <3>1. SUFFICES ASSUME NEW i \in L!Ranges(Existing)
                   PROVE  i \in L!On(Existing) /\
          (L!InBounds(edits[i], n) <=> edits[i].start .. edits[i].end \subseteq 1 .. n
                                       /\ edits[i].start <= edits[i].end)
      OBVIOUS
    <3>2. i \in L!On(Existing) /\ edits[i].op # "insert"
      BY DEF L!Ranges, L!IsRange
    <3>3. PICK a, b : a = edits[i].start /\ b = edits[i].end
      OBVIOUS
    <3>4. a \in Nat /\ b \in Int
      BY <2>2, <3>2, <3>3
    <3>5. L!InBounds(edits[i], n) <=> (1 <= a /\ b <= n /\ a <= b)
      BY <3>2, <3>3, <3>4 DEF L!InBounds
    <3>6. (a .. b \subseteq 1 .. n /\ a <= b) <=> (1 <= a /\ b <= n /\ a <= b)
      BY <2>0, <3>4
    <3> QED BY <3>2, <3>3, <3>5, <3>6
  <2>4. \A i \in L!Inserts : i \in L!On(Existing) /\ (L!InBounds(edits[i], n) <=> ~(edits[i].start > n))
    BY <2>0, <2>2 DEF L!Inserts, L!InBounds
  <2>5. CASE \E i \in L!On(Existing) : ~L!InBounds(edits[i], n)
    BY <1>3, <2>0, <2>1, <2>2, <2>3, <2>4, <2>5 DEF Wrong
  <2>6. CASE \A i \in L!On(Existing) : L!InBounds(edits[i], n)
    <3>1. \A i \in L!Ranges(Existing) :
            1 <= edits[i].start /\ edits[i].start <= edits[i].end /\ edits[i].end <= n
      BY <2>3, <2>6 DEF L!Ranges, L!IsRange, L!InBounds
    <3>2. L!Overlap(Existing) <=>
            \E i, j \in L!Ranges(Existing), k \in 1 .. n : i # j /\ Share(i, j, k)
      BY <2>0, <3>1, OverlapsAreFound
    <3>3. \A i, j \in L!Ranges(Existing) : \A k : {i, j} \subseteq L!Covering(k) <=> Share(i, j, k)
      BY DEF L!Covering, Share
    <3>4. Wrong(path) <=> \E i, j \in L!Ranges(Existing), k \in 1 .. n : i # j /\ Share(i, j, k)
      BY <1>0, <1>3, <2>0, <2>3, <2>4, <2>6, <3>3 DEF Wrong
    <3> QED BY <2>1, <2>6, <3>2, <3>4
  <2> QED BY <2>5, <2>6
<1> QED BY <1>0, <1>1, <1>2, <1>3

\* What a call is told, in terms of what is wrong.
Verdict ==
  outcome # "none" =>
    /\ outcome = "refused" <=> \E path \in L!Edited : Wrong(path)
    /\ outcome = "refused" => saved = text

\* That is the property.
LEMMA VerdictIsTheProperty == L!RefusedAsAWhole <=> Verdict
BY DEF L!RefusedAsAWhole, Verdict, Wrong

\* What is wrong depends on the edits and the files alone.
LEMMA WrongStays ==
  ASSUME UNCHANGED <<text, edits>>, NEW path
  PROVE  Wrong(path)' <=> Wrong(path)
BY DEF Wrong, L!Creates, L!On, L!Ranges, L!Inserts, L!Covering

-----------------------------------------------------------------------------
(* Where the edits land.  What the ops make of each line of the file       *)
(* (Segments), joined, is the file they ask for.  By induction over the    *)
(* ops in the order they are applied, each lands on what the ones before   *)
(* it have made of the file, none of it above the op.                      *)

\* Texts and their operators: the provers are not shown that they are sequences.
Texts(V) == Seq(V)
Join(a, b) == a \o b
FirstLines(T, k) == SubSeq(T, 1, k)

\* Joined texts are a text, in whatever order they are joined.
LEMMA JoinTexts ==
  ASSUME NEW V, NEW a \in Texts(V), NEW b \in Texts(V), NEW c \in Texts(V)
  PROVE  /\ Join(a, b) \in Texts(V)
         /\ Join(Join(a, b), c) = Join(a, Join(b, c))
         /\ << >> \in Texts(V) /\ Join(a, << >>) = a /\ Join(<< >>, a) = a
<1>1. Join(Join(a, b), c) = Join(a, Join(b, c))
  BY ConcatAssociative, SMT DEF Join, Texts
<1>2. Join(a, b) \in Texts(V) /\ << >> \in Texts(V)
  BY DEF Join, Texts
<1>3. Join(a, << >>) = a /\ Join(<< >>, a) = a
  BY DEF Join, Texts
<1> QED BY <1>1, <1>2, <1>3

\* The first lines of a text, one by one.
LEMMA FirstLinesText ==
  ASSUME NEW V, NEW T \in Texts(V), NEW k \in 0 .. Len(T)
  PROVE  /\ Len(T) \in Nat /\ FirstLines(T, 0) = << >> /\ FirstLines(T, Len(T)) = T
         /\ FirstLines(T, k) \in Texts(V)
         /\ k # 0 => /\ <<T[k]>> \in Texts(V)
                     /\ FirstLines(T, k) = Join(FirstLines(T, k - 1), <<T[k]>>)
<1>1. Len(T) \in Nat /\ FirstLines(T, 0) = << >> /\ FirstLines(T, Len(T)) = T
  BY SubSeqFull DEF Texts, FirstLines
<1>2. FirstLines(T, k) \in Texts(V)
  BY DEF Texts, FirstLines
<1>3. ASSUME k # 0
      PROVE  <<T[k]>> \in Texts(V) /\ FirstLines(T, k) = Join(FirstLines(T, k - 1), <<T[k]>>)
  <2>1. k \in 1 .. Len(T) /\ T \in Seq(V) /\ T[k] \in V
    BY <1>1, <1>3 DEF Texts
  <2> DEFINE u == SubSeq(T, 1, k - 1)
             v == SubSeq(T, 1, k)
  <2>2. u \in Seq(V) /\ Len(u) = k - 1 /\ \A i \in 1 .. k - 1 : u[i] = T[i]
    BY <2>1
  <2>3. v \in Seq(V) /\ Len(v) = k /\ \A i \in 1 .. k : v[i] = T[i]
    BY <2>1
  <2> HIDE DEF u, v
  <2>4. v = u \o <<T[k]>>
    BY <2>1, <2>2, <2>3
  <2> QED BY <2>1, <2>4 DEF Texts, FirstLines, Join, u, v
<1> QED BY <1>1, <1>2, <1>3

-----------------------------------------------------------------------------
(* Splicing (Array.splice).                                                *)

\* The lines above and below those an op takes away, which are in the file.
InFile(s, at, remove) == at \in Nat /\ remove \in Nat /\ at + remove <= Len(s)
Below(s, at, remove) == SubSeq(s, at + remove + 1, Len(s))

\* Lines taken away inside a text leave those above, the body and those below.
LEMMA SpliceInside ==
  ASSUME NEW V, NEW s \in Texts(V), NEW at, NEW remove, InFile(s, at, remove), NEW body \in Texts(V)
  PROVE  /\ FirstLines(s, at) \in Texts(V) /\ Below(s, at, remove) \in Texts(V)
         /\ L!Splice(s, at, remove, body) = Join(Join(FirstLines(s, at), body), Below(s, at, remove))
<1>1. Len(s) \in Nat /\ L!Min({at, Len(s)}) = at
  BY DEF L!Min, InFile, Texts
<1>2. FirstLines(s, at) \in Texts(V) /\ Below(s, at, remove) \in Texts(V)
  BY <1>1 DEF FirstLines, Below, InFile, Texts
<1>3. L!Splice(s, at, remove, body) = Join(Join(FirstLines(s, at), body), Below(s, at, remove))
  BY <1>1, Zenon DEF L!Splice, FirstLines, Below, Join
<1> QED BY <1>2, <1>3

\* Lines that follow those an op takes away are as they were.
LEMMA SpliceGrows ==
  ASSUME NEW V, NEW s \in Texts(V), NEW t \in Texts(V), NEW at, NEW remove, InFile(s, at, remove),
         NEW body \in Texts(V)
  PROVE  /\ InFile(Join(s, t), at, remove)
         /\ L!Splice(Join(s, t), at, remove, body) = Join(L!Splice(s, at, remove, body), t)
<1>1. /\ Len(Join(s, t)) = Len(s) + Len(t) /\ Len(s) \in Nat /\ Len(t) \in Nat
      /\ Join(s, t) \in Texts(V)
  BY DEF Join, Texts
<1>2. InFile(Join(s, t), at, remove)
  BY <1>1 DEF InFile
<1>3. FirstLines(Join(s, t), at) = FirstLines(s, at)
  BY <1>1 DEF FirstLines, InFile, Join, Texts
<1>4. Below(Join(s, t), at, remove) = Join(Below(s, at, remove), t)
  <2> DEFINE k == at + remove + 1
             u == SubSeq(s \o t, k, Len(s \o t))
             v == SubSeq(s, k, Len(s)) \o t
  <2>1. k \in Nat /\ k >= 1 /\ k <= Len(s) + 1
    BY <1>1 DEF InFile
  <2> HIDE DEF k
  <2>2. u \in Seq(V) /\ v \in Seq(V) /\ Len(u) = Len(v)
    BY <1>1, <2>1 DEF Texts, Join
  <2>3. \A i \in 1 .. Len(u) : u[i] = v[i]
    BY <1>1, <2>1 DEF Texts, Join
  <2> HIDE DEF u, v
  <2>4. u = v
    BY <2>2, <2>3
  <2> QED BY <2>4 DEF u, v, k, Below, Join
<1>5. PICK p, q, u : p = FirstLines(s, at) /\ q = Below(s, at, remove) /\ u = Join(s, t)
  OBVIOUS
<1>6. /\ p \in Texts(V) /\ q \in Texts(V)
      /\ L!Splice(s, at, remove, body) = Join(Join(p, body), q)
  BY <1>5, SpliceInside
<1>7. L!Splice(u, at, remove, body) = Join(Join(p, body), Join(q, t))
  BY <1>1, <1>2, <1>3, <1>4, <1>5, SpliceInside
<1>8. Join(Join(Join(p, body), q), t) = Join(Join(p, body), Join(q, t))
  BY <1>6, JoinTexts
<1> QED BY <1>2, <1>5, <1>6, <1>7, <1>8

\* An op that takes away the last of the first k lines.
LEMMA SpliceLast ==
  ASSUME NEW V, NEW T \in Texts(V), NEW k \in 0 .. Len(T), NEW at \in 0 .. k, NEW body \in Texts(V),
         NEW remove, remove = k - at
  PROVE  /\ InFile(FirstLines(T, k), at, remove)
         /\ L!Splice(FirstLines(T, k), at, remove, body) = Join(FirstLines(T, at), body)
<1>1. PICK s \in Texts(V) : s = FirstLines(T, k)
  BY FirstLinesText
<1>2. Len(s) = k /\ at \in Nat /\ k \in Nat /\ FirstLines(s, at) = FirstLines(T, at)
  BY <1>1 DEF FirstLines, Texts
<1>3. InFile(s, at, remove) /\ Below(s, at, remove) = << >>
  BY <1>2 DEF InFile, Below
<1>4. FirstLines(s, at) \in Texts(V)
  BY <1>3, SpliceInside
<1>5. L!Splice(s, at, remove, body) = Join(Join(FirstLines(s, at), body), << >>)
  BY <1>3, SpliceInside
<1>6. Join(Join(FirstLines(s, at), body), << >>) = Join(FirstLines(s, at), body)
  BY <1>4, JoinTexts
<1> QED BY <1>1, <1>2, <1>3, <1>5, <1>6

\* P[k] is f[0] to f[k] joined.
Joins(V, P, f, n) ==
  /\ P \in [0 .. n -> Texts(V)] /\ f \in [0 .. n -> Texts(V)]
  /\ P[0] = f[0]
  /\ \A k \in 1 .. n : P[k] = Join(P[k - 1], f[k])

\* Joined up to a line that no op touches the lines are those of the file.
LEMMA Untouched ==
  ASSUME NEW V, NEW T \in Texts(V), NEW P, NEW f, Joins(V, P, f, Len(T)), NEW m \in 0 .. Len(T),
         f[0] = << >>, \A k \in 1 .. m : f[k] = <<T[k]>>
  PROVE  \A k \in 0 .. m : P[k] = FirstLines(T, k)
<1> DEFINE Q == {k \in 0 .. m : P[k] = FirstLines(T, k)}
<1>0. Len(T) \in Nat /\ m \in Nat /\ 0 \in 0 .. m /\ 0 \in Nat
  BY FirstLinesText
<1>1. 0 \in Q
  BY <1>0, FirstLinesText DEF Joins
<1>2. ASSUME NEW k \in 0 + 1 .. m, k - 1 \in Q PROVE k \in Q
  <2>1. k \in 1 .. Len(T) /\ k \in 1 .. m /\ k \in 0 .. Len(T) /\ k # 0 /\ k \in 0 .. m
    BY <1>0
  <2>2. P[k] = Join(P[k - 1], f[k])
    BY <2>1 DEF Joins
  <2>3. FirstLines(T, k) = Join(FirstLines(T, k - 1), <<T[k]>>)
    BY <2>1, FirstLinesText
  <2> QED BY <1>2, <2>1, <2>2, <2>3
<1>3. \A k \in 0 .. m : k \in Q
  <2> HIDE DEF Q
  <2> QED BY <1>0, <1>1, <1>2, IntervalInduction
<1> QED BY <1>3

\* Nothing is joined.
LEMMA NothingJoined ==
  ASSUME NEW V, NEW n \in Nat, NEW P, NEW f, Joins(V, P, f, n), NEW m \in 0 .. n, NEW l \in m .. n,
         \A k \in m + 1 .. l : f[k] = << >>
  PROVE  P[l] = P[m]
<1> DEFINE Q == {k \in m .. l : P[k] = P[m]}
<1>0. m \in Nat /\ l \in Nat
  OBVIOUS
<1>1. m \in Q
  BY <1>0
<1>2. ASSUME NEW k \in m + 1 .. l, k - 1 \in Q PROVE k \in Q
  <2>1. k \in 1 .. n /\ k \in m .. l /\ k - 1 \in 0 .. n
    BY <1>0
  <2>2. P[k] = Join(P[k - 1], << >>) /\ P[k - 1] \in Texts(V)
    BY <1>2, <2>1 DEF Joins
  <2>3. P[k] = P[k - 1]
    BY <2>2, JoinTexts
  <2> QED BY <1>2, <2>1, <2>3
<1>3. \A k \in m .. l : k \in Q
  <2> HIDE DEF Q
  <2> QED BY <1>0, <1>1, <1>2, IntervalInduction
<1> QED BY <1>0, <1>3

\* Below an op the lines are those below the lines it takes.
LEMMA GrowAlike ==
  ASSUME NEW V, NEW n \in Nat, NEW P, NEW f, Joins(V, P, f, n), NEW S, NEW g, Joins(V, S, g, n),
         NEW m \in 0 .. n, \A k \in m + 1 .. n : f[k] = g[k],
         NEW at, NEW remove, NEW body \in Texts(V), InFile(S[m], at, remove),
         P[m] = L!Splice(S[m], at, remove, body)
  PROVE  P[n] = L!Splice(S[n], at, remove, body)
<1> DEFINE Q == {k \in m .. n : /\ InFile(S[k], at, remove)
                                /\ P[k] = L!Splice(S[k], at, remove, body)}
<1>0. m \in Nat
  OBVIOUS
<1>1. m \in Q
  BY <1>0
<1>2. ASSUME NEW k \in m + 1 .. n, k - 1 \in Q PROVE k \in Q
  <2>1. k \in 1 .. n /\ k \in m .. n /\ k - 1 \in 0 .. n
    BY <1>0
  <2>2. PICK s \in Texts(V), t \in Texts(V) : s = S[k - 1] /\ t = g[k]
    BY <2>1 DEF Joins
  <2>3. S[k] = Join(s, t) /\ P[k] = Join(L!Splice(s, at, remove, body), t) /\ InFile(s, at, remove)
    BY <1>2, <2>1, <2>2 DEF Joins
  <2>4. /\ InFile(Join(s, t), at, remove)
        /\ L!Splice(Join(s, t), at, remove, body) = Join(L!Splice(s, at, remove, body), t)
    BY <2>3, SpliceGrows
  <2> QED BY <2>1, <2>3, <2>4
<1>3. \A k \in m .. n : k \in Q
  <2> HIDE DEF Q
  <2> QED BY <1>0, <1>1, <1>2, IntervalInduction
<1> QED BY <1>0, <1>3

\* An insertion after line p, where nothing above is touched: f has its body
\* after what g has.
Inserted(f, g, T, p, body) ==
  /\ g[0] = << >> /\ \A k \in 1 .. p : g[k] = <<T[k]>>
  /\ \A k \in 0 .. Len(T) : k # p => f[k] = g[k]
  /\ f[p] = Join(g[p], body)

\* An insertion lands after its line, however many lines are inserted below it.
LEMMA InsertLands ==
  ASSUME NEW V, NEW T \in Texts(V), NEW p \in 0 .. Len(T), NEW body \in Texts(V),
         NEW P, NEW f, Joins(V, P, f, Len(T)), NEW S, NEW g, Joins(V, S, g, Len(T)),
         Inserted(f, g, T, p, body)
  PROVE  P[Len(T)] = L!Splice(S[Len(T)], p, 0, body)
<1>0. Len(T) \in Nat /\ p \in Nat /\ p \in 0 .. p /\ 0 \in 0 .. Len(T)
  BY FirstLinesText
<1>1. \A k \in 0 .. p : S[k] = FirstLines(T, k)
  <2>1. g[0] = << >> /\ \A k \in 1 .. p : g[k] = <<T[k]>>
    BY DEF Inserted
  <2> QED BY <2>1, Untouched
<1>2. P[p] = Join(FirstLines(T, p), body)
  <2>1. CASE p = 0
    BY <1>0, <1>1, <2>1 DEF Inserted, Joins
  <2>2. CASE p # 0
    <3>1. p - 1 \in 0 .. Len(T) /\ p \in 1 .. Len(T) /\ p - 1 \in 0 .. p /\ p - 1 \in 0 .. p - 1
      BY <1>0, <2>2
    <3>2. f[0] = << >> /\ \A k \in 1 .. p - 1 : f[k] = <<T[k]>>
      BY <1>0, <2>2 DEF Inserted
    <3>3. \A k \in 0 .. p - 1 : P[k] = FirstLines(T, k)
      BY <3>1, <3>2, Untouched
    <3>4. P[p] = Join(FirstLines(T, p - 1), Join(<<T[p]>>, body))
      <4>1. f[p] = Join(<<T[p]>>, body)
        BY <1>0, <2>2 DEF Inserted
      <4>2. P[p] = Join(P[p - 1], f[p])
        BY <3>1 DEF Joins
      <4> QED BY <3>1, <3>3, <4>1, <4>2
    <3>5. /\ FirstLines(T, p - 1) \in Texts(V) /\ <<T[p]>> \in Texts(V)
          /\ FirstLines(T, p) = Join(FirstLines(T, p - 1), <<T[p]>>)
      BY <2>2, <3>1, FirstLinesText
    <3> QED BY <3>4, <3>5, JoinTexts
  <2> QED BY <2>1, <2>2
<1>3. /\ InFile(FirstLines(T, p), p, 0)
      /\ L!Splice(FirstLines(T, p), p, 0, body) = Join(FirstLines(T, p), body)
  <2>1. 0 = p - p
    BY <1>0
  <2> QED BY <1>0, <2>1, SpliceLast
<1>4. \A k \in p + 1 .. Len(T) : f[k] = g[k]
  BY <1>0 DEF Inserted
<1>5. InFile(S[p], p, 0) /\ P[p] = L!Splice(S[p], p, 0, body)
  BY <1>0, <1>1, <1>2, <1>3
<1> QED BY <1>0, <1>4, <1>5, GrowAlike

\* The lines a to b taken away for body, where nothing is touched above and between
\* them, and rest is inserted after them.
Replaced(f, g, T, a, b, body, rest) ==
  /\ g[0] = << >> /\ \A k \in 1 .. b - 1 : g[k] = <<T[k]>>
  /\ g[b] = Join(<<T[b]>>, rest)
  /\ \A k \in 0 .. a - 1 : f[k] = g[k]
  /\ \A k \in a + 1 .. b - 1 : f[k] = << >>
  /\ IF a = b THEN f[a] = Join(body, rest) ELSE f[a] = body /\ f[b] = rest
  /\ \A k \in b + 1 .. Len(T) : f[k] = g[k]

\* A range's body stands in place of its lines, whatever follows them.
LEMMA RangeLands ==
  ASSUME NEW V, NEW T \in Texts(V), NEW a \in 1 .. Len(T), NEW b \in a .. Len(T),
         NEW body \in Texts(V), NEW rest \in Texts(V),
         NEW P, NEW f, Joins(V, P, f, Len(T)), NEW S, NEW g, Joins(V, S, g, Len(T)),
         Replaced(f, g, T, a, b, body, rest)
  PROVE  P[Len(T)] = L!Splice(S[Len(T)], a - 1, b - a + 1, body)
<1>0. /\ Len(T) \in Nat /\ a \in Nat /\ b \in Nat /\ 1 <= a /\ a <= b /\ b <= Len(T)
      /\ 0 \in 0 .. Len(T)
  BY FirstLinesText
<1>1. PICK at, remove : at = a - 1 /\ remove = b - a + 1
  OBVIOUS
<1>2. /\ at \in 0 .. Len(T) /\ at \in 0 .. b /\ remove = b - at /\ at \in 0 .. at
      /\ b \in 0 .. Len(T) /\ b \in 1 .. Len(T) /\ a \in 1 .. Len(T)
  BY <1>0, <1>1
<1>3. /\ FirstLines(T, at) \in Texts(V) /\ FirstLines(T, b) \in Texts(V)
      /\ FirstLines(T, b - 1) \in Texts(V) /\ <<T[b]>> \in Texts(V)
      /\ FirstLines(T, b) = Join(FirstLines(T, b - 1), <<T[b]>>)
  <2>1. b - 1 \in 0 .. Len(T) /\ b # 0
    BY <1>0
  <2> QED BY <1>2, <2>1, FirstLinesText
<1>4. S[b] = Join(FirstLines(T, b), rest)
  <2>1. b - 1 \in 0 .. Len(T) /\ b - 1 \in 0 .. b - 1
    BY <1>0
  <2>2. g[0] = << >> /\ \A k \in 1 .. b - 1 : g[k] = <<T[k]>>
    BY DEF Replaced
  <2>3. \A k \in 0 .. b - 1 : S[k] = FirstLines(T, k)
    BY <2>1, <2>2, Untouched
  <2>4. S[b] = Join(FirstLines(T, b - 1), Join(<<T[b]>>, rest))
    BY <1>2, <2>1, <2>3 DEF Replaced, Joins
  <2> QED BY <1>3, <2>4, JoinTexts
<1>5. P[at] = FirstLines(T, at)
  <2>1. f[0] = << >> /\ \A k \in 1 .. at : f[k] = <<T[k]>>
    <3>1. 0 \in 0 .. a - 1 /\ \A k \in 1 .. at : k \in 0 .. a - 1 /\ k \in 1 .. b - 1
      BY <1>0, <1>1
    <3> QED BY <3>1 DEF Replaced
  <2>2. \A k \in 0 .. at : P[k] = FirstLines(T, k)
    BY <1>2, <2>1, Untouched
  <2> QED BY <1>2, <2>2
<1>6. P[b] = Join(Join(FirstLines(T, at), body), rest)
  <2>1. P[a] = Join(FirstLines(T, at), f[a])
    BY <1>1, <1>2, <1>5 DEF Joins
  <2>2. CASE a = b
    <3>1. P[b] = Join(FirstLines(T, at), Join(body, rest))
      BY <2>1, <2>2 DEF Replaced
    <3> QED BY <1>3, <3>1, JoinTexts
  <2>3. CASE a # b
    <3>1. a \in 0 .. Len(T) /\ b - 1 \in a .. Len(T)
      BY <1>0, <2>3
    <3>2. \A k \in a + 1 .. b - 1 : f[k] = << >>
      BY DEF Replaced
    <3>3. P[b - 1] = P[a]
      <4>1. PICK l \in a .. Len(T) : l = b - 1
        BY <3>1
      <4>2. \A k \in a + 1 .. l : f[k] = << >>
        BY <3>2, <4>1
      <4>3. P[l] = P[a]
        BY <1>0, <3>1, <4>2, NothingJoined
      <4> QED BY <4>1, <4>3
    <3> QED BY <1>2, <2>1, <2>3, <3>1, <3>3 DEF Replaced, Joins
  <2> QED BY <2>2, <2>3
<1>7. /\ InFile(FirstLines(T, b), at, remove)
      /\ L!Splice(FirstLines(T, b), at, remove, body) = Join(FirstLines(T, at), body)
  BY <1>2, SpliceLast
<1>8. /\ InFile(Join(FirstLines(T, b), rest), at, remove)
      /\ L!Splice(Join(FirstLines(T, b), rest), at, remove, body)
           = Join(L!Splice(FirstLines(T, b), at, remove, body), rest)
  BY <1>3, <1>7, SpliceGrows
<1>9. InFile(S[b], at, remove) /\ P[b] = L!Splice(S[b], at, remove, body)
  BY <1>4, <1>6, <1>7, <1>8
<1>10. \A k \in b + 1 .. Len(T) : f[k] = g[k]
  BY <1>0 DEF Replaced
<1>11. P[Len(T)] = L!Splice(S[Len(T)], at, remove, body)
  BY <1>0, <1>2, <1>9, <1>10, GrowAlike
<1> QED BY <1>1, <1>11

\* FlattenSeq joins the texts one by one.
LEMMA FlattenJoins ==
  ASSUME NEW V, NEW n \in Nat, NEW f \in [0 .. n -> Texts(V)]
  PROVE  \E P : /\ Joins(V, P, f, n)
                /\ L!FlattenSeq([k \in 1 .. n + 1 |-> f[k - 1]]) = P[n]
<1> DEFINE D == 1 .. n + 1
           W == Texts(V)
           op == [p \in D \X W |-> IF p[1] = 1 THEN f[0] ELSE Join(p[2], f[p[1] - 1])]
           c == [s \in SUBSET D |-> Greatest(s)]
<1>0. IsFiniteSet(D) /\ << >> \in W /\ n + 1 \in Nat /\ f[0] \in W
  <2>1. IsFiniteSet(D)
    BY FS_Interval
  <2>2. << >> \in W
    BY DEF Texts
  <2> QED BY <2>1, <2>2
<1>1. \A i \in D, v \in W : /\ op[<<i, v>>] = IF i = 1 THEN f[0] ELSE Join(v, f[i - 1])
                            /\ op[<<i, v>>] \in W
  <2> SUFFICES ASSUME NEW i \in D, NEW v \in W
               PROVE  /\ op[<<i, v>>] = IF i = 1 THEN f[0] ELSE Join(v, f[i - 1])
                      /\ op[<<i, v>>] \in W
    OBVIOUS
  <2>1. op[<<i, v>>] = IF i = 1 THEN f[0] ELSE Join(v, f[i - 1])
    OBVIOUS
  <2>2. PICK j : j = i - 1 /\ f[j] \in W
    OBVIOUS
  <2>3. Join(v, f[j]) \in W
    BY <2>2, JoinTexts
  <2> QED BY <1>0, <2>1, <2>2, <2>3
<1>2. op \in [D \X W -> W]
  BY <1>1
<1>3. \A s \in SUBSET D : s # {} => c[s] \in s
  BY <1>0, GreatestIsIn
<1>4. \A s \in SUBSET D : c[s] = Greatest(s)
  OBVIOUS
<1> HIDE DEF op, c, W
<1>5. PICK h \in [SUBSET D -> W] : Folds(h, D, << >>, op, c)
  <2> HIDE DEF D
  <2> QED BY <1>0, <1>2, <1>3, FoldExists
<1>6. ASSUME NEW i \in D
      PROVE  h[1 .. i] = IF i = 1 THEN f[0] ELSE Join(h[1 .. i - 1], f[i - 1])
  <2>1. Greatest(1 .. i) = i /\ (1 .. i) \ {i} = 1 .. i - 1
    BY GreatestOfInterval
  <2>2. 1 .. i \in SUBSET D /\ 1 .. i # {} /\ 1 .. i - 1 \in SUBSET D
    <3>1. i \in Nat /\ 1 <= i /\ i <= n + 1 /\ 1 \in 1 .. i
      OBVIOUS
    <3>2. \A j \in 1 .. i : j \in D
      BY <3>1
    <3>3. \A j \in 1 .. i - 1 : j \in D
      BY <3>1
    <3> QED BY <3>1, <3>2, <3>3
  <2>3. c[1 .. i] = i
    BY <1>4, <2>1, <2>2
  <2>4. h[1 .. i] = op[<<i, h[1 .. i - 1]>>] /\ h[1 .. i - 1] \in W
    <3> HIDE DEF D
    <3> QED BY <1>5, <2>1, <2>2, <2>3 DEF Folds
  <2> QED BY <1>1, <2>4
<1> DEFINE seqs == [k \in 1 .. n + 1 |-> f[k - 1]]
           Eq(g) == g = [i \in 1 .. Len(seqs) |-> IF i = 1 THEN seqs[i] ELSE g[i - 1] \o seqs[i]]
           flatten == CHOOSE g : Eq(g)
<1>7. Len(seqs) = n + 1 /\ \A k \in D : seqs[k] = f[k - 1]
  <2>1. DOMAIN seqs = 1 .. n + 1
    OBVIOUS
  <2> QED BY <1>0, <2>1
<1> HIDE DEF seqs
<1>8. Eq([i \in D |-> h[1 .. i]])
  <2> DEFINE G == [i \in D |-> h[1 .. i]]
  <2>1. ASSUME NEW i \in D PROVE G[i] = IF i = 1 THEN seqs[i] ELSE G[i - 1] \o seqs[i]
    <3>1. G[i] = h[1 .. i] /\ (i # 1 => i - 1 \in D /\ G[i - 1] = h[1 .. i - 1])
      OBVIOUS
    <3>2. seqs[i] = f[i - 1] /\ (i = 1 => f[i - 1] = f[0])
      BY <1>7
    <3> HIDE DEF G
    <3> QED BY <1>6, <3>1, <3>2 DEF Join
  <2>2. G = [i \in D |-> IF i = 1 THEN seqs[i] ELSE G[i - 1] \o seqs[i]]
    BY <2>1
  <2> QED BY <1>7, <2>2
<1>9. Eq(flatten)
  BY <1>8
<1>10. L!FlattenSeq(seqs) = flatten[n + 1]
  BY <1>0, <1>7 DEF L!FlattenSeq
<1> HIDE DEF flatten
<1>11. \A i \in D : flatten[i] = IF i = 1 THEN f[0] ELSE Join(flatten[i - 1], f[i - 1])
  <2>1. flatten = [i \in D |-> IF i = 1 THEN seqs[i] ELSE flatten[i - 1] \o seqs[i]]
    BY <1>7, <1>9
  <2> HIDE DEF Eq
  <2>2. \A i \in D : flatten[i] = IF i = 1 THEN seqs[i] ELSE flatten[i - 1] \o seqs[i]
    BY <2>1
  <2> QED BY <1>7, <2>2 DEF Join
<1> HIDE DEF Eq
<1> DEFINE P == [k \in 0 .. n |-> flatten[k + 1]]
<1>12. P[0] = f[0] /\ P[n] = flatten[n + 1] /\ \A k \in 1 .. n : P[k] = Join(P[k - 1], f[k])
  <2>1. P[0] = f[0]
    BY <1>11
  <2>2. ASSUME NEW k \in 1 .. n PROVE P[k] = Join(P[k - 1], f[k])
    <3>1. k + 1 \in D /\ k + 1 # 1 /\ (k + 1) - 1 = k /\ k - 1 \in 0 .. n /\ (k - 1) + 1 = k
      OBVIOUS
    <3>2. flatten[k + 1] = Join(flatten[k], f[k])
      BY <1>11, <3>1
    <3> QED BY <3>1, <3>2
  <2>3. P[n] = flatten[n + 1]
    OBVIOUS
  <2> HIDE DEF P
  <2> QED BY <2>1, <2>2, <2>3
<1> HIDE DEF P
<1>13. \A k \in 0 .. n : P[k] \in W
  <2> DEFINE Q == {k \in 0 .. n : P[k] \in W}
  <2>1. 0 \in Q /\ 0 \in Nat
    BY <1>0, <1>12
  <2>2. ASSUME NEW k \in 0 + 1 .. n, k - 1 \in Q PROVE k \in Q
    <3>1. k \in 1 .. n /\ k \in 0 .. n /\ P[k - 1] \in W
      BY <2>2
    <3>2. P[k] = Join(P[k - 1], f[k]) /\ f[k] \in W
      BY <1>12, <3>1 DEF W
    <3>3. Join(P[k - 1], f[k]) \in W
      BY <3>1, <3>2, JoinTexts DEF W
    <3> QED BY <3>1, <3>2, <3>3
  <2>3. \A k \in 0 .. n : k \in Q
    <3> HIDE DEF Q
    <3> QED BY <2>1, <2>2, IntervalInduction
  <2> QED BY <2>3
<1>14. P \in [0 .. n -> W]
  BY <1>13 DEF P
<1> QED BY <1>10, <1>12, <1>14 DEF Joins, W, seqs

-----------------------------------------------------------------------------
(* The ops of one call on the file.                                        *)

\* The lines of the file, and of the bodies of edits.
Lines == Nat \X Nat
Content == text[Existing]

\* The ops on the file, when all are in range.
IsClearOp(i) ==
  /\ i \in Nat
  /\ edits[i].op \in {"replace", "delete", "insert"}
  /\ edits[i].start \in Nat /\ edits[i].end \in Int
  /\ edits[i].body \in Texts(Lines)
  /\ L!InBounds(edits[i], Len(Content))

InsertsAt(is, k) == {i \in is : edits[i].op = "insert" /\ edits[i].start = k}
RangesOver(is, k) == {i \in is : L!IsRange(edits[i]) /\ k \in edits[i].start .. edits[i].end}

\* No two ops of is are about the same place: the accepted calls that are unambiguous.
AreClear(is) ==
  /\ \A i \in is : IsClearOp(i)
  /\ \A i, j \in is : L!IsRange(edits[i]) /\ L!IsRange(edits[j]) /\ i # j =>
       edits[i].end < edits[j].start \/ edits[j].end < edits[i].start
  /\ \A i, j \in is : edits[i].op = "insert" /\ edits[j].op = "insert" /\ i # j =>
       edits[i].start # edits[j].start
  /\ \A i, j \in is : edits[i].op = "insert" /\ L!IsRange(edits[j])
                      /\ edits[i].start \in edits[j].start .. edits[j].end =>
       /\ edits[i].start = edits[j].end
       /\ edits[i].start = edits[j].start => i < j

\* What the ops in is make of line k, and insert after it.
LineOf(is, k) ==
  IF k = 0 THEN << >>
  ELSE IF RangesOver(is, k) = {} THEN <<Content[k]>>
  ELSE L!Body({i \in RangesOver(is, k) : edits[i].op = "replace" /\ edits[i].start = k})
Segments(is) == [k \in 0 .. Len(Content) |-> Join(LineOf(is, k), L!Body(InsertsAt(is, k)))]

\* The ops of is but x all come before x in the order of application.
ComesLast(x, is) ==
  x \in is /\ \A j \in is \ {x} :
    edits[j].start > edits[x].start \/ (edits[j].start = edits[x].start /\ j < x)

\* Some op does.
LEMMA SomeOpComesLast ==
  ASSUME NEW n \in Nat, NEW is \in SUBSET (1 .. n), is # {}, \A i \in is : edits[i].start \in Nat
  PROVE  ComesLast(L!LastApplied(is), is)
<1> DEFINE Starts == {edits[i].start : i \in is}
<1>1. PICK m \in Starts : \A k \in Starts : m <= k
  <2>1. Starts \in SUBSET Nat /\ Starts # {}
    OBVIOUS
  <2> QED BY <2>1, LeastNumber
<1> DEFINE Lowest == {i \in is : edits[i].start = m}
<1>2. PICK x \in Lowest : \A i \in Lowest : x >= i
  <2>1. Lowest \in SUBSET (1 .. n) /\ Lowest # {}
    BY <1>1
  <2> HIDE DEF Lowest
  <2> QED BY <2>1, GreatestIsIn
<1>3. ASSUME NEW j \in is \ {x}
      PROVE  edits[j].start > edits[x].start \/ (edits[j].start = edits[x].start /\ j < x)
  <2>1. x \in is /\ edits[x].start = m /\ edits[j].start \in Starts /\ x \in Nat /\ j \in Nat
    OBVIOUS
  <2>2. CASE edits[j].start = m
    <3>1. j \in Lowest /\ j # x
      BY <2>2
    <3>2. x >= j
      BY <1>2, <3>1
    <3> QED BY <2>1, <2>2, <3>1, <3>2
  <2>3. CASE edits[j].start # m
    <3>1. m <= edits[j].start /\ m \in Nat /\ edits[j].start \in Nat
      BY <1>1, <2>1
    <3> QED BY <2>1, <2>3, <3>1
  <2> QED BY <2>2, <2>3
<1>4. x \in is /\ \A j \in is \ {x} :
        edits[j].start > edits[x].start \/ (edits[j].start = edits[x].start /\ j < x)
  BY <1>3
<1> QED BY <1>4 DEF L!LastApplied, ComesLast

\* The body of the one op there is, or of none.
LEMMA BodyOf ==
  ASSUME NEW V, NEW is, \A i \in is : edits[i].body \in Texts(V)
  PROVE  /\ L!Body(is) \in Texts(V)
         /\ is = {} => L!Body(is) = << >>
         /\ \A i : is = {i} => L!Body(is) = edits[i].body
<1>1. << >> \in Texts(V)
  BY DEF Texts
<1> QED BY <1>1 DEF L!Body

\* What the ops make of each line is a text.
LEMMA SegmentsTypes ==
  ASSUME Content \in Texts(Lines), NEW is, \A i \in is : IsClearOp(i)
  PROVE  /\ \A k \in 0 .. Len(Content) : LineOf(is, k) \in Texts(Lines)
         /\ \A k : L!Body(InsertsAt(is, k)) \in Texts(Lines)
         /\ Segments(is) \in [0 .. Len(Content) -> Texts(Lines)]
<1>1. ASSUME NEW k PROVE L!Body(InsertsAt(is, k)) \in Texts(Lines)
  <2>1. \A i \in InsertsAt(is, k) : edits[i].body \in Texts(Lines)
    BY DEF InsertsAt, IsClearOp
  <2> QED BY <2>1, BodyOf
<1>2. ASSUME NEW k \in 0 .. Len(Content) PROVE LineOf(is, k) \in Texts(Lines)
  <2> DEFINE starts == {i \in RangesOver(is, k) : edits[i].op = "replace" /\ edits[i].start = k}
  <2>1. \A i \in starts : edits[i].body \in Texts(Lines)
    BY DEF RangesOver, IsClearOp
  <2>2. L!Body(starts) \in Texts(Lines)
    <3> HIDE DEF starts
    <3> QED BY <2>1, BodyOf
  <2>3. << >> \in Texts(Lines)
    BY DEF Texts
  <2>4. k # 0 => <<Content[k]>> \in Texts(Lines)
    BY FirstLinesText
  <2> HIDE DEF starts
  <2> QED BY <2>2, <2>3, <2>4 DEF LineOf, starts
<1>3. \A k \in 0 .. Len(Content) : Join(LineOf(is, k), L!Body(InsertsAt(is, k))) \in Texts(Lines)
  BY <1>1, <1>2, JoinTexts
<1> QED BY <1>1, <1>2, <1>3 DEF Segments

\* Where no op is, the segment is the line.
LEMMA QuietSegment ==
  ASSUME Content \in Texts(Lines), NEW is, NEW k \in 0 .. Len(Content),
         RangesOver(is, k) = {}, InsertsAt(is, k) = {}
  PROVE  Segments(is)[k] = IF k = 0 THEN << >> ELSE <<Content[k]>>
<1>1. L!Body(InsertsAt(is, k)) = << >>
  BY DEF L!Body
<1>2. LineOf(is, k) = IF k = 0 THEN << >> ELSE <<Content[k]>>
  BY DEF LineOf
<1>3. LineOf(is, k) \in Texts(Lines)
  BY <1>2, FirstLinesText DEF Texts
<1>4. Segments(is)[k] = Join(LineOf(is, k), << >>)
  BY <1>1 DEF Segments
<1> QED BY <1>2, <1>3, <1>4, JoinTexts

\* Equal ops make equal segments.
LEMMA SameSegment ==
  ASSUME NEW is, NEW js, NEW k \in 0 .. Len(Content),
         RangesOver(is, k) = RangesOver(js, k), InsertsAt(is, k) = InsertsAt(js, k)
  PROVE  Segments(is)[k] = Segments(js)[k]
BY DEF Segments, LineOf

\* The op that comes last, if it is an insertion, is below no other op.
LEMMA LastInsertion ==
  ASSUME Content \in Texts(Lines), NEW is, AreClear(is), NEW x, ComesLast(x, is),
         edits[x].op = "insert"
  PROVE  /\ edits[x].start \in 0 .. Len(Content)
         /\ Inserted(Segments(is), Segments(is \ {x}), Content, edits[x].start, edits[x].body)
<1> DEFINE r == is \ {x}
           p == edits[x].start
           n == Len(Content)
<1>0. /\ x \in is /\ IsClearOp(x) /\ p \in 0 .. n /\ n \in Nat /\ ~L!IsRange(edits[x])
  BY FirstLinesText DEF ComesLast, AreClear, IsClearOp, L!InBounds, L!IsRange
<1>1. ASSUME NEW j \in r PROVE edits[j].start > p /\ IsClearOp(j)
  <2>1. j \in is /\ j # x /\ IsClearOp(j) /\ (edits[j].start > p \/ (edits[j].start = p /\ j < x))
    BY <1>1 DEF ComesLast, AreClear
  <2>2. CASE edits[j].op = "insert"
    BY <1>0, <2>1, <2>2 DEF AreClear
  <2>3. CASE edits[j].op # "insert"
    <3>1. L!IsRange(edits[j]) /\ edits[j].start <= edits[j].end /\ edits[j].start \in Nat
          /\ edits[j].end \in Int
      BY <2>1, <2>3 DEF IsClearOp, L!IsRange, L!InBounds
    <3>2. ASSUME edits[j].start = p PROVE FALSE
      <4>1. p \in edits[j].start .. edits[j].end /\ j < x /\ j \in Nat /\ x \in Nat
        BY <1>0, <2>1, <3>1, <3>2 DEF IsClearOp
      <4>2. x < j
        BY <1>0, <2>1, <3>1, <3>2, <4>1 DEF AreClear
      <4> QED BY <4>1, <4>2
    <3> QED BY <2>1, <3>2
  <2> QED BY <2>2, <2>3
<1>2. ASSUME NEW k \in 0 .. p PROVE RangesOver(r, k) = {} /\ InsertsAt(r, k) = {}
  <2>1. \A j \in r : edits[j].start > p /\ edits[j].start \in Nat /\ edits[j].end \in Int
    BY <1>1 DEF IsClearOp
  <2> HIDE DEF r
  <2>2. RangesOver(r, k) = {}
    BY <1>0, <2>1 DEF RangesOver
  <2>3. InsertsAt(r, k) = {}
    BY <1>0, <2>1 DEF InsertsAt
  <2> QED BY <2>2, <2>3
<1>3. \A k : RangesOver(is, k) = RangesOver(r, k)
  BY <1>0 DEF RangesOver
<1>4. \A k : k # p => InsertsAt(is, k) = InsertsAt(r, k)
  BY DEF InsertsAt
<1>5. InsertsAt(is, p) = {x}
  <2>1. \A j \in r : ~(edits[j].op = "insert" /\ edits[j].start = p)
    <3>1. p \in 0 .. p
      BY <1>0
    <3>2. InsertsAt(r, p) = {}
      BY <1>2, <3>1
    <3> QED BY <3>2 DEF InsertsAt
  <2> QED BY <1>0, <2>1 DEF InsertsAt
<1> HIDE DEF r, p, n
<1>6. Segments(r)[0] = << >> /\ \A k \in 1 .. p : Segments(r)[k] = <<Content[k]>>
  <2>1. ASSUME NEW k \in 0 .. p
        PROVE  Segments(r)[k] = IF k = 0 THEN << >> ELSE <<Content[k]>>
    <3>1. k \in 0 .. Len(Content)
      BY <1>0 DEF n
    <3> QED BY <1>2, <3>1, QuietSegment
  <2>2. 0 \in 0 .. p /\ \A k \in 1 .. p : k \in 0 .. p /\ k # 0
    BY <1>0
  <2> QED BY <2>1, <2>2
<1>7. \A k \in 0 .. n : k # p => Segments(is)[k] = Segments(r)[k]
  BY <1>3, <1>4, SameSegment DEF n
<1>8. Segments(is)[p] = Join(Segments(r)[p], edits[x].body)
  <2>1. L!Body(InsertsAt(is, p)) = edits[x].body
    <3>1. \A i \in InsertsAt(is, p) : edits[i].body \in Texts(Lines)
      BY <1>0, <1>5 DEF IsClearOp
    <3> QED BY <1>5, <3>1, BodyOf
  <2>2. LineOf(is, p) = LineOf(r, p)
    <3>1. RangesOver(is, p) = RangesOver(r, p)
      BY <1>3
    <3> QED BY <3>1 DEF LineOf
  <2>3. LineOf(r, p) \in Texts(Lines) /\ Segments(r)[p] = LineOf(r, p)
    <3>1. \A i \in r : IsClearOp(i)
      BY <1>1
    <3>2. LineOf(r, p) \in Texts(Lines)
      BY <1>0, <3>1, SegmentsTypes DEF n
    <3>3. L!Body(InsertsAt(r, p)) = << >>
      BY <1>0, <1>2 DEF L!Body
    <3>4. Segments(r)[p] = Join(LineOf(r, p), << >>)
      BY <1>0, <3>3 DEF Segments, n
    <3> QED BY <3>2, <3>4, JoinTexts
  <2>4. Segments(is)[p] = Join(LineOf(is, p), L!Body(InsertsAt(is, p)))
    BY <1>0 DEF Segments, n
  <2> QED BY <2>1, <2>2, <2>3, <2>4
<1> QED BY <1>0, <1>6, <1>7, <1>8 DEF Inserted, r, p, n

\* The op that comes last, if it takes lines away, is below no other op but an insertion
\* right after it.
LEMMA LastRange ==
  ASSUME Content \in Texts(Lines), NEW is, AreClear(is), NEW x, ComesLast(x, is),
         L!IsRange(edits[x]), NEW a, a = edits[x].start, NEW b, b = edits[x].end
  PROVE  /\ a \in 1 .. Len(Content) /\ b \in a .. Len(Content)
         /\ Replaced(Segments(is), Segments(is \ {x}), Content, a, b,
                     IF edits[x].op = "replace" THEN edits[x].body ELSE << >>,
                     L!Body(InsertsAt(is, b)))
<1> DEFINE r == is \ {x}
           n == Len(Content)
           body == IF edits[x].op = "replace" THEN edits[x].body ELSE << >>
<1>0. /\ x \in is /\ IsClearOp(x) /\ n \in Nat /\ edits[x].op # "insert"
      /\ a \in Nat /\ b \in Int /\ 1 <= a /\ a <= b /\ b <= n
  BY FirstLinesText DEF ComesLast, AreClear, IsClearOp, L!InBounds, L!IsRange
<1>1. ASSUME NEW j \in r
      PROVE  /\ L!IsRange(edits[j]) => edits[j].start > b
             /\ edits[j].op = "insert" => edits[j].start >= b
             /\ edits[j].start \in Nat /\ edits[j].end \in Int
  <2>1. /\ j \in is /\ j # x /\ IsClearOp(j) /\ edits[j].start >= a
        /\ edits[j].start \in Nat /\ edits[j].end \in Int
    BY <1>0, <1>1 DEF ComesLast, AreClear, IsClearOp
  <2>2. ASSUME L!IsRange(edits[j]) PROVE edits[j].start > b
    <3>1. edits[j].start <= edits[j].end
      BY <2>1, <2>2 DEF IsClearOp, L!InBounds, L!IsRange
    <3>2. edits[x].end < edits[j].start \/ edits[j].end < edits[x].start
      BY <1>0, <2>1, <2>2 DEF AreClear
    <3> QED BY <1>0, <2>1, <3>1, <3>2
  <2>3. ASSUME edits[j].op = "insert" PROVE edits[j].start >= b
    <3>1. edits[j].start \in a .. b => edits[j].start = b
      BY <1>0, <2>1, <2>3 DEF AreClear
    <3> QED BY <1>0, <2>1, <3>1
  <2> QED BY <2>1, <2>2, <2>3
<1>2. ASSUME NEW k \in 0 .. b
      PROVE  RangesOver(r, k) = {} /\ (k # b => InsertsAt(r, k) = {})
  <2> HIDE DEF r
  <2>1. RangesOver(r, k) = {}
    BY <1>0, <1>1 DEF RangesOver
  <2>2. k # b => InsertsAt(r, k) = {}
    BY <1>0, <1>1 DEF InsertsAt
  <2> QED BY <2>1, <2>2
<1>3. \A k : InsertsAt(is, k) = InsertsAt(r, k)
  BY <1>0 DEF InsertsAt
<1>4. \A k : IF k \in a .. b THEN RangesOver(is, k) = RangesOver(r, k) \cup {x}
                             ELSE RangesOver(is, k) = RangesOver(r, k)
  BY <1>0 DEF RangesOver
<1>5. a \in 1 .. n /\ b \in a .. n /\ b \in 0 .. n
  BY <1>0
<1> HIDE DEF r, n
<1>6. Segments(r)[0] = << >> /\ \A k \in 1 .. b - 1 : Segments(r)[k] = <<Content[k]>>
  <2>1. ASSUME NEW k \in 0 .. b - 1
        PROVE  Segments(r)[k] = IF k = 0 THEN << >> ELSE <<Content[k]>>
    <3>1. k \in 0 .. Len(Content) /\ k \in 0 .. b /\ k # b
      BY <1>0 DEF n
    <3> QED BY <1>2, <3>1, QuietSegment
  <2>2. 0 \in 0 .. b - 1 /\ \A k \in 1 .. b - 1 : k \in 0 .. b - 1 /\ k # 0
    BY <1>0
  <2> QED BY <2>1, <2>2
<1>7. Segments(r)[b] = Join(<<Content[b]>>, L!Body(InsertsAt(is, b)))
  <2>1. LineOf(r, b) = <<Content[b]>>
    BY <1>0, <1>2 DEF LineOf
  <2> QED BY <1>3, <1>5, <2>1 DEF Segments, n
<1>8. \A k \in 0 .. n : k \notin a .. b => Segments(is)[k] = Segments(r)[k]
  BY <1>3, <1>4, SameSegment DEF n
<1>9. ASSUME NEW k \in a .. b
      PROVE  LineOf(is, k) = IF k = a THEN body ELSE << >>
  <2>1. RangesOver(is, k) = {x} /\ k # 0
    BY <1>0, <1>2, <1>4
  <2> DEFINE starts == {i \in {x} : edits[i].op = "replace" /\ edits[i].start = k}
  <2>2. starts = IF edits[x].op = "replace" /\ k = a THEN {x} ELSE {}
    BY <1>0
  <2>3. \A i \in starts : edits[i].body \in Texts(Lines)
    BY <1>0 DEF IsClearOp
  <2>4. LineOf(is, k) = L!Body(starts)
    BY <2>1 DEF LineOf
  <2> HIDE DEF starts
  <2> QED BY <2>2, <2>3, <2>4, BodyOf
<1>10. ASSUME NEW k \in a .. b
       PROVE  /\ k # b => Segments(is)[k] = IF k = a THEN body ELSE << >>
              /\ k = b => Segments(is)[k] = IF k = a THEN Join(body, L!Body(InsertsAt(is, b)))
                                                     ELSE L!Body(InsertsAt(is, b))
  <2>1. Segments(is)[k] = Join(LineOf(is, k), L!Body(InsertsAt(is, k))) /\ k \in 0 .. n /\ k \in 0 .. b
    BY <1>0 DEF Segments, n
  <2>2. LineOf(is, k) \in Texts(Lines) /\ L!Body(InsertsAt(is, k)) \in Texts(Lines)
    <3>1. \A i \in is : IsClearOp(i)
      BY DEF AreClear
    <3> QED BY <2>1, <3>1, SegmentsTypes DEF n
  <2>3. k # b => L!Body(InsertsAt(is, k)) = << >>
    BY <1>2, <1>3, <2>1 DEF L!Body
  <2> HIDE DEF body
  <2>4. LineOf(is, k) = IF k = a THEN body ELSE << >>
    BY <1>9
  <2>5. << >> \in Texts(Lines)
    BY DEF Texts
  <2>6. /\ Join(LineOf(is, k), << >>) = LineOf(is, k)
        /\ Join(<< >>, L!Body(InsertsAt(is, k))) = L!Body(InsertsAt(is, k))
    BY <2>2, JoinTexts
  <2>7. CASE k # b
    BY <2>1, <2>3, <2>4, <2>6, <2>7
  <2>8. CASE k = b
    BY <2>1, <2>4, <2>6, <2>8
  <2> QED BY <2>7, <2>8
<1> HIDE DEF body
<1>11. /\ \A k \in 0 .. a - 1 : k \in 0 .. n /\ k \notin a .. b
       /\ \A k \in a + 1 .. b - 1 : k \in a .. b /\ k # a /\ k # b
       /\ \A k \in b + 1 .. n : k \in 0 .. n /\ k \notin a .. b
       /\ a \in a .. b /\ b \in a .. b
  BY <1>0
<1>12. Replaced(Segments(is), Segments(r), Content, a, b, body, L!Body(InsertsAt(is, b)))
  BY <1>6, <1>7, <1>8, <1>10, <1>11 DEF Replaced, n
<1> QED BY <1>5, <1>12 DEF r, n, body

\* An op that is in range takes away and adds lines of the file.
LEMMA OpsSplice ==
  ASSUME NEW i, IsClearOp(i), NEW lines
  PROVE  /\ edits[i].op = "insert" =>
              L!ApplyOp(edits[i], lines) = L!Splice(lines, edits[i].start, 0, edits[i].body)
         /\ L!IsRange(edits[i]) =>
              L!ApplyOp(edits[i], lines) =
                L!Splice(lines, edits[i].start - 1, edits[i].end - edits[i].start + 1,
                         IF edits[i].op = "replace" THEN edits[i].body ELSE << >>)
BY DEF L!ApplyOp, L!IsRange

\* Fewer ops are as clear.
LEMMA FewerAreClear ==
  ASSUME NEW is, AreClear(is), NEW js \in SUBSET is
  PROVE  AreClear(js)
BY DEF AreClear

\* What the ops in is make of the file.
Result(is) == L!FlattenSeq([k \in 1 .. Len(Content) + 1 |-> Segments(is)[k - 1]])

\* The result is the segments joined one by one.
LEMMA ResultJoins ==
  ASSUME Content \in Texts(Lines), NEW is, AreClear(is)
  PROVE  \E P : Joins(Lines, P, Segments(is), Len(Content)) /\ Result(is) = P[Len(Content)]
<1>1. Segments(is) \in [0 .. Len(Content) -> Texts(Lines)] /\ Len(Content) \in Nat
  BY SegmentsTypes DEF AreClear, Texts
<1> QED BY <1>1, FlattenJoins DEF Result

\* No op leaves the file as it is.
LEMMA NothingLands ==
  ASSUME Content \in Texts(Lines)
  PROVE  Result({}) = Content
<1> DEFINE n == Len(Content)
<1>1. PICK P : Joins(Lines, P, Segments({}), n) /\ Result({}) = P[n]
  BY ResultJoins DEF AreClear
<1>2. n \in Nat /\ n \in 0 .. n /\ 0 \in 0 .. n /\ \A k \in 1 .. n : k \in 0 .. n /\ k # 0
  BY DEF Texts
<1>3. ASSUME NEW k \in 0 .. n
      PROVE  Segments({})[k] = IF k = 0 THEN << >> ELSE <<Content[k]>>
  <2>1. RangesOver({}, k) = {} /\ InsertsAt({}, k) = {}
    BY DEF RangesOver, InsertsAt
  <2> QED BY <2>1, QuietSegment
<1>4. Segments({})[0] = << >> /\ \A k \in 1 .. n : Segments({})[k] = <<Content[k]>>
  BY <1>2, <1>3
<1>5. \A k \in 0 .. n : P[k] = FirstLines(Content, k)
  BY <1>1, <1>2, <1>4, Untouched
<1> QED BY <1>1, <1>2, <1>5, FirstLinesText

\* The op that comes last lands on what the others have made of the file.
LEMMA LastLands ==
  ASSUME Content \in Texts(Lines), NEW m \in Nat, NEW is \in SUBSET (1 .. m), is # {}, AreClear(is),
         NEW x, x = L!LastApplied(is)
  PROVE  x \in is /\ Result(is) = L!ApplyOp(edits[x], Result(is \ {x}))
<1> DEFINE n == Len(Content)
           r == is \ {x}
<1>1. ComesLast(x, is) /\ x \in is /\ IsClearOp(x)
  <2>1. \A i \in is : edits[i].start \in Nat /\ IsClearOp(i)
    BY DEF AreClear, IsClearOp
  <2>2. ComesLast(x, is)
    BY <2>1, SomeOpComesLast
  <2> QED BY <2>1, <2>2 DEF ComesLast
<1>2. AreClear(r)
  BY FewerAreClear
<1> HIDE DEF r, n
<1>3. PICK P : Joins(Lines, P, Segments(is), n) /\ Result(is) = P[n]
  BY ResultJoins DEF n
<1>4. PICK S : Joins(Lines, S, Segments(r), n) /\ Result(r) = S[n]
  BY <1>2, ResultJoins DEF n
<1>5. PICK a, b : a = edits[x].start /\ b = edits[x].end
  OBVIOUS
<1>6. edits[x].body \in Texts(Lines) /\ << >> \in Texts(Lines)
  BY <1>1 DEF IsClearOp, Texts
<1>7. CASE edits[x].op = "insert"
  <2>1. a \in 0 .. n /\ Inserted(Segments(is), Segments(r), Content, a, edits[x].body)
    BY <1>1, <1>5, <1>7, LastInsertion DEF r, n
  <2>2. P[n] = L!Splice(S[n], a, 0, edits[x].body)
    BY <1>3, <1>4, <1>6, <2>1, InsertLands DEF n
  <2> QED BY <1>1, <1>3, <1>4, <1>5, <1>7, <2>2, OpsSplice DEF r
<1>8. CASE L!IsRange(edits[x])
  <2> DEFINE body == IF edits[x].op = "replace" THEN edits[x].body ELSE << >>
             rest == L!Body(InsertsAt(is, b))
  <2>1. a \in 1 .. n /\ b \in a .. n /\ Replaced(Segments(is), Segments(r), Content, a, b, body, rest)
    BY <1>1, <1>5, <1>8, LastRange DEF r, n
  <2>2. body \in Texts(Lines) /\ rest \in Texts(Lines)
    <3>1. \A i \in is : IsClearOp(i)
      BY DEF AreClear
    <3> QED BY <1>6, <3>1, SegmentsTypes
  <2>3. L!ApplyOp(edits[x], S[n]) = L!Splice(S[n], a - 1, b - a + 1, body)
    BY <1>1, <1>5, <1>8, OpsSplice
  <2> HIDE DEF body, rest
  <2>4. P[n] = L!Splice(S[n], a - 1, b - a + 1, body)
    BY <1>3, <1>4, <2>1, <2>2, RangeLands DEF n
  <2> QED BY <1>1, <1>3, <1>4, <2>3, <2>4 DEF r
<1> QED BY <1>1, <1>7, <1>8 DEF IsClearOp, L!IsRange

\* All ops land, one after another.
LEMMA ClearOpsLand ==
  ASSUME Content \in Texts(Lines), NEW m \in Nat, NEW is \in SUBSET (1 .. m), AreClear(is)
  PROVE  L!MapThenFoldSet(L!ApplyOp, Content, LAMBDA i : edits[i], L!LastApplied, is) = Result(is)
<1> DEFINE Next1(g, s) == IF s = {} THEN Content
                          ELSE L!ApplyOp(edits[L!LastApplied(s)], g[s \ {L!LastApplied(s)}])
           Eq(g) == g = [s \in SUBSET is |-> Next1(g, s)]
           iter == CHOOSE g : Eq(g)
           R == [s \in SUBSET is |-> Result(s)]
<1>1. \A s \in SUBSET is : s # {} => L!LastApplied(s) \in s
  <2> SUFFICES ASSUME NEW s \in SUBSET is, s # {} PROVE L!LastApplied(s) \in s
    OBVIOUS
  <2>1. AreClear(s) /\ s \in SUBSET (1 .. m)
    BY FewerAreClear
  <2> QED BY <2>1, LastLands
<1>2. Eq(R)
  <2>1. ASSUME NEW s \in SUBSET is PROVE R[s] = Next1(R, s)
    <3>1. CASE s = {}
      BY <3>1, NothingLands
    <3>2. CASE s # {}
      <4>1. AreClear(s) /\ s \in SUBSET (1 .. m)
        BY FewerAreClear
      <4>2. PICK x : x = L!LastApplied(s)
        OBVIOUS
      <4>3. Result(s) = L!ApplyOp(edits[x], Result(s \ {x}))
        BY <3>2, <4>1, <4>2, LastLands
      <4>4. R[s] = Result(s) /\ R[s \ {x}] = Result(s \ {x})
        OBVIOUS
      <4> HIDE DEF R
      <4> QED BY <3>2, <4>2, <4>3, <4>4
    <3> QED BY <3>1, <3>2
  <2>2. R = [s \in SUBSET is |-> R[s]]
    OBVIOUS
  <2> HIDE DEF R, Next1
  <2> QED BY <2>1, <2>2
<1>3. L!MapThenFoldSet(L!ApplyOp, Content, LAMBDA i : edits[i], L!LastApplied, is) = iter[is]
  BY DEF L!MapThenFoldSet
<1>4. Eq(iter)
  <2> HIDE DEF R, Next1
  <2> QED BY <1>2
<1> HIDE DEF iter
<1>5. \A s \in SUBSET is : iter[s] = Next1(iter, s)
  <2> HIDE DEF Next1
  <2> QED BY <1>4
<1>6. \A s \in SUBSET is : R[s] = Next1(R, s)
  <2> HIDE DEF Next1, R
  <2> QED BY <1>2
<1> HIDE DEF Eq
<1> DEFINE Q == {s \in SUBSET is : iter[s] = R[s]}
<1>7. ASSUME NEW A \in SUBSET is, \A x \in A : A \ {x} \in Q PROVE A \in Q
  <2>1. CASE A = {}
    BY <1>5, <1>6, <2>1
  <2>2. CASE A # {}
    <3>1. PICK x : x = L!LastApplied(A)
      OBVIOUS
    <3>2. iter[A \ {x}] = R[A \ {x}]
      BY <1>1, <1>7, <2>2, <3>1
    <3>3. iter[A] = L!ApplyOp(edits[x], iter[A \ {x}]) /\ R[A] = L!ApplyOp(edits[x], R[A \ {x}])
      <4> HIDE DEF R
      <4> QED BY <1>5, <1>6, <2>2, <3>1
    <3> HIDE DEF R
    <3> QED BY <3>2, <3>3
  <2> QED BY <2>1, <2>2
<1>8. IsFiniteSet(is)
  <2>1. IsFiniteSet(1 .. m)
    BY FS_Interval
  <2> QED BY <2>1, FS_Subset
<1>9. is \in Q
  <2> HIDE DEF Q
  <2> QED BY <1>7, <1>8, SubsetInduction
<1>10. iter[is] = Result(is)
  BY <1>9
<1> QED BY <1>3, <1>10

\* What the file and the bodies are.
LineTypes ==
  /\ Content \in Texts(Lines) /\ Content # << >>
  /\ \A i \in DOMAIN edits : edits[i].body \in Texts(Lines)

\* Where the ops are, in the words of the property.
LEMMA OpsOfTheFile ==
  /\ \A k : InsertsAt(L!On(Existing), k) = L!Anchored(k)
  /\ \A k : RangesOver(L!On(Existing), k) = L!Covering(k)
  /\ L!Inserts = {i \in L!On(Existing) : edits[i].op = "insert"}
  /\ L!Ranges(Existing) = {i \in L!On(Existing) : L!IsRange(edits[i])}
BY DEF InsertsAt, RangesOver, L!Anchored, L!Inserts, L!Covering, L!Ranges

\* Unambiguous edits that are accepted are clear.
LEMMA AcceptedAreClear ==
  ASSUME EditTypes, LineTypes, Existing \in L!Edited, L!Accepted(Existing),
         L!Creates(Existing) = {}, L!Unambiguous
  PROVE  AreClear(L!On(Existing))
<1> DEFINE is == L!On(Existing)
           n == Len(Content)
<1>0. n \in Nat /\ DOMAIN text[Existing] = 1 .. n
  BY DEF EditTypes, Content
<1>1. ASSUME NEW i \in is PROVE IsClearOp(i) /\ i \in Nat
  <2>1. i \in DOMAIN edits /\ i \in Nat /\ edits[i].op # "create" /\ L!InBounds(edits[i], n)
    BY DEF L!On, L!Creates, L!Accepted, EditTypes, Content
  <2>2. IsEdit(edits[i]) /\ edits[i].body \in Texts(Lines)
    BY <2>1 DEF EditTypes, LineTypes
  <2> QED BY <2>1, <2>2 DEF IsEdit, OpNames, IsClearOp
<1>2. ASSUME NEW i \in is, NEW j \in is, L!IsRange(edits[i]), L!IsRange(edits[j]), i # j
      PROVE  edits[i].end < edits[j].start \/ edits[j].end < edits[i].start
  <2>1. i \in L!Ranges(Existing) /\ j \in L!Ranges(Existing)
    BY <1>2 DEF L!Ranges
  <2>2. ASSUME NEW k \in 1 .. n, Share(i, j, k) PROVE FALSE
    <3>1. {i, j} \subseteq L!Covering(k)
      BY <2>1, <2>2 DEF Share, L!Covering
    <3>2. Wrong(Existing)
      BY <1>0, <1>2, <2>1, <3>1 DEF Wrong
    <3> QED BY <3>2, WrongIsRefused
  <2>3. PICK a, b, c, d : a = edits[i].start /\ b = edits[i].end /\ c = edits[j].start /\ d = edits[j].end
    OBVIOUS
  <2>4. /\ a \in Nat /\ c \in Nat /\ b \in Int /\ d \in Int
        /\ 1 <= a /\ a <= b /\ b <= n /\ 1 <= c /\ c <= d /\ d <= n
    BY <1>1, <1>2, <2>3 DEF IsClearOp, L!InBounds, L!IsRange
  <2>5. ASSUME ~(b < c \/ d < a) PROVE FALSE
    <3>1. PICK k \in 1 .. n : k \in a .. b /\ k \in c .. d
      <4>1. a \in 1 .. n /\ c \in 1 .. n
        BY <1>0, <2>4
      <4>2. CASE a <= c
        BY <2>4, <2>5, <4>1, <4>2
      <4>3. CASE c <= a
        BY <2>4, <2>5, <4>1, <4>3
      <4> QED BY <2>4, <4>2, <4>3
    <3> QED BY <2>2, <2>3, <3>1 DEF Share
  <2> QED BY <2>3, <2>5
<1>3. ASSUME NEW i \in is, NEW j \in is, edits[i].op = "insert", edits[j].op = "insert", i # j
      PROVE  edits[i].start # edits[j].start
  BY <1>3, OpsOfTheFile DEF L!Unambiguous
<1>4. ASSUME NEW i \in is, NEW j \in is, edits[i].op = "insert", L!IsRange(edits[j]),
             edits[i].start \in edits[j].start .. edits[j].end
      PROVE  /\ edits[i].start = edits[j].end
             /\ edits[i].start = edits[j].start => i < j
  BY <1>4, OpsOfTheFile DEF L!Unambiguous
<1> HIDE DEF is
<1> QED BY <1>1, <1>2, <1>3, <1>4 DEF AreClear, is

\* What they make of the file is what the property says.
LEMMA AddressedIsResult ==
  ASSUME EditTypes
  PROVE  L!AsAddressed = L!ContentLines(Result(L!On(Existing)))
<1> DEFINE is == L!On(Existing)
           n == Len(Content)
           own(k) == IF k = 0 THEN << >>
                     ELSE IF L!Covering(k) = {} THEN <<Content[k]>>
                     ELSE L!Body({i \in L!Covering(k) : edits[i].op = "replace" /\ edits[i].start = k})
           f == [k \in 1 .. n + 1 |-> own(k - 1) \o L!Body(L!Anchored(k - 1))]
           g == [k \in 1 .. n + 1 |-> Segments(is)[k - 1]]
<1>1. L!AsAddressed = L!ContentLines(L!FlattenSeq(f))
  BY DEF L!AsAddressed, Content
<1>2. ASSUME NEW k PROVE LineOf(is, k) = own(k) /\ L!Body(InsertsAt(is, k)) = L!Body(L!Anchored(k))
  <2>1. InsertsAt(is, k) = L!Anchored(k) /\ RangesOver(is, k) = L!Covering(k)
    BY OpsOfTheFile
  <2> QED BY <2>1 DEF LineOf
<1> HIDE DEF own
<1>3. ASSUME NEW k \in 1 .. n + 1 PROVE f[k] = g[k]
  <2>1. n \in Nat /\ k - 1 \in 0 .. n
    BY DEF EditTypes, Content
  <2>2. PICK j : j = k - 1 /\ j \in 0 .. n
    BY <2>1
  <2>3. Segments(is)[j] = Join(LineOf(is, j), L!Body(InsertsAt(is, j)))
    BY <2>2 DEF Segments
  <2>4. f[k] = own(j) \o L!Body(L!Anchored(j)) /\ g[k] = Segments(is)[j]
    BY <2>2
  <2> QED BY <1>2, <2>3, <2>4 DEF Join
<1>4. f = g
  BY <1>3
<1> HIDE DEF f, g
<1> QED BY <1>1, <1>4 DEF Result, g

\* So the call saves it.
LEMMA ApplyLands ==
  ASSUME EditTypes, LineTypes, L!Creates(Existing) = {}, L!Unambiguous,
         \A path \in L!Edited : L!Accepted(path)
  PROVE  L!NewLines(Existing) = L!AsAddressed
<1> DEFINE is == L!On(Existing)
<1>1. L!AsAddressed = L!ContentLines(Result(is))
  BY AddressedIsResult
<1>2. CASE Existing \notin L!Edited
  <2>1. is = {}
    BY <1>2 DEF L!On, L!Edited
  <2>2. Result(is) = Content
    BY <2>1, NothingLands DEF LineTypes
  <2>3. L!NewLines(Existing) = Content
    BY <1>2 DEF L!NewLines, Content
  <2>4. L!ContentLines(Content) = Content
    BY DEF LineTypes, L!ContentLines
  <2> QED BY <1>1, <2>2, <2>3, <2>4
<1>3. CASE Existing \in L!Edited
  <2>1. AreClear(is)
    BY <1>3, AcceptedAreClear
  <2>2. Len(edits) \in Nat /\ is \in SUBSET (1 .. Len(edits))
    BY DEF EditTypes, L!On
  <2>3. L!MapThenFoldSet(L!ApplyOp, Content, LAMBDA i : edits[i], L!LastApplied, is) = Result(is)
    BY <2>1, <2>2, ClearOpsLand DEF LineTypes
  <2>4. L!NewLines(Existing)
          = L!ContentLines(L!MapThenFoldSet(L!ApplyOp, Content, LAMBDA i : edits[i], L!LastApplied, is))
    BY <1>3 DEF L!NewLines, Content
  <2> QED BY <1>1, <2>3, <2>4
<1> QED BY <1>2, <1>3

\* The edits and the file alone say what is asked for.
LEMMA AddressedStays ==
  ASSUME UNCHANGED <<text, edits>>
  PROVE  /\ L!AsAddressed' = L!AsAddressed
         /\ L!Creates(Existing)' = L!Creates(Existing)
         /\ L!Unambiguous' <=> L!Unambiguous
<1>1. L!AsAddressed' = L!AsAddressed
  BY DEF L!AsAddressed, L!Covering, L!Anchored, L!Inserts, L!Ranges, L!On, L!Body, L!ContentLines
<1>2. L!Creates(Existing)' = L!Creates(Existing)
  BY DEF L!Creates, L!On
<1>3. L!Unambiguous' <=> L!Unambiguous
  BY DEF L!Unambiguous, L!Inserts, L!Ranges, L!On
<1> QED BY <1>1, <1>2, <1>3

-----------------------------------------------------------------------------
(* The invariant of the edits.                                             *)

\* The inductive invariant of the edits.
EditIInv == part = "edits" => EditTypes /\ LineTypes /\ Verdict /\ L!EditsLandAsAddressed

\* The model adds an edit to its call.
LEMMA AddEditTypes ==
  ASSUME EditTypes, NEW path \in {Existing, Missing}, NEW op \in OpNames, NEW start \in Nat,
         NEW end \in Int, NEW size \in Nat, L!AddEdit(path, op, start, end, size)
  PROVE  EditTypes' /\ outcome' = "none"
<1>1. PICK e : /\ e.path = path /\ e.op = op /\ e.start = start /\ e.end = end
               /\ edits' = Append(edits, e)
  BY DEF L!AddEdit
<1>2. edits \in Seq(Range(edits) \cup {e})
  BY DEF EditTypes
<1>3. /\ DOMAIN edits' = DOMAIN edits \cup {Len(edits) + 1}
      /\ \A i \in DOMAIN edits : edits'[i] = edits[i]
      /\ edits'[Len(edits) + 1] = e
      /\ edits' \in Seq(Range(edits) \cup {e})
  BY <1>1, <1>2
<1>4. Range(edits') = Range(edits) \cup {e}
  BY <1>3 DEF Range
<1>5. \A i \in DOMAIN edits' : IsEdit(edits'[i])
  BY <1>1, <1>3 DEF EditTypes, IsEdit
<1> QED BY <1>3, <1>4, <1>5 DEF L!AddEdit, EditTypes

\* Its lines are lines.
LEMMA AddLineTypes ==
  ASSUME EditTypes, LineTypes, NEW path, NEW op, NEW start, NEW end, NEW size \in Nat,
         L!AddEdit(path, op, start, end, size)
  PROVE  LineTypes'
<1>1. PICK e : /\ e.body = [k \in 1 .. size |-> <<Len(edits) + 1, k>>]
               /\ edits' = Append(edits, e)
  BY DEF L!AddEdit
<1>2. edits \in Seq(Range(edits) \cup {e}) /\ Len(edits) \in Nat
  BY DEF EditTypes
<1>3. /\ DOMAIN edits' = DOMAIN edits \cup {Len(edits) + 1}
      /\ \A i \in DOMAIN edits : edits'[i] = edits[i]
      /\ edits'[Len(edits) + 1] = e
  BY <1>1, <1>2
<1>4. e.body \in Texts(Lines)
  BY <1>1, <1>2 DEF Texts, Lines
<1>5. Content' = Content
  BY DEF L!AddEdit, Content
<1> QED BY <1>3, <1>4, <1>5 DEF LineTypes

\* What is saved when it is applied.
LEMMA AppliedEditsLand ==
  ASSUME EditTypes, LineTypes, L!Apply
  PROVE  L!EditsLandAsAddressed'
<1>1. UNCHANGED <<text, edits>>
  BY DEF L!Apply
<1>2. ASSUME outcome' = "applied", L!Creates(Existing)' = {}, L!Unambiguous'
      PROVE  saved'[Existing] = L!AsAddressed'
  <2>1. /\ L!AsAddressed' = L!AsAddressed
        /\ L!Creates(Existing)' = L!Creates(Existing)
        /\ L!Unambiguous' <=> L!Unambiguous
    BY <1>1, AddressedStays
  <2>2. (\A path \in L!Edited : L!Accepted(path)) /\ saved' = L!ApplyEdits
    BY <1>2 DEF L!Apply
  <2>3. saved'[Existing] = L!NewLines(Existing)
    BY <2>2 DEF L!ApplyEdits, EditTypes
  <2> QED BY <1>2, <2>1, <2>2, <2>3, ApplyLands
<1> QED BY <1>2 DEF L!EditsLandAsAddressed

\* Every step preserves it.
LEMMA NextEditIInv ==
  ASSUME EditIInv, [NextTools]_<<part, allVars, lineVars>>
  PROVE  EditIInv'
<1>1. CASE part # "edits"
  BY <1>1 DEF NextTools, Edit, Calling, EditIInv
<1>2. CASE UNCHANGED <<part, lineVars>>
  <2>1. UNCHANGED <<text, edits, saved, outcome, part>>
    BY <1>2 DEF lineVars
  <2>2. part = "edits" => (L!EditsLandAsAddressed => L!EditsLandAsAddressed')
    BY <2>1, AddressedStays DEF L!EditsLandAsAddressed
  <2>3. EditTypes => EditTypes'
    BY <2>1 DEF EditTypes
  <2>4. LineTypes => LineTypes'
    BY <2>1 DEF LineTypes, Content
  <2>5. Verdict => Verdict'
    BY <2>1, WrongStays DEF Verdict, L!Edited
  <2> QED BY <2>1, <2>2, <2>3, <2>4, <2>5 DEF EditIInv
<1>3. CASE part = "edits" /\ Edit
  <2>0. EditTypes /\ LineTypes /\ part' = part
    BY <1>3 DEF EditIInv, Edit
  <2>1. ASSUME NEW path \in {Existing, Missing}, NEW op \in OpNames, NEW start \in Nat,
               NEW end \in Int, NEW size \in Nat, L!AddEdit(path, op, start, end, size)
        PROVE  EditIInv'
    <3>1. EditTypes' /\ outcome' = "none"
      BY <2>0, <2>1, AddEditTypes
    <3>2. LineTypes'
      BY <2>0, <2>1, AddLineTypes
    <3> QED BY <3>1, <3>2 DEF EditIInv, Verdict, L!EditsLandAsAddressed
  <2>2. CASE L!Apply
    <3>1. UNCHANGED <<text, edits>>
      BY <2>2 DEF L!Apply
    <3>2. EditTypes'
      BY <2>0, <3>1 DEF EditTypes
    <3>3. IF \A path \in L!Edited : ~Wrong(path)
          THEN outcome' = "applied" ELSE outcome' = "refused" /\ saved' = text
      BY <2>0, <2>2, WrongIsRefused DEF L!Apply
    <3>4. Verdict'
      BY <3>1, <3>3, WrongStays DEF Verdict, L!Edited
    <3>5. LineTypes'
      BY <2>0, <3>1 DEF LineTypes, Content
    <3>6. L!EditsLandAsAddressed'
      BY <2>0, <2>2, AppliedEditsLand
    <3> QED BY <3>2, <3>4, <3>5, <3>6 DEF EditIInv
  <2>3. BodySizes \subseteq Nat /\ 0 \in Nat /\ 0 \in Int
    BY LineEditsAssumption
  <2>4. \A start \in 0 .. MaxLines + 1 : /\ start \in Nat /\ start \in Int
                                        /\ \A end \in start - 1 .. MaxLines + 1 : end \in Int
    BY LineEditsAssumption
  <2>5. \A path \in {Existing, Missing}, op \in OpNames, start \in Nat, end \in Int, size \in Nat :
          L!AddEdit(path, op, start, end, size) => EditIInv'
    BY <2>1
  <2>6. CASE \E start \in 0 .. MaxLines + 1 : \E end \in start - 1 .. MaxLines + 1 :
               \/ \E size \in BodySizes : L!AddEdit(Existing, "replace", start, end, size)
               \/ L!AddEdit(Existing, "delete", start, end, 0)
    BY <2>3, <2>4, <2>5, <2>6 DEF OpNames
  <2>7. CASE \E start \in 0 .. MaxLines + 1, size \in BodySizes :
               L!AddEdit(Existing, "insert", start, start, size)
    BY <2>3, <2>4, <2>5, <2>7 DEF OpNames
  <2>8. CASE \/ \E path \in {Existing, Missing}, size \in BodySizes : L!AddEdit(path, "create", 0, 0, size)
             \/ \E size \in BodySizes : L!AddEdit(Missing, "insert", 0, 0, size)
    BY <2>3, <2>5, <2>8 DEF OpNames
  <2> QED BY <1>3, <2>2, <2>6, <2>7, <2>8, Zenon DEF Edit, L!Next
<1> QED BY <1>1, <1>2, <1>3 DEF NextTools, Calling

\* It holds initially.
LEMMA InitEditIInv == ASSUME InitTools PROVE EditIInv
<1>1. CASE part = "edits"
  <2>1. PICK n \in 1 .. MaxLines : text = [p \in {Existing} |-> [k \in 1 .. n |-> <<0, k>>]]
    BY <1>1 DEF InitTools, L!Init
  <2>2. text[Existing] = [k \in 1 .. n |-> <<0, k>>] /\ n \in Nat
    BY <2>1, LineEditsAssumption
  <2>3. Len(text[Existing]) = n
    BY <2>2
  <2>4. edits = << >> /\ outcome = "none"
    BY <1>1 DEF InitTools, L!Init
  <2>5. Content \in Texts(Lines) /\ Content # << >>
    <3>1. \A k \in 1 .. n : <<0, k>> \in Lines
      BY DEF Lines
    <3>2. Content \in Texts(Lines)
      BY <2>2, <3>1 DEF Content, Texts
    <3>3. Len(Content) # Len(<< >>)
      BY <2>3 DEF Content
    <3> QED BY <3>2, <3>3
  <2> QED BY <2>1, <2>2, <2>3, <2>4, <2>5
      DEF EditIInv, EditTypes, LineTypes, Verdict, L!EditsLandAsAddressed
<1> QED BY <1>1 DEF EditIInv

\* A call is refused exactly if it edits a file that is not there, or has a line out of
\* range or two ranges that share a line in a file it does not create, and no file is
\* changed then (applyEdits, apply_line_edits).
THEOREM WrongCallsChangeNothing == SpecTools => []RefusedAsAWhole
<1>1. EditIInv => RefusedAsAWhole
  BY VerdictIsTheProperty DEF EditIInv, RefusedAsAWhole
<1> QED BY <1>1, InitEditIInv, NextEditIInv, PTL DEF SpecTools

\* Edits of an accepted call that address separate places land where they say, in
\* whatever order the call lists them: no line is lost, doubled or moved (applyEdits).
THEOREM SeparateEditsLand == SpecTools => []EditsLandAsAddressed
<1>1. EditIInv => EditsLandAsAddressed
  BY DEF EditIInv, EditsLandAsAddressed
<1> QED BY <1>1, InitEditIInv, NextEditIInv, PTL DEF SpecTools
=============================================================================
