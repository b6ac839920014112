---------------------------- MODULE AppVersions ----------------------------
(***************************************************************************)
(* The version store of one room: the AppHost Durable Object of            *)
(* src/src/agent/app-host.ts and its tables in src/src/agent/schema.ts.    *)
(*                                                                         *)
(* AppHost is single threaded, and an async handler runs without           *)
(* interruption up to its next await of something outside the object (the  *)
(* bundler, the app's sandbox, the alarm scheduler); while it is suspended *)
(* there, other RPC calls run.  An action below is the code of a handler   *)
(* between two such awaits, and call[c] is what the suspended call c will  *)
(* need when it resumes.  Tables and the agent's state are persistent;     *)
(* call and pendingReload live in memory and are lost in a crash.          *)
(* Operators named X_Y are the faulty variants Y of X that the properties  *)
(* are tested against; no action uses them.                                *)
(***************************************************************************)
EXTENDS Integers, FiniteSets, Sequences, SequencesExt

CONSTANTS
  Calls,            \* slots for concurrent RPC calls into the object
  Code,             \* file sets an app version can consist of
  Buildable,        \* the file sets that bundle without an error
  Templates,        \* the file sets of the registered templates
  DefaultTemplate,  \* DEFAULT_TEMPLATE_ID
  Keep,             \* VERSION_HISTORY_KEEP
  None,             \* no pending reload schedule / no code
  ReloadIds,        \* ids the alarm scheduler hands out
  \* Bounds and assumptions on the environment, one run each way:
  MaxVersion,       \* versions inserted in a behaviour
  MaxSaves,         \* setFiles calls in flight at a time
  MaxRollbacks,     \* rollback calls in flight at a time
  SeedFirst,        \* the lobby created the room before anybody edits it
  Crashes           \* the object may be evicted or restarted at any time

ASSUME CodeAssumption == /\ Buildable \subseteq Code
                         /\ Templates \subseteq Buildable
                         /\ DefaultTemplate \in Templates
ASSUME KeepAssumption == Keep \in Nat \ {0}
ASSUME BoundAssumption == /\ MaxVersion \in Nat
                          /\ MaxSaves \in Nat
                          /\ MaxRollbacks \in Nat
                          /\ SeedFirst \in BOOLEAN
                          /\ Crashes \in BOOLEAN
ASSUME ReloadIdsAssumption == ReloadIds \subseteq Nat /\ None \notin ReloadIds /\ None \notin Code

VARIABLES
  lastId,           \* AUTOINCREMENT counter of the versions table
  files,            \* version id -> its files, for the rows that exist
  activeVersion,    \* state.activeVersion: the live pointer, 0 before the seed
  status,           \* state.status
  templateId,       \* state.templateId
  dataVersion,      \* __upgrade__/dataVersion, 0 when not stored
  builds,           \* build cache: the cached file sets, oldest entry first
  call,             \* what each suspended call will resume with
  reloads,          \* pending "flushReload" schedules of the alarm scheduler
  pendingReload,    \* #pendingReloadScheduleId
  page              \* the version the connected clients loaded, 0 if none did

hostState == <<activeVersion, status, templateId>>
tables == <<lastId, files, dataVersion, builds>>
alarm == <<reloads, pendingReload>>
vars == <<lastId, files, activeVersion, status, templateId, dataVersion,
          builds, call, reloads, pendingReload, page>>

-----------------------------------------------------------------------------
(* Suspended calls.  pc names the await the call is suspended at.          *)

Awaiting(pc, version, code, prev, reload) ==
  [pc |-> pc, version |-> version, code |-> code, prev |-> prev, reload |-> reload]

Idle == Awaiting("idle", 0, None, 0, None)

CallRecord ==
  [pc : {"idle", "seed", "build", "upgrade", "validate", "cancel", "schedule"},
   version : Nat, code : Code \cup {None}, prev : Nat, reload : ReloadIds \cup {None}]

Suspend(c, record) == call' = [call EXCEPT ![c] = record]
Return(c) == Suspend(c, Idle)

At(pc) == {c \in Calls : call[c].pc = pc}
Reloading == At("cancel") \cup At("schedule")
Saves == At("build") \cup At("upgrade") \cup Reloading

-----------------------------------------------------------------------------
(* schema.ts: the versions, files and builds tables.                       *)

VersionIds == DOMAIN files

HasAnyVersion == VersionIds # {}

InsertVersion_NoIncrement(code) ==
  /\ UNCHANGED lastId
  /\ files' = [v \in VersionIds \cup {lastId + 1} |->
                 IF v = lastId + 1 THEN code ELSE files[v]]

InsertVersion(code) ==
  /\ lastId' = lastId + 1
  /\ files' = [v \in VersionIds \cup {lastId + 1} |->
                 IF v = lastId + 1 THEN code ELSE files[v]]

\* One row per hash, ordered by ts: storing a build anew moves it to the end.
PutBuild(code) ==
  LET rows == {i \in DOMAIN builds : builds[i] = code} IN
  IF rows = {} THEN Append(builds, code)
  ELSE Append(RemoveAt(builds, CHOOSE i \in rows : TRUE), code)

NewestIds(ids, k) == {v \in ids : Cardinality({w \in ids : w > v}) < k}

PruneVersions_ForgetsActive(ids, k, active) == NewestIds(ids, k)
PruneVersions_OffByOne(ids, k, active) ==
  NewestIds(ids, k - 1) \cup ({active} \cap ids)

\* The ids that survive pruneVersions(keep, activeVersion).
PruneVersions(ids, k, active) == NewestIds(ids, k) \cup ({active} \cap ids)

PruneBuilds(k) ==
  IF Len(builds) > k THEN SubSeq(builds, Len(builds) - k + 1, Len(builds))
                     ELSE builds

-----------------------------------------------------------------------------
(* #broadcastReload: cancel the schedule this instance knows of, wait, arm *)
(* a new one, wait, remember its id.                                       *)

\* Ids are handed out in order so that equal futures are one state.
UnusedReloadIds ==
  ReloadIds \ (reloads \cup {pendingReload} \cup {call[c].reload : c \in Calls})

ScheduleReload(c) ==
  \E id \in UnusedReloadIds :
    /\ \A other \in UnusedReloadIds : id <= other
    /\ reloads' = reloads \cup {id}
    /\ Suspend(c, Awaiting("schedule", 0, None, 0, id))

BroadcastReload(c) ==
  \/ /\ pendingReload # None
     /\ reloads' = reloads \ {pendingReload}
     /\ Suspend(c, Awaiting("cancel", 0, None, 0, None))
  \/ /\ pendingReload = None
     /\ ScheduleReload(c)

\* Tell the clients if the live code changed.
ReloadIf(c, changed) ==
  IF changed THEN BroadcastReload(c) ELSE Return(c) /\ UNCHANGED reloads

\* After a save; the first version has nobody to tell.
ReloadOrReturn(c, prev, version) == ReloadIf(c, prev # version /\ prev # 0)

ReloadCancelled_NotRearmed(c) ==
  /\ call[c].pc = "cancel"
  /\ pendingReload' = None
  /\ Return(c)
  /\ UNCHANGED <<hostState, tables, reloads, page>>

ReloadCancelled(c) ==
  /\ call[c].pc = "cancel"
  /\ pendingReload' = None
  /\ ScheduleReload(c)
  /\ UNCHANGED <<hostState, tables, page>>

ReloadScheduled(c) ==
  /\ call[c].pc = "schedule"
  /\ pendingReload' = call[c].reload
  /\ Return(c)
  /\ UNCHANGED <<hostState, tables, reloads, page>>

-----------------------------------------------------------------------------
(* Seeding.                                                                *)

\* #ensureSeeded up to the await of #storeBuild.  t is the template asked for
\* by create(), or the default one.  On a room that has a version every entry
\* point returns at once, which changes nothing.
EnsureSeeded(c, t) ==
  /\ call[c] = Idle
  /\ ~HasAnyVersion
  /\ InsertVersion(t)
  /\ Suspend(c, Awaiting("seed", lastId + 1, t, 0, None))
  /\ UNCHANGED <<hostState, dataVersion, builds, alarm, page>>

\* The rest of it.  Data starts at the seed version: onUpgrade must not run.
SeedBuilt(c) ==
  /\ call[c].pc = "seed"
  /\ builds' = IF call[c].code \in Buildable THEN PutBuild(call[c].code) ELSE builds
  /\ dataVersion' = call[c].version
  /\ activeVersion' = call[c].version
  /\ templateId' = call[c].code
  /\ status' = "ready"
  /\ Return(c)
  /\ UNCHANGED <<lastId, files, alarm, page>>

-----------------------------------------------------------------------------
(* Saving: setFiles and resetToTemplate.                                   *)

\* Environment: fewer than Keep newer versions are saved while one builds.
BuildsStayRecent ==
  \A c \in At("seed") \cup At("build") : lastId + 1 - call[c].version < Keep

MaySave == /\ lastId < MaxVersion
           /\ Cardinality(Saves) < MaxSaves
           /\ SeedFirst => activeVersion # 0
           /\ BuildsStayRecent

\* The version is stored unconditionally, before its build is awaited.
SetFiles(c, code) ==
  /\ call[c] = Idle
  /\ MaySave
  /\ InsertVersion(code)
  /\ Suspend(c, Awaiting("build", lastId + 1, code, 0, None))
  /\ UNCHANGED <<hostState, dataVersion, builds, alarm, page>>

\* On a room that has versions; on a fresh one the call seeds it first.
ResetToTemplate(c) ==
  /\ HasAnyVersion
  /\ SetFiles(c, templateId)

\* The continuation of setFiles once a good version is promoted: upgrade the
\* data when the pointer moves it forward, else go on to the reload.
BuildOk(c) ==
  LET version == call[c].version IN
  /\ call[c].pc = "build"
  /\ call[c].code \in Buildable
  /\ builds' = PutBuild(call[c].code)
  /\ activeVersion' = version
  /\ status' = "ready"
  /\ IF version > dataVersion
     THEN /\ Suspend(c, Awaiting("upgrade", version, None, activeVersion, None))
          /\ UNCHANGED reloads
     ELSE ReloadOrReturn(c, activeVersion, version)
  /\ UNCHANGED <<lastId, files, dataVersion, templateId, pendingReload, page>>

\* A version that does not build stays stored; the live pointer stays too.
BuildFailed(c) ==
  /\ call[c].pc = "build"
  /\ call[c].code \notin Buildable
  /\ status' = "error"
  /\ Return(c)
  /\ UNCHANGED <<activeVersion, templateId, tables, alarm, page>>

\* The app's onUpgrade returned (or the app has none).
UpgradeOk(c) ==
  /\ call[c].pc = "upgrade"
  /\ dataVersion' = call[c].version
  /\ ReloadOrReturn(c, call[c].prev, call[c].version)
  /\ UNCHANGED <<lastId, files, builds, hostState, pendingReload, page>>

\* onUpgrade threw, or the sandbox call failed: the code stays promoted.
UpgradeFailed(c) ==
  /\ call[c].pc = "upgrade"
  /\ status' = "error"
  /\ ReloadOrReturn(c, call[c].prev, call[c].version)
  /\ UNCHANGED <<tables, activeVersion, templateId, pendingReload, page>>

-----------------------------------------------------------------------------
(* Rollback, garbage collection, the reload alarm, the clients, crashes.   *)

Rollback_PreviousReadLate(c, v) ==
  /\ call[c] = Idle
  /\ Cardinality(At("validate")) < MaxRollbacks
  /\ SeedFirst => activeVersion # 0
  /\ v \in VersionIds
  /\ activeVersion' = v
  /\ Suspend(c, Awaiting("validate", v, files[v], v, None))
  /\ UNCHANGED <<status, templateId, tables, alarm, page>>

Rollback_MovesData(c, v) ==
  /\ call[c] = Idle
  /\ Cardinality(At("validate")) < MaxRollbacks
  /\ SeedFirst => activeVersion # 0
  /\ v \in VersionIds
  /\ activeVersion' = v
  /\ dataVersion' = v
  /\ Suspend(c, Awaiting("validate", v, files[v], activeVersion, None))
  /\ UNCHANGED <<status, templateId, lastId, files, builds, alarm, page>>

\* The pointer moves first; validateActive bundles the files read here.
Rollback(c, v) ==
  /\ call[c] = Idle
  /\ Cardinality(At("validate")) < MaxRollbacks
  /\ SeedFirst => activeVersion # 0
  /\ v \in VersionIds
  /\ activeVersion' = v
  /\ Suspend(c, Awaiting("validate", v, files[v], activeVersion, None))
  /\ UNCHANGED <<status, templateId, tables, alarm, page>>

Validated_KeepsStatus(c) ==
  /\ call[c].pc = "validate"
  /\ ReloadIf(c, call[c].prev # call[c].version)
  /\ UNCHANGED <<tables, hostState, pendingReload, page>>

Validated(c) ==
  /\ call[c].pc = "validate"
  /\ status' = IF call[c].code \in Buildable THEN "ready" ELSE "error"
  /\ ReloadIf(c, call[c].prev # call[c].version)
  /\ UNCHANGED <<tables, activeVersion, templateId, pendingReload, page>>

GcVersions ==
  /\ files' = [v \in PruneVersions(VersionIds, Keep, activeVersion) |-> files[v]]
  /\ builds' = PruneBuilds(Keep)
  /\ UNCHANGED <<lastId, dataVersion, hostState, call, alarm, page>>

\* The frame makes every connected client load the live version anew.
FlushReload(id) ==
  /\ id \in reloads
  /\ reloads' = reloads \ {id}
  /\ pendingReload' = None
  /\ page' = IF page = 0 THEN 0 ELSE activeVersion
  /\ UNCHANGED <<hostState, tables, call>>

\* The first client opens the room page and runs what getRunManifest serves.
OpenPage ==
  /\ page = 0
  /\ activeVersion # 0
  /\ page' = activeVersion
  /\ UNCHANGED <<hostState, tables, call, alarm>>

\* Eviction or restart: calls in flight and instance fields are gone.
Restart ==
  /\ Crashes
  /\ call' = [c \in Calls |-> Idle]
  /\ pendingReload' = None
  /\ UNCHANGED <<hostState, tables, reloads, page>>

-----------------------------------------------------------------------------

Init ==
  /\ lastId = 0
  /\ files = << >>
  /\ activeVersion = 0
  /\ status = "ready"
  /\ templateId = DefaultTemplate
  /\ dataVersion = 0
  /\ builds = << >>
  /\ call = [c \in Calls |-> Idle]
  /\ reloads = {}
  /\ pendingReload = None
  /\ page = 0

\* What a suspended call does when the await it is at resolves.
Resume(c) ==
  \/ SeedBuilt(c)
  \/ BuildOk(c)
  \/ BuildFailed(c)
  \/ UpgradeOk(c)
  \/ UpgradeFailed(c)
  \/ Validated(c)
  \/ ReloadCancelled(c)
  \/ ReloadScheduled(c)

Next ==
  \/ \E c \in Calls :
       \/ \E t \in Templates : EnsureSeeded(c, t)
       \/ \E code \in Code : SetFiles(c, code)
       \/ ResetToTemplate(c)
       \/ \E v \in VersionIds : Rollback(c, v)
       \/ Resume(c)
  \/ \E id \in ReloadIds : FlushReload(id)
  \/ GcVersions
  \/ OpenPage
  \/ Restart

\* Awaits resolve (the bundler ends, a sandbox call has a CPU limit, an alarm
\* is delivered at least once); nobody is obliged to call anything.
Fairness == /\ \A c \in Calls : WF_vars(Resume(c))
            /\ \A id \in ReloadIds : WF_vars(FlushReload(id))

Spec == Init /\ [][Next]_vars

FairSpec == Spec /\ Fairness

-----------------------------------------------------------------------------
(* Properties.                                                             *)

\* Types of all variables (the tables, the agent state and the instance).
TypeOK ==
  /\ lastId \in Nat
  /\ VersionIds \subseteq 1 .. lastId
  /\ files \in [VersionIds -> Code]
  /\ activeVersion \in 0 .. lastId
  /\ status \in {"ready", "error"}
  /\ templateId \in Templates
  /\ dataVersion \in 0 .. lastId
  /\ builds \in Seq(Code)
  /\ call \in [Calls -> CallRecord]
  /\ reloads \subseteq ReloadIds
  /\ pendingReload \in ReloadIds \cup {None}
  /\ page \in 0 .. lastId

\* The version the live pointer names has its files: neither the pruning of
\* history (gcVersions) nor a save that is promoted long after it was stored
\* (setFiles) leaves the room serving a version whose rows are gone.
LiveVersionHasFiles == activeVersion # 0 => activeVersion \in VersionIds

\* gcVersions keeps the undo history complete: each of the newest Keep
\* versions ever saved can be rolled back to, however saves, rollbacks and
\* collections interleave (schema.ts: "keep is the effective depth").
UndoHistoryIsComplete ==
  \A v \in 1 .. lastId : lastId - v < Keep => v \in VersionIds

NoCallInFlight == \A c \in Calls : call[c] = Idle

\* With nobody in a call, status "ready" means the live code builds: failed
\* saves racing with promotes and a rollback never leave a broken version live
\* and reported as good (setFiles, rollback, validateActive).
ReadyMeansLiveBuilds ==
  NoCallInFlight /\ status = "ready" /\ activeVersion # 0
    => files[activeVersion] \in Buildable

\* Once no call is in flight and no reload is scheduled, the clients run the
\* live version: every move of the pointer, by a save or a rollback racing
\* with others, was followed by its own reload (#broadcastReload).
QuietPagesAreCurrent ==
  NoCallInFlight /\ reloads = {} /\ page # 0 => page = activeVersion

\* If the live pointer comes to rest, so do the clients, and on that version:
\* a reload is never lost.  (While promotes keep coming, each one re-arms the
\* debounce, and the reload may be put off for ever.)
PagesSettleOnLive ==
  \A v \in 0 .. MaxVersion :
    <>[](activeVersion = v) => <>[](page \in {0, v})

\* The data pointer of #runDataUpgrade is forward-only: data migrated to a
\* version is never again taken to be that of an earlier one.
DataVersionNeverGoesBack == [][dataVersion' >= dataVersion]_vars

=============================================================================
