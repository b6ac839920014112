------------------------- MODULE AppVersions_proofs -------------------------
(***************************************************************************)
(* Safety of the version store for every set of calls, any code, any Keep  *)
(* and any interleaving, with crashes where a theorem does not exclude     *)
(* them.                                                                   *)
(***************************************************************************)
EXTENDS AppVersions, SequenceTheorems, FiniteSetTheorems, TLAPS

\* A suspended save or seed names a version that is stored and, because fewer
\* than Keep newer ones are inserted while it builds, still in the history;
\* every other call names versions that were stored at some time.
CallsNameVersions ==
  \A c \in Calls :
    /\ call[c].version <= lastId
    /\ call[c].prev <= lastId
    /\ call[c].pc \in {"seed", "build", "upgrade", "validate"} =>
         /\ call[c].version # 0
         /\ call[c].code \in Code \/ call[c].pc = "upgrade"
    /\ call[c].pc = "seed" => call[c].code \in Templates
    /\ call[c].pc \in {"seed", "build"} => lastId - call[c].version < Keep
    /\ call[c].pc = "schedule" => call[c].reload \in ReloadIds

\* The inductive invariant.
IInv ==
  /\ TypeOK
  /\ CallsNameVersions
  /\ UndoHistoryIsComplete
  /\ LiveVersionHasFiles

-----------------------------------------------------------------------------
(* Lemmas about the operators.                                             *)

\* Storing a build leaves the cache a sequence of file sets.
LEMMA PutBuildType ==
  ASSUME builds \in Seq(Code), NEW code \in Code
  PROVE  PutBuild(code) \in Seq(Code)
<1> DEFINE rows == {i \in DOMAIN builds : builds[i] = code}
           row == CHOOSE i \in rows : TRUE
<1>1. CASE rows = {}
  BY <1>1, AppendProperties DEF PutBuild
<1>2. CASE rows # {}
  <2>1. row \in 1 .. Len(builds)
    BY <1>2
  <2>2. PutBuild(code) = Append(RemoveAt(builds, row), code)
    BY <1>2 DEF PutBuild
  <2> HIDE DEF row
  <2>3. /\ SubSeq(builds, 1, row - 1) \in Seq(Code)
        /\ SubSeq(builds, row + 1, Len(builds)) \in Seq(Code)
    BY <2>1, SubSeqProperties
  <2>4. RemoveAt(builds, row) \in Seq(Code)
    BY <2>3, ConcatProperties DEF RemoveAt
  <2> QED BY <2>2, <2>4, AppendProperties
<1> QED BY <1>1, <1>2

\* So does pruning it.
LEMMA PruneBuildsType ==
  ASSUME builds \in Seq(Code)
  PROVE  PruneBuilds(Keep) \in Seq(Code)
<1>1. CASE Len(builds) > Keep
  <2>1. SubSeq(builds, Len(builds) - Keep + 1, Len(builds)) \in Seq(Code)
    BY <1>1, KeepAssumption, SubSeqProperties, LenProperties
  <2> QED BY <1>1, <2>1 DEF PruneBuilds
<1>2. CASE ~ Len(builds) > Keep
  BY <1>2 DEF PruneBuilds
<1> QED BY <1>1, <1>2

\* Pruning keeps every id less than Keep below the newest one, and the live one.
LEMMA PruneVersionsKeepsRecent ==
  ASSUME NEW n \in Nat, NEW ids \in SUBSET (1 .. n), NEW active,
         NEW v \in ids, n - v < Keep \/ v = active
  PROVE  v \in PruneVersions(ids, Keep, active)
<1>1. CASE v = active
  BY <1>1 DEF PruneVersions
<1>2. CASE n - v < Keep
  <2> DEFINE newer == {w \in ids : w > v}
  <2>0. \A w \in newer : w \in (v + 1) .. n
    OBVIOUS
  <2>1. newer \in SUBSET ((v + 1) .. n)
    BY <2>0
  <2>2. /\ IsFiniteSet((v + 1) .. n)
        /\ Cardinality((v + 1) .. n) = IF v + 1 > n THEN 0 ELSE n - (v + 1) + 1
    BY FS_Interval
  <2>3. Cardinality(newer) <= Cardinality((v + 1) .. n)
    BY <2>1, <2>2, FS_Subset
  <2>4. Cardinality(newer) \in Nat
    BY <2>1, <2>2, FS_Subset, FS_CardinalityType
  <2>5. Cardinality((v + 1) .. n) = n - v
    BY <2>2
  <2>6. Cardinality(newer) < Keep
    BY <1>2, <2>3, <2>4, <2>5, KeepAssumption
  <2> QED BY <2>6 DEF PruneVersions, NewestIds
<1> QED BY <1>1, <1>2

-----------------------------------------------------------------------------
(* What suspending or returning does to the invariant.                     *)

\* A call that is at no build, upgrade or validation any more.
Settled(r) == /\ r \in CallRecord
              /\ r.version = 0 /\ r.prev = 0
              /\ r.pc \in {"idle", "cancel", "schedule"}
              /\ r.pc = "schedule" => r.reload \in ReloadIds

LEMMA IdleSettled == Settled(Idle)
BY DEF Settled, Idle, Awaiting, CallRecord

\* A rollback reloads the clients as a save does, when it moved the pointer.
LEMMA ValidatedReloads ==
  ASSUME NEW c, Validated(c)
  PROVE  \E prev, version : /\ ReloadOrReturn(c, prev, version)
                            /\ call[c].prev # call[c].version => prev \notin {0, version}
<1>1. CASE call[c].prev # call[c].version
  <2>1. ReloadOrReturn(c, 1, 2)
    BY <1>1 DEF Validated, ReloadOrReturn, ReloadIf
  <2> QED BY <2>1
<1>2. CASE call[c].prev = call[c].version
  <2>1. ReloadOrReturn(c, 1, 1)
    BY <1>2 DEF Validated, ReloadOrReturn, ReloadIf
  <2> QED BY <1>2, <2>1
<1> QED BY <1>1, <1>2

\* #broadcastReload only touches the alarm's schedules and its own call.
LEMMA ReloadSettles ==
  ASSUME TypeOK, NEW c \in Calls,
         \/ ScheduleReload(c)
         \/ BroadcastReload(c)
         \/ \E prev, version : ReloadOrReturn(c, prev, version)
  PROVE  /\ reloads' \subseteq ReloadIds
         /\ \E r : Settled(r) /\ call' = [call EXCEPT ![c] = r]
<1> USE DEF Suspend, CallRecord, TypeOK
<1>1. ASSUME ScheduleReload(c)
      PROVE  /\ reloads' \subseteq ReloadIds
             /\ \E r : Settled(r) /\ call' = [call EXCEPT ![c] = r]
  <2>1. PICK id \in UnusedReloadIds :
          /\ reloads' = reloads \cup {id}
          /\ call' = [call EXCEPT ![c] = Awaiting("schedule", 0, None, 0, id)]
    BY <1>1 DEF ScheduleReload
  <2>2. id \in ReloadIds
    BY DEF UnusedReloadIds
  <2>3. Settled(Awaiting("schedule", 0, None, 0, id))
    BY <2>2 DEF Settled, Awaiting
  <2> QED BY <2>1, <2>2, <2>3
<1>2. ASSUME BroadcastReload(c)
      PROVE  /\ reloads' \subseteq ReloadIds
             /\ \E r : Settled(r) /\ call' = [call EXCEPT ![c] = r]
  <2>1. Settled(Awaiting("cancel", 0, None, 0, None))
    BY DEF Settled, Awaiting
  <2> QED BY <1>1, <1>2, <2>1 DEF BroadcastReload
<1>3. ASSUME NEW prev, NEW version, ReloadOrReturn(c, prev, version)
      PROVE  /\ reloads' \subseteq ReloadIds
             /\ \E r : Settled(r) /\ call' = [call EXCEPT ![c] = r]
  BY <1>2, <1>3, IdleSettled DEF ReloadOrReturn, ReloadIf, Return
<1> QED BY <1>1, <1>2, <1>3

\* A call that settles keeps the facts about calls, as long as no version is
\* inserted in the same step.
LEMMA SettlingKeepsCalls ==
  ASSUME IInv, NEW c \in Calls, NEW r, Settled(r),
         call' = [call EXCEPT ![c] = r], lastId' = lastId
  PROVE  call' \in [Calls -> CallRecord] /\ CallsNameVersions'
<1>1. /\ call \in [Calls -> CallRecord] /\ CallsNameVersions /\ lastId \in Nat
  BY DEF IInv, TypeOK
<1>2. call' \in [Calls -> CallRecord]
  BY <1>1 DEF Settled
<1>3. \A d \in Calls : call'[d] = IF d = c THEN r ELSE call[d]
  BY <1>1
<1> QED BY <1>1, <1>2, <1>3 DEF CallsNameVersions, Settled

\* Inserting a version adds the id lastId + 1 and keeps history complete.
LEMMA InsertKeepsHistory ==
  ASSUME IInv, NEW code \in Code, InsertVersion(code)
  PROVE  /\ lastId' = lastId + 1
         /\ VersionIds' = VersionIds \cup {lastId + 1}
         /\ files' \in [VersionIds' -> Code]
         /\ VersionIds' \subseteq 1 .. lastId'
         /\ UndoHistoryIsComplete'
<1> USE DEF IInv, TypeOK, VersionIds, InsertVersion
<1>1. DOMAIN files' = DOMAIN files \cup {lastId + 1}
  OBVIOUS
<1>2. \A v \in DOMAIN files' : files'[v] \in Code
  BY <1>1
<1>3. files' \in [DOMAIN files' -> Code]
  BY <1>2
<1>4. UndoHistoryIsComplete'
  <2> SUFFICES ASSUME NEW v \in 1 .. lastId', lastId' - v < Keep
               PROVE  v \in DOMAIN files'
    BY DEF UndoHistoryIsComplete
  <2>1. CASE v = lastId + 1
    BY <2>1, <1>1
  <2>2. CASE v # lastId + 1
    <3>1. v \in 1 .. lastId /\ lastId - v < Keep
      BY <2>2, KeepAssumption
    <3> QED BY <3>1, <1>1 DEF UndoHistoryIsComplete
  <2> QED BY <2>1, <2>2
<1> QED BY <1>1, <1>3, <1>4

-----------------------------------------------------------------------------
(* One lemma per action that does more than settle a call.                 *)

LEMMA InitEstablishes == Init => IInv
<1> SUFFICES ASSUME Init PROVE IInv
  OBVIOUS
<1>1. TypeOK
  BY CodeAssumption, EmptySeq DEF Init, TypeOK, VersionIds, CallRecord, Idle, Awaiting
<1>2. CallsNameVersions
  BY DEF Init, CallsNameVersions, Idle, Awaiting
<1>3. UndoHistoryIsComplete /\ LiveVersionHasFiles
  BY DEF Init, UndoHistoryIsComplete, LiveVersionHasFiles
<1> QED BY <1>1, <1>2, <1>3 DEF IInv

\* A call that inserts the next version and waits for its build.
LEMMA InsertingCall ==
  ASSUME IInv, NEW c \in Calls, NEW code \in Code, NEW pc \in {"seed", "build"},
         pc = "seed" => code \in Templates,
         InsertVersion(code), BuildsStayRecent,
         Suspend(c, Awaiting(pc, lastId + 1, code, 0, None)),
         UNCHANGED <<hostState, dataVersion, builds, alarm, page>>
  PROVE  IInv'
<1> USE DEF IInv
<1>1. /\ lastId \in Nat /\ lastId' = lastId + 1
      /\ call \in [Calls -> CallRecord]
  BY InsertKeepsHistory DEF TypeOK
<1>2. \A d \in Calls : call'[d] = IF d = c THEN Awaiting(pc, lastId + 1, code, 0, None)
                                  ELSE call[d]
  BY <1>1 DEF Suspend
<1>3. call' \in [Calls -> CallRecord]
  <2>1. Awaiting(pc, lastId + 1, code, 0, None) \in CallRecord
    BY <1>1 DEF CallRecord, Awaiting
  <2> QED BY <1>1, <2>1 DEF Suspend
<1>4. TypeOK'
  BY <1>1, <1>3, InsertKeepsHistory DEF TypeOK, hostState, alarm
<1>5. CallsNameVersions'
  <2> SUFFICES ASSUME NEW d \in Calls
      PROVE  /\ call'[d].version <= lastId'
             /\ call'[d].prev <= lastId'
             /\ call'[d].pc \in {"seed", "build", "upgrade", "validate"} =>
                  /\ call'[d].version # 0
                  /\ call'[d].code \in Code \/ call'[d].pc = "upgrade"
             /\ call'[d].pc = "seed" => call'[d].code \in Templates
             /\ call'[d].pc \in {"seed", "build"} => lastId' - call'[d].version < Keep
             /\ call'[d].pc = "schedule" => call'[d].reload \in ReloadIds
    BY DEF CallsNameVersions
  <2>1. CASE d = c
    BY <2>1, <1>1, <1>2, KeepAssumption DEF Awaiting
  <2>2. CASE d # c
    <3>1. call'[d] = call[d] /\ call[d] \in CallRecord
      BY <2>2, <1>1, <1>2
    <3>2. call[d].pc \in {"seed", "build"} => lastId + 1 - call[d].version < Keep
      BY <3>1, <1>1 DEF BuildsStayRecent, At, CallsNameVersions, CallRecord
    <3>3. call[d].version \in Nat /\ call[d].prev \in Nat
      BY <3>1 DEF CallRecord
    <3> QED BY <3>1, <3>2, <3>3, <1>1 DEF CallsNameVersions
  <2> QED BY <2>1, <2>2
<1>6. LiveVersionHasFiles'
  BY InsertKeepsHistory DEF LiveVersionHasFiles, hostState
<1> QED BY <1>4, <1>5, <1>6, InsertKeepsHistory

\* A step that settles call c and moves the pointers only to stored versions.
LEMMA SettlingStep ==
  ASSUME IInv, NEW c \in Calls,
         NEW r, Settled(r), call' = [call EXCEPT ![c] = r],
         lastId' = lastId, files' = files, reloads' \subseteq ReloadIds,
         builds' \in Seq(Code), status' \in {"ready", "error"},
         templateId' \in Templates, dataVersion' \in 0 .. lastId,
         activeVersion' = activeVersion \/ activeVersion' \in VersionIds,
         pendingReload' \in ReloadIds \cup {None}, page' = page
  PROVE  IInv'
<1>1. call' \in [Calls -> CallRecord] /\ CallsNameVersions'
  BY SettlingKeepsCalls
<1>2. TypeOK'
  BY <1>1 DEF IInv, TypeOK, VersionIds
<1>3. UndoHistoryIsComplete' /\ LiveVersionHasFiles'
  BY DEF IInv, UndoHistoryIsComplete, LiveVersionHasFiles, VersionIds
<1> QED BY <1>1, <1>2, <1>3 DEF IInv

\* A call in the middle of an edit is replaced by a later await of the same
\* edit, about versions that exist.
LEMMA ProceedingStep ==
  ASSUME IInv, NEW c \in Calls, NEW r \in CallRecord,
         r.pc \in {"upgrade", "validate"}, r.version \in VersionIds,
         r.prev <= lastId, r.code \in Code \/ r.pc = "upgrade",
         call' = [call EXCEPT ![c] = r], activeVersion' = r.version,
         UNCHANGED <<lastId, files, templateId, dataVersion, reloads, pendingReload, page>>,
         builds' \in Seq(Code), status' \in {"ready", "error"}
  PROVE  IInv'
<1>1. /\ call \in [Calls -> CallRecord] /\ lastId \in Nat
      /\ r.version \in 1 .. lastId
  BY DEF IInv, TypeOK
<1>2. call' \in [Calls -> CallRecord]
  BY <1>1
<1>3. \A d \in Calls : call'[d] = IF d = c THEN r ELSE call[d]
  BY <1>1
<1>4. CallsNameVersions'
  BY <1>1, <1>3 DEF IInv, CallsNameVersions
<1>5. TypeOK'
  BY <1>1, <1>2 DEF IInv, TypeOK, VersionIds
<1>6. UndoHistoryIsComplete' /\ LiveVersionHasFiles'
  BY DEF IInv, UndoHistoryIsComplete, LiveVersionHasFiles, VersionIds
<1> QED BY <1>4, <1>5, <1>6 DEF IInv

\* The versions of suspended seeds and builds have not been pruned.
LEMMA BuildsAreStored ==
  ASSUME IInv, NEW c \in Calls, call[c].pc \in {"seed", "build"}
  PROVE  /\ call[c].version \in VersionIds
         /\ call[c].version \in 1 .. lastId
         /\ call[c].code \in Code
<1>1. /\ call[c] \in CallRecord /\ lastId \in Nat
  BY DEF IInv, TypeOK
<1>2. call[c].version \in 1 .. lastId /\ lastId - call[c].version < Keep
  BY <1>1 DEF IInv, CallsNameVersions, CallRecord
<1> QED BY <1>2 DEF IInv, UndoHistoryIsComplete, CallsNameVersions

LEMMA EnsureSeededStep ==
  ASSUME IInv, NEW c \in Calls, NEW t \in Templates, EnsureSeeded(c, t)
  PROVE  IInv'
<1>1. t \in Code
  BY CodeAssumption
<1>2. BuildsStayRecent
  <2>1. lastId = 0
    BY KeepAssumption DEF IInv, TypeOK, UndoHistoryIsComplete, EnsureSeeded, HasAnyVersion
  <2>2. \A d \in Calls : call[d].pc \notin {"seed", "build"}
    BY <2>1, BuildsAreStored
  <2> QED BY <2>2 DEF BuildsStayRecent, At
<1> QED BY <1>1, <1>2, InsertingCall DEF EnsureSeeded

LEMMA SetFilesStep ==
  ASSUME IInv, NEW c \in Calls, NEW code \in Code, SetFiles(c, code)
  PROVE  IInv'
BY InsertingCall DEF SetFiles, MaySave

LEMMA SeedBuiltStep ==
  ASSUME IInv, NEW c \in Calls, SeedBuilt(c)
  PROVE  IInv'
<1>1. /\ call[c].version \in VersionIds
      /\ call[c].version \in 0 .. lastId
      /\ call[c].code \in Code
      /\ call[c].code \in Templates
  BY BuildsAreStored DEF SeedBuilt, IInv, CallsNameVersions
<1>2. builds' \in Seq(Code)
  BY <1>1, PutBuildType DEF SeedBuilt, IInv, TypeOK
<1>3. call' = [call EXCEPT ![c] = Idle]
  BY DEF SeedBuilt, Return, Suspend
<1> QED BY <1>1, <1>2, <1>3, IdleSettled, SettlingStep
        DEF SeedBuilt, IInv, TypeOK, alarm

LEMMA BuildOkStep ==
  ASSUME IInv, NEW c \in Calls, BuildOk(c)
  PROVE  IInv'
<1> DEFINE version == call[c].version
<1>1. /\ version \in VersionIds /\ version \in 1 .. lastId
      /\ call[c].code \in Code
  BY BuildsAreStored DEF BuildOk
<1>2. builds' \in Seq(Code)
  BY <1>1, PutBuildType DEF BuildOk, IInv, TypeOK
<1>3. CASE version > dataVersion
  <2> DEFINE r == Awaiting("upgrade", version, None, activeVersion, None)
  <2>1. call' = [call EXCEPT ![c] = r] /\ reloads' = reloads
    BY <1>3 DEF BuildOk, Suspend
  <2>2. r \in CallRecord /\ r.pc = "upgrade" /\ r.version = version /\ r.prev = activeVersion
    BY <1>1 DEF Awaiting, CallRecord, IInv, TypeOK
  <2>3. activeVersion <= lastId
    BY DEF IInv, TypeOK
  <2> HIDE DEF r
  <2> QED BY <1>1, <1>2, <2>1, <2>2, <2>3, ProceedingStep DEF BuildOk
<1>4. CASE ~ (version > dataVersion)
  <2>1. ReloadOrReturn(c, activeVersion, version)
    BY <1>4 DEF BuildOk
  <2>2. /\ reloads' \subseteq ReloadIds
        /\ \E r : Settled(r) /\ call' = [call EXCEPT ![c] = r]
    BY <2>1, ReloadSettles DEF IInv
  <2> QED BY <1>1, <1>2, <2>2, SettlingStep DEF BuildOk, IInv, TypeOK
<1> QED BY <1>3, <1>4

LEMMA UpgradeStep ==
  ASSUME IInv, NEW c \in Calls, UpgradeOk(c) \/ UpgradeFailed(c)
  PROVE  IInv'
<1>1. ReloadOrReturn(c, call[c].prev, call[c].version)
  BY DEF UpgradeOk, UpgradeFailed
<1>2. /\ reloads' \subseteq ReloadIds
      /\ \E r : Settled(r) /\ call' = [call EXCEPT ![c] = r]
  BY <1>1, ReloadSettles DEF IInv
<1>3. call[c].version \in 0 .. lastId
  BY DEF IInv, TypeOK, CallsNameVersions, CallRecord
<1> QED BY <1>2, <1>3, SettlingStep
        DEF UpgradeOk, UpgradeFailed, hostState, tables, IInv, TypeOK

LEMMA RollbackStep ==
  ASSUME IInv, NEW c \in Calls, NEW v \in VersionIds, Rollback(c, v)
  PROVE  IInv'
<1> DEFINE r == Awaiting("validate", v, files[v], activeVersion, None)
<1>1. call' = [call EXCEPT ![c] = r]
  BY DEF Rollback, Suspend
<1>2. files[v] \in Code /\ v \in 1 .. lastId /\ activeVersion \in 0 .. lastId
  BY DEF IInv, TypeOK, VersionIds
<1>3. /\ r \in CallRecord /\ r.pc = "validate" /\ r.version = v
      /\ r.prev = activeVersion /\ r.code \in Code
  BY <1>2 DEF Awaiting, CallRecord, IInv, TypeOK
<1>4. activeVersion <= lastId
  BY <1>2
<1> HIDE DEF r
<1> QED BY <1>1, <1>2, <1>3, <1>4, ProceedingStep
        DEF Rollback, tables, alarm, IInv, TypeOK

LEMMA ValidatedStep ==
  ASSUME IInv, NEW c \in Calls, Validated(c)
  PROVE  IInv'
<1>1. /\ reloads' \subseteq ReloadIds
      /\ \E r : Settled(r) /\ call' = [call EXCEPT ![c] = r]
  BY ValidatedReloads, ReloadSettles DEF IInv
<1> QED BY <1>1, SettlingStep DEF Validated, tables, IInv, TypeOK

LEMMA OtherResumeStep ==
  ASSUME IInv, NEW c \in Calls,
         BuildFailed(c) \/ ReloadCancelled(c) \/ ReloadScheduled(c)
  PROVE  IInv'
<1>1. CASE BuildFailed(c)
  BY <1>1, IdleSettled, SettlingStep
  DEF BuildFailed, Return, Suspend, tables, alarm, IInv, TypeOK
<1>2. CASE ReloadCancelled(c)
  <2>1. /\ reloads' \subseteq ReloadIds
        /\ \E r : Settled(r) /\ call' = [call EXCEPT ![c] = r]
    BY <1>2, ReloadSettles DEF IInv, ReloadCancelled
  <2> QED BY <1>2, <2>1, SettlingStep
          DEF ReloadCancelled, hostState, tables, IInv, TypeOK
<1>3. CASE ReloadScheduled(c)
  <2>1. call[c].reload \in ReloadIds
    BY <1>3 DEF ReloadScheduled, IInv, CallsNameVersions
  <2> QED BY <1>3, <2>1, IdleSettled, SettlingStep
          DEF ReloadScheduled, Return, Suspend, hostState, tables, IInv, TypeOK
<1> QED BY <1>1, <1>2, <1>3

\* gcVersions: what it deletes is neither live, nor recent, nor being built.
LEMMA GcStep ==
  ASSUME IInv, GcVersions
  PROVE  IInv'
<1> DEFINE kept == PruneVersions(VersionIds, Keep, activeVersion)
<1>1. kept \subseteq VersionIds
  BY DEF PruneVersions, NewestIds
<1>2. \A v \in VersionIds : lastId - v < Keep \/ v = activeVersion => v \in kept
  BY PruneVersionsKeepsRecent DEF IInv, TypeOK
<1> HIDE DEF kept
<1>3. VersionIds' = kept /\ files' \in [kept -> Code]
  BY <1>1 DEF GcVersions, VersionIds, IInv, TypeOK, kept
<1>4. builds' \in Seq(Code)
  BY PruneBuildsType DEF GcVersions, IInv, TypeOK
<1>5. TypeOK'
  BY <1>1, <1>3, <1>4 DEF GcVersions, hostState, alarm, IInv, TypeOK
<1>6. CallsNameVersions'
  BY DEF GcVersions, CallsNameVersions, IInv
<1>7. UndoHistoryIsComplete'
  BY <1>2, <1>3 DEF GcVersions, UndoHistoryIsComplete, IInv
<1>8. LiveVersionHasFiles'
  BY <1>2, <1>3 DEF GcVersions, hostState, LiveVersionHasFiles, IInv
<1> QED BY <1>5, <1>6, <1>7, <1>8 DEF IInv

LEMMA EnvironmentStep ==
  ASSUME IInv, (\E id \in ReloadIds : FlushReload(id)) \/ OpenPage \/ Restart
  PROVE  IInv'
<1>1. /\ lastId' = lastId /\ files' = files /\ activeVersion' = activeVersion
      /\ UNCHANGED <<status, templateId, dataVersion, builds>>
      /\ page' \in {page, 0, activeVersion}
      /\ reloads' \subseteq reloads
      /\ pendingReload' \in {pendingReload, None}
      /\ call' = call \/ call' = [c \in Calls |-> Idle]
  BY DEF FlushReload, OpenPage, Restart, hostState, tables, alarm
<1>2. Idle \in CallRecord
  BY IdleSettled DEF Settled
<1>3. TypeOK'
  BY <1>1, <1>2 DEF IInv, TypeOK, VersionIds
<1>4. CallsNameVersions'
  BY <1>1 DEF IInv, TypeOK, CallsNameVersions, Idle, Awaiting
<1>5. UndoHistoryIsComplete' /\ LiveVersionHasFiles'
  BY <1>1 DEF IInv, UndoHistoryIsComplete, LiveVersionHasFiles, VersionIds
<1> QED BY <1>3, <1>4, <1>5 DEF IInv

-----------------------------------------------------------------------------

LEMMA StepPreserves == IInv /\ [Next]_vars => IInv'
<1> SUFFICES ASSUME IInv, [Next]_vars PROVE IInv'
  OBVIOUS
<1>1. CASE UNCHANGED vars
  BY <1>1 DEF vars, IInv, TypeOK, VersionIds, CallsNameVersions,
              UndoHistoryIsComplete, LiveVersionHasFiles
<1>2. ASSUME NEW c \in Calls, NEW t \in Templates, EnsureSeeded(c, t) PROVE IInv'
  BY <1>2, EnsureSeededStep
<1>3. ASSUME NEW c \in Calls, NEW code \in Code, SetFiles(c, code) PROVE IInv'
  BY <1>3, SetFilesStep
<1>4. ASSUME NEW c \in Calls, ResetToTemplate(c) PROVE IInv'
  <2>1. templateId \in Code
    BY CodeAssumption DEF IInv, TypeOK
  <2> QED BY <1>4, <2>1, SetFilesStep DEF ResetToTemplate
<1>5. ASSUME NEW c \in Calls, NEW v \in VersionIds, Rollback(c, v) PROVE IInv'
  BY <1>5, RollbackStep
<1>6. ASSUME NEW c \in Calls, Resume(c) PROVE IInv'
  BY <1>6, SeedBuiltStep, BuildOkStep, UpgradeStep, ValidatedStep, OtherResumeStep
  DEF Resume
<1>7. CASE GcVersions
  BY <1>7, GcStep
<1>8. CASE (\E id \in ReloadIds : FlushReload(id)) \/ OpenPage \/ Restart
  BY <1>8, EnvironmentStep
<1> QED BY <1>1, <1>2, <1>3, <1>4, <1>5, <1>6, <1>7, <1>8 DEF Next

LEMMA Inductive == Spec => []IInv
BY InitEstablishes, StepPreserves, PTL DEF Spec

\* Type correctness of the version store.
THEOREM TypeCorrect == Spec => []TypeOK
BY Inductive, PTL DEF IInv

\* However saves, rollbacks, seeding, garbage collection and restarts of the
\* object interleave, the live version of a room has its files.
THEOREM LiveVersionAlwaysHasFiles == Spec => []LiveVersionHasFiles
BY Inductive, PTL DEF IInv

\* ... and the newest Keep versions can always be rolled back to.
THEOREM UndoHistoryAlwaysComplete == Spec => []UndoHistoryIsComplete
BY Inductive, PTL DEF IInv

-----------------------------------------------------------------------------
(* What the status says of the live code.  It is read when no call is in   *)
(* flight, but a rollback to broken code leaves it as it was until the     *)
(* validation returns, and saves are promoted meanwhile.                   *)

LiveBuilds == activeVersion # 0 => files[activeVersion] \in Buildable

\* A call that builds or validates has the files of its version: a validation
\* reads them before it waits, and gcVersions keeps those of a build.
BuildsOwnFiles ==
  \A c \in Calls : call[c].pc \in {"seed", "build"} => call[c].code = files[call[c].version]

\* Rollbacks do not overlap.
OneRollback == \A c, d \in At("validate") : c = d

\* While a rollback is validated the live version builds, or is the one it looks
\* at; otherwise the status tells.
StatusInv ==
  /\ \A c \in At("validate") :
       LiveBuilds \/ call[c].code = files[activeVersion]
  /\ At("validate") = {} /\ status = "ready" => LiveBuilds

StatusIInv == BuildsOwnFiles /\ OneRollback /\ StatusInv

\* A call goes on to something that is neither a build nor a validation.
Leaves(c) == \E r \in CallRecord : /\ r.pc \notin {"seed", "build", "validate"}
                                   /\ call' = [call EXCEPT ![c] = r]

\* The calls that build or validate after c has left are those there were.
LEMMA LeavingKeepsOthers ==
  ASSUME IInv, StatusIInv, NEW c \in Calls, Leaves(c), files' = files
  PROVE  /\ BuildsOwnFiles' /\ OneRollback'
         /\ At("validate")' = At("validate") \ {c}
         /\ \A d \in At("validate")' : call'[d] = call[d]
<1>1. PICK r \in CallRecord : /\ r.pc \notin {"seed", "build", "validate"}
                              /\ call' = [call EXCEPT ![c] = r]
  BY DEF Leaves
<1>2. \A d \in Calls : call'[d] = IF d = c THEN r ELSE call[d]
  BY <1>1 DEF IInv, TypeOK
<1>3. At("validate")' = At("validate") \ {c}
  BY <1>1, <1>2 DEF At
<1>4. \A d \in At("validate")' : call'[d] = call[d]
  BY <1>2, <1>3 DEF At
<1>5. BuildsOwnFiles'
  BY <1>1, <1>2 DEF StatusIInv, BuildsOwnFiles
<1>6. OneRollback'
  BY <1>3 DEF StatusIInv, OneRollback
<1> QED BY <1>3, <1>4, <1>5, <1>6

\* A call that is no validation leaves, and the code that is live stays: the
\* status stays too, or becomes "error".
LEMMA OtherCallLeaves ==
  ASSUME IInv, StatusIInv, NEW c \in Calls, Leaves(c), call[c].pc # "validate",
         files' = files, activeVersion' = activeVersion, status' \in {status, "error"}
  PROVE  StatusIInv'
<1>1. At("validate")' = At("validate")
  BY LeavingKeepsOthers DEF At
<1>2. \A d \in At("validate")' : call'[d] = call[d]
  BY LeavingKeepsOthers
<1>3. StatusInv'
  BY <1>1, <1>2 DEF StatusIInv, StatusInv, LiveBuilds
<1> QED BY <1>3, LeavingKeepsOthers DEF StatusIInv

\* A call leaves that has made good code live.
LEMMA PromotingCallLeaves ==
  ASSUME IInv, StatusIInv, NEW c \in Calls, Leaves(c),
         files' = files, files[activeVersion'] \in Buildable
  PROVE  StatusIInv'
<1>1. LiveBuilds'
  BY DEF LiveBuilds
<1> QED BY <1>1, LeavingKeepsOthers DEF StatusIInv, StatusInv

\* A rollback is over: it is the only one, so the code it has bundled is the live
\* code, unless a save has been promoted since.
LEMMA ValidationLeaves ==
  ASSUME IInv, StatusIInv, NEW c \in Calls, Leaves(c), call[c].pc = "validate",
         files' = files, activeVersion' = activeVersion,
         status' = IF call[c].code \in Buildable THEN "ready" ELSE "error"
  PROVE  StatusIInv'
<1>1. c \in At("validate") /\ (LiveBuilds \/ call[c].code = files[activeVersion])
  BY DEF At, StatusIInv, StatusInv
<1>2. At("validate")' = {}
  BY <1>1, LeavingKeepsOthers DEF StatusIInv, OneRollback
<1>3. status' = "ready" => LiveBuilds'
  BY <1>1 DEF LiveBuilds
<1> QED BY <1>2, <1>3, LeavingKeepsOthers DEF StatusIInv, StatusInv

\* A version is stored and its build awaited.
LEMMA InsertingKeepsStatus ==
  ASSUME IInv, StatusIInv, NEW c \in Calls, NEW code \in Code, NEW pc \in {"seed", "build"},
         call[c] = Idle, InsertVersion(code),
         Suspend(c, Awaiting(pc, lastId + 1, code, 0, None)), UNCHANGED hostState
  PROVE  StatusIInv'
<1>1. /\ lastId \in Nat /\ call \in [Calls -> CallRecord]
      /\ VersionIds \subseteq 1 .. lastId
      /\ activeVersion # 0 => activeVersion \in VersionIds
  BY DEF IInv, TypeOK, LiveVersionHasFiles
<1>2. PICK r : r = Awaiting(pc, lastId + 1, code, 0, None)
  OBVIOUS
<1>3. r.pc = pc /\ r.version = lastId + 1 /\ r.code = code
  BY <1>2 DEF Awaiting
<1>4. \A d \in Calls : call'[d] = IF d = c THEN r ELSE call[d]
  BY <1>1, <1>2 DEF Suspend
<1>5. /\ files'[lastId + 1] = code
      /\ \A v \in VersionIds : files'[v] = files[v]
  BY <1>1 DEF InsertVersion
<1>6. At("validate")' = At("validate")
  BY <1>3, <1>4 DEF At, Idle, Awaiting
<1>7. BuildsOwnFiles'
  <2> SUFFICES ASSUME NEW d \in Calls, call'[d].pc \in {"seed", "build"}
               PROVE  call'[d].code = files'[call'[d].version]
    BY DEF BuildsOwnFiles
  <2>1. CASE d = c
    BY <1>3, <1>4, <1>5, <2>1
  <2>2. CASE d # c
    <3>1. call'[d] = call[d] /\ call[d].pc \in {"seed", "build"}
      BY <1>4, <2>2
    <3>2. call[d].version \in VersionIds /\ call[d].code = files[call[d].version]
      BY <3>1, BuildsAreStored DEF StatusIInv, BuildsOwnFiles
    <3> QED BY <1>5, <3>1, <3>2
  <2> QED BY <2>1, <2>2
<1>8. LiveBuilds' <=> LiveBuilds
  BY <1>1, <1>5 DEF LiveBuilds, hostState
<1>9. \A d \in At("validate") : call'[d] = call[d]
  BY <1>4 DEF At, Idle, Awaiting
<1>10. StatusInv'
  <2>1. status' = status /\ activeVersion' = activeVersion
    BY DEF hostState
  <2>2. activeVersion # 0 => files'[activeVersion] = files[activeVersion]
    BY <1>1, <1>5
  <2>3. ASSUME NEW d \in At("validate")'
        PROVE  LiveBuilds' \/ call'[d].code = files'[activeVersion']
    <3>1. call'[d] = call[d] /\ d \in At("validate")
      BY <1>6, <1>9
    <3>2. LiveBuilds \/ call[d].code = files[activeVersion]
      BY <3>1 DEF StatusIInv, StatusInv
    <3>3. activeVersion = 0 => LiveBuilds
      BY DEF LiveBuilds
    <3> QED BY <1>8, <2>1, <2>2, <3>1, <3>2, <3>3
  <2>4. At("validate")' = {} /\ status' = "ready" => LiveBuilds'
    BY <1>6, <1>8, <2>1 DEF StatusIInv, StatusInv
  <2> QED BY <2>3, <2>4 DEF StatusInv
<1> QED BY <1>6, <1>7, <1>10 DEF StatusIInv, OneRollback

\* A rollback makes the version live that it then validates.
LEMMA RollbackKeepsStatus ==
  ASSUME IInv, StatusIInv, IsFiniteSet(Calls), MaxRollbacks <= 1,
         NEW c \in Calls, NEW v \in VersionIds, Rollback(c, v)
  PROVE  StatusIInv'
<1>1. call \in [Calls -> CallRecord] /\ files' = files /\ activeVersion' = v
  BY DEF IInv, TypeOK, Rollback, tables
<1>2. PICK r : r = Awaiting("validate", v, files[v], activeVersion, None)
  OBVIOUS
<1>3. r.pc = "validate" /\ r.code = files[v]
  BY <1>2 DEF Awaiting
<1>4. \A d \in Calls : call'[d] = IF d = c THEN r ELSE call[d]
  BY <1>1, <1>2 DEF Rollback, Suspend
<1>5. At("validate") = {}
  <2>1. IsFiniteSet(At("validate"))
    BY FS_Subset DEF At
  <2>2. Cardinality(At("validate")) \in Nat /\ Cardinality(At("validate")) < MaxRollbacks
    BY <2>1, FS_CardinalityType DEF Rollback
  <2>3. Cardinality(At("validate")) = 0
    BY <2>2, BoundAssumption
  <2> QED BY <2>1, <2>3, FS_EmptySet
<1>6. At("validate")' = {c}
  BY <1>3, <1>4, <1>5 DEF At
<1>7. BuildsOwnFiles'
  BY <1>1, <1>3, <1>4 DEF StatusIInv, BuildsOwnFiles
<1>8. OneRollback' /\ StatusInv'
  BY <1>1, <1>3, <1>4, <1>6 DEF OneRollback, StatusInv
<1> QED BY <1>7, <1>8 DEF StatusIInv

\* gcVersions keeps the files of the live version and of those being built.
LEMMA GcKeepsStatus ==
  ASSUME IInv, StatusIInv, GcVersions
  PROVE  StatusIInv'
<1>1. IInv'
  BY GcStep
<1>2. call' = call /\ activeVersion' = activeVersion /\ status' = status
  BY DEF GcVersions, hostState
<1>3. \A v \in VersionIds' : files'[v] = files[v]
  BY DEF GcVersions, VersionIds
<1>4. activeVersion # 0 => files'[activeVersion] = files[activeVersion]
  BY <1>1, <1>2, <1>3 DEF IInv, LiveVersionHasFiles
<1>5. ASSUME NEW c \in Calls, call[c].pc \in {"seed", "build"}
      PROVE  files'[call[c].version] = files[call[c].version]
  <2>1. call[c] \in CallRecord /\ lastId' = lastId /\ lastId \in Nat
    BY DEF IInv, TypeOK, GcVersions
  <2>2. call[c].version \in 1 .. lastId /\ lastId - call[c].version < Keep
    BY <1>5, <2>1 DEF IInv, CallsNameVersions, CallRecord
  <2>3. call[c].version \in VersionIds'
    BY <1>1, <2>1, <2>2 DEF IInv, UndoHistoryIsComplete
  <2> QED BY <1>3, <2>3
<1>6. BuildsOwnFiles' /\ OneRollback'
  BY <1>2, <1>5 DEF StatusIInv, BuildsOwnFiles, OneRollback, At
<1>7. LiveBuilds' <=> LiveBuilds
  BY <1>2, <1>4 DEF LiveBuilds
<1>8. StatusInv'
  <2>1. activeVersion = 0 => LiveBuilds
    BY DEF LiveBuilds
  <2> QED BY <1>2, <1>4, <1>7, <2>1 DEF StatusIInv, StatusInv, At
<1> QED BY <1>6, <1>8 DEF StatusIInv

\* A call that suspends at an upgrade or at the reload, or returns, leaves.
LEMMA SettlingLeaves ==
  ASSUME IInv, NEW c \in Calls,
         \/ ScheduleReload(c)
         \/ \E prev, version : ReloadOrReturn(c, prev, version)
         \/ Return(c)
         \/ \E v \in 1 .. lastId : Suspend(c, Awaiting("upgrade", v, None, activeVersion, None))
  PROVE  Leaves(c)
<1>1. ASSUME NEW r, Settled(r), call' = [call EXCEPT ![c] = r] PROVE Leaves(c)
  BY <1>1 DEF Settled, Leaves
<1>2. CASE ScheduleReload(c) \/ \E prev, version : ReloadOrReturn(c, prev, version)
  BY <1>1, <1>2, ReloadSettles DEF IInv
<1>3. CASE Return(c)
  BY <1>1, <1>3, IdleSettled DEF Return, Suspend
<1>4. ASSUME NEW v \in 1 .. lastId, Suspend(c, Awaiting("upgrade", v, None, activeVersion, None))
      PROVE  Leaves(c)
  <2>1. Awaiting("upgrade", v, None, activeVersion, None) \in CallRecord
    BY DEF Awaiting, CallRecord, IInv, TypeOK
  <2> QED BY <1>4, <2>1 DEF Leaves, Suspend, Awaiting
<1> QED BY <1>2, <1>3, <1>4

\* Every step keeps what the status says.
LEMMA StatusStep ==
  ASSUME IInv, StatusIInv, IsFiniteSet(Calls), MaxRollbacks <= 1, ~Crashes, [Next]_vars
  PROVE  StatusIInv'
<1>1. ASSUME UNCHANGED <<files, activeVersion, status, call>> PROVE StatusIInv'
  BY <1>1 DEF StatusIInv, BuildsOwnFiles, OneRollback, StatusInv, LiveBuilds, At
<1>2. CASE UNCHANGED vars
  BY <1>1, <1>2 DEF vars
<1>3. ASSUME NEW c \in Calls, NEW t \in Templates, EnsureSeeded(c, t) PROVE StatusIInv'
  BY <1>3, InsertingKeepsStatus, CodeAssumption DEF EnsureSeeded
<1>4. ASSUME NEW c \in Calls, NEW code \in Code, SetFiles(c, code) PROVE StatusIInv'
  BY <1>4, InsertingKeepsStatus DEF SetFiles
<1>5. ASSUME NEW c \in Calls, ResetToTemplate(c) PROVE StatusIInv'
  <2>1. templateId \in Code
    BY CodeAssumption DEF IInv, TypeOK
  <2> QED BY <1>4, <1>5, <2>1 DEF ResetToTemplate
<1>6. ASSUME NEW c \in Calls, NEW v \in VersionIds, Rollback(c, v) PROVE StatusIInv'
  BY <1>6, RollbackKeepsStatus
<1>7. ASSUME NEW c \in Calls, Resume(c) PROVE StatusIInv'
  <2>1. CASE SeedBuilt(c) \/ BuildOk(c)
    <3>1. /\ call[c].version \in 1 .. lastId /\ activeVersion' = call[c].version
          /\ files' = files
      BY <2>1, BuildsAreStored DEF SeedBuilt, BuildOk
    <3>2. files[call[c].version] \in Buildable
      BY <2>1, CodeAssumption DEF SeedBuilt, BuildOk, StatusIInv, BuildsOwnFiles, IInv,
                                 CallsNameVersions
    <3>3. Leaves(c)
      <4>1. CASE SeedBuilt(c)
        BY <4>1, SettlingLeaves DEF SeedBuilt
      <4>2. CASE BuildOk(c)
        BY <4>2, <3>1, SettlingLeaves DEF BuildOk
      <4> QED BY <2>1, <4>1, <4>2
    <3> QED BY <3>1, <3>2, <3>3, PromotingCallLeaves
  <2>2. CASE BuildFailed(c)
    <3>1. Leaves(c)
      BY <2>2, SettlingLeaves DEF BuildFailed
    <3> QED BY <2>2, <3>1, OtherCallLeaves DEF BuildFailed, tables
  <2>3. CASE UpgradeOk(c) \/ UpgradeFailed(c)
    <3>1. Leaves(c)
      BY <2>3, SettlingLeaves DEF UpgradeOk, UpgradeFailed
    <3> QED BY <2>3, <3>1, OtherCallLeaves DEF UpgradeOk, UpgradeFailed, tables, hostState
  <2>4. CASE Validated(c)
    <3>1. Leaves(c)
      BY <2>4, ValidatedReloads, SettlingLeaves
    <3> QED BY <2>4, <3>1, ValidationLeaves DEF Validated, tables
  <2>5. CASE ReloadCancelled(c) \/ ReloadScheduled(c)
    <3>1. Leaves(c)
      BY <2>5, SettlingLeaves DEF ReloadCancelled, ReloadScheduled
    <3> QED BY <2>5, <3>1, OtherCallLeaves DEF ReloadCancelled, ReloadScheduled, tables, hostState
  <2> QED BY <1>7, <2>1, <2>2, <2>3, <2>4, <2>5 DEF Resume
<1>8. CASE GcVersions
  BY <1>8, GcKeepsStatus
<1>9. CASE (\E id \in ReloadIds : FlushReload(id)) \/ OpenPage
  BY <1>1, <1>9 DEF FlushReload, OpenPage, tables, hostState
<1>10. ~Restart
  BY DEF Restart
<1> QED BY <1>2, <1>3, <1>4, <1>5, <1>6, <1>7, <1>8, <1>9, <1>10 DEF Next

\* With nobody in a call, "ready" means that the live code builds, as long as
\* rollbacks do not overlap and no restart drops a validation: saves and their
\* failures may come at any time (setFiles, rollback, validateActive).
THEOREM ReadyMeansItBuilds ==
  ASSUME IsFiniteSet(Calls), MaxRollbacks <= 1, ~Crashes
  PROVE  Spec => []ReadyMeansLiveBuilds
<1>1. Init => StatusIInv
  BY DEF Init, StatusIInv, BuildsOwnFiles, OneRollback, StatusInv, LiveBuilds, At, Idle,
         Awaiting
<1>2. IInv /\ StatusIInv /\ [Next]_vars => StatusIInv'
  BY StatusStep
<1>3. StatusIInv => ReadyMeansLiveBuilds
  BY DEF StatusIInv, StatusInv, LiveBuilds, ReadyMeansLiveBuilds, NoCallInFlight, At, Idle,
         Awaiting
<1> QED BY <1>1, <1>2, <1>3, Inductive, PTL DEF Spec

-----------------------------------------------------------------------------
(* The clients follow the live pointer.                                    *)

\* A call that is going to schedule a reload.
WillReload(c) ==
  \/ call[c].pc = "cancel"
  \/ call[c].pc \in {"upgrade", "validate"} /\ call[c].prev \notin {0, call[c].version}

\* The room is seeded once, and before anything is saved or live.
SeededOnce ==
  \A c \in At("seed") : /\ activeVersion = 0 /\ At("build") = {}
                        /\ \A d \in At("seed") : c = d

\* The clients run the live version, or a reload is on its way.
PageInv ==
  /\ page # 0 => activeVersion # 0
  /\ page \in {0, activeVersion} \/ reloads # {} \/ \E c \in Calls : WillReload(c)

PageIInv == SeededOnce /\ PageInv

\* Once a version is live nothing is seeded.
LEMMA SeedingComesFirst ==
  ASSUME IInv, SeededOnce, NEW c \in Calls, call[c].pc = "seed"
  PROVE  activeVersion = 0 /\ HasAnyVersion
<1>1. HasAnyVersion
  BY BuildsAreStored DEF HasAnyVersion
<1> QED BY <1>1 DEF SeededOnce, At

\* A call that has to reload does, or has scheduled the reload.
LEMMA ReloadFollows ==
  ASSUME IInv, NEW c \in Calls, NEW prev, NEW version, ReloadOrReturn(c, prev, version),
         prev \notin {0, version}
  PROVE  reloads' # {} \/ (call'[c].pc = "cancel")
<1>1. BroadcastReload(c) /\ call \in [Calls -> CallRecord]
  BY DEF ReloadOrReturn, ReloadIf, IInv, TypeOK
<1> QED BY <1>1 DEF BroadcastReload, ScheduleReload, Suspend, Awaiting

\* Nothing is taken off the schedule but to be put on it anew.
LEMMA ReloadsStay ==
  ASSUME IInv, NEW c \in Calls, NEW prev, NEW version, ReloadOrReturn(c, prev, version)
  PROVE  reloads \subseteq reloads' \/ (call'[c].pc = "cancel")
<1>1. call \in [Calls -> CallRecord]
  BY DEF IInv, TypeOK
<1> QED BY <1>1 DEF ReloadOrReturn, ReloadIf, BroadcastReload, ScheduleReload, Suspend, Awaiting

\* What a call does that is not about the reload, to the others.
LEMMA OthersWait ==
  ASSUME IInv, NEW c \in Calls, NEW r, call' = [call EXCEPT ![c] = r]
  PROVE  call'[c] = r /\ \A d \in Calls \ {c} : call'[d] = call[d]
BY DEF IInv, TypeOK

\* A call that reloads when the live version has changed or it was to reload.
LEMMA ReloadingStep ==
  ASSUME IInv, PageInv, NEW c \in Calls, NEW prev, NEW version,
         ReloadOrReturn(c, prev, version), UNCHANGED page,
         \/ activeVersion' = activeVersion /\ (WillReload(c) => prev \notin {0, version})
         \/ activeVersion' = version /\ activeVersion = prev /\ ~WillReload(c) /\ version # 0
  PROVE  PageInv'
<1>1. PICK r : call' = [call EXCEPT ![c] = r]
  BY ReloadSettles DEF IInv
<1>2. \A d \in Calls \ {c} : WillReload(d)' <=> WillReload(d)
  BY <1>1, OthersWait DEF WillReload
<1>3. call'[c].pc = "cancel" => WillReload(c)'
  BY DEF WillReload
<1>4. reloads \subseteq reloads' \/ WillReload(c)'
  BY <1>3, ReloadsStay
<1>5. prev \notin {0, version} => reloads' # {} \/ WillReload(c)'
  BY <1>3, ReloadFollows
<1>6. page' # 0 => activeVersion' # 0
  BY DEF PageInv
<1>7. page' \in {0, activeVersion'} \/ reloads' # {} \/ \E d \in Calls : WillReload(d)'
  <2>1. CASE activeVersion' = activeVersion /\ (WillReload(c) => prev \notin {0, version})
    BY <1>2, <1>4, <1>5, <2>1 DEF PageInv
  <2>2. CASE activeVersion' = version /\ activeVersion = prev /\ ~WillReload(c)
    BY <1>2, <1>4, <1>5, <2>2 DEF PageInv
  <2> QED BY <2>1, <2>2
<1> QED BY <1>6, <1>7 DEF PageInv

\* A call goes on without a reload, and has none to do, or will do it later.
LEMMA WaitingStep ==
  ASSUME IInv, PageInv, NEW c \in Calls, NEW r, call' = [call EXCEPT ![c] = r],
         ~WillReload(c), UNCHANGED page, reloads \subseteq reloads',
         \/ activeVersion' = activeVersion
         \/ page = 0
         \/ /\ r.pc \in {"upgrade", "validate"} /\ r.version = activeVersion'
            /\ r.prev = activeVersion /\ activeVersion' # 0
  PROVE  PageInv'
<1>1. \A d \in Calls \ {c} : WillReload(d)' <=> WillReload(d)
  BY OthersWait DEF WillReload
<1>2. page' # 0 => activeVersion' # 0
  BY DEF PageInv
<1>3. CASE activeVersion' = activeVersion
  BY <1>1, <1>2, <1>3 DEF PageInv
<1>4. CASE page = 0
  BY <1>2, <1>4 DEF PageInv
<1>5. CASE /\ r.pc \in {"upgrade", "validate"} /\ r.version = activeVersion'
           /\ r.prev = activeVersion /\ activeVersion' # 0
  <2>1. activeVersion # 0 /\ activeVersion' # activeVersion => WillReload(c)'
    BY <1>5, OthersWait DEF WillReload
  <2> QED BY <1>1, <1>2, <1>3, <2>1 DEF PageInv
<1> QED BY <1>3, <1>4, <1>5

\* An idle call has no reload to do.
LEMMA IdleWaits ==
  ASSUME NEW c \in Calls, call[c] = Idle \/ call[c].pc \in {"seed", "build", "schedule"}
  PROVE  ~WillReload(c)
BY DEF WillReload, Idle, Awaiting

\* Every step leaves the clients on the live version or with a reload to come.
LEMMA PageStep ==
  ASSUME IInv, PageIInv, SeedFirst, ~Crashes, [Next]_vars
  PROVE  PageInv'
<1>0. PageInv /\ SeededOnce /\ call \in [Calls -> CallRecord]
  BY DEF PageIInv, IInv, TypeOK
<1>1. ASSUME UNCHANGED <<activeVersion, page, reloads, call>> PROVE PageInv'
  BY <1>0, <1>1 DEF PageInv, WillReload
<1>2. CASE UNCHANGED vars
  BY <1>1, <1>2 DEF vars
<1>3. ASSUME NEW c \in Calls, NEW t \in Templates, EnsureSeeded(c, t) PROVE PageInv'
  BY <1>0, <1>3, IdleWaits, WaitingStep DEF EnsureSeeded, Suspend, hostState, alarm
<1>4. ASSUME NEW c \in Calls, NEW code, SetFiles(c, code) PROVE PageInv'
  BY <1>0, <1>4, IdleWaits, WaitingStep DEF SetFiles, Suspend, hostState, alarm
<1>5. ASSUME NEW c \in Calls, ResetToTemplate(c) PROVE PageInv'
  BY <1>4, <1>5 DEF ResetToTemplate
<1>6. ASSUME NEW c \in Calls, NEW v \in VersionIds, Rollback(c, v) PROVE PageInv'
  <2>1. PICK r : r = Awaiting("validate", v, files[v], activeVersion, None)
    OBVIOUS
  <2>2. r.pc = "validate" /\ r.version = v /\ r.prev = activeVersion
    BY <2>1 DEF Awaiting
  <2>3. /\ call' = [call EXCEPT ![c] = r] /\ ~WillReload(c) /\ UNCHANGED <<page, reloads>>
        /\ activeVersion' = v /\ v # 0
    BY <1>6, <2>1, IdleWaits DEF Rollback, Suspend, alarm, IInv, TypeOK
  <2> QED BY <1>0, <2>2, <2>3, WaitingStep
<1>7. ASSUME NEW c \in Calls, Resume(c) PROVE PageInv'
  <2>1. CASE SeedBuilt(c)
    <3>1. activeVersion = 0 /\ page = 0
      BY <1>0, <2>1, SeedingComesFirst DEF SeedBuilt, PageInv
    <3> QED BY <1>0, <2>1, <3>1, IdleWaits, WaitingStep DEF SeedBuilt, Return, Suspend, alarm
  <2>2. CASE BuildOk(c)
    <3>1. PICK v \in 1 .. lastId : v = call[c].version
      BY <2>2, BuildsAreStored DEF BuildOk
    <3>2. activeVersion' = v /\ v # 0 /\ page' = page /\ ~WillReload(c)
      BY <2>2, <3>1, IdleWaits DEF BuildOk
    <3>3. CASE v > dataVersion
      <4>1. PICK r : r = Awaiting("upgrade", v, None, activeVersion, None)
        OBVIOUS
      <4>2. r.pc = "upgrade" /\ r.version = v /\ r.prev = activeVersion
        BY <4>1 DEF Awaiting
      <4>3. call' = [call EXCEPT ![c] = r] /\ reloads' = reloads
        BY <2>2, <3>1, <3>3, <4>1 DEF BuildOk, Suspend
      <4> QED BY <1>0, <3>2, <4>2, <4>3, WaitingStep
    <3>4. CASE ~(v > dataVersion)
      <4>1. ReloadOrReturn(c, activeVersion, v)
        BY <2>2, <3>1, <3>4 DEF BuildOk
      <4> QED BY <1>0, <3>2, <4>1, ReloadingStep
    <3> QED BY <3>3, <3>4
  <2>3. CASE BuildFailed(c)
    BY <1>0, <2>3, IdleWaits, WaitingStep DEF BuildFailed, Return, Suspend, alarm
  <2>4. CASE UpgradeOk(c) \/ UpgradeFailed(c)
    <3>1. PICK prev, version : prev = call[c].prev /\ version = call[c].version
      OBVIOUS
    <3>2. /\ ReloadOrReturn(c, prev, version) /\ page' = page
          /\ activeVersion' = activeVersion
      BY <2>4, <3>1 DEF UpgradeOk, UpgradeFailed, hostState
    <3>3. WillReload(c) => prev \notin {0, version}
      BY <2>4, <3>1 DEF UpgradeOk, UpgradeFailed, WillReload
    <3> QED BY <1>0, <3>2, <3>3, ReloadingStep
  <2>7. CASE Validated(c)
    <3>1. PICK prev, version : /\ ReloadOrReturn(c, prev, version)
                               /\ call[c].prev # call[c].version => prev \notin {0, version}
      BY <2>7, ValidatedReloads
    <3>2. page' = page /\ activeVersion' = activeVersion
      BY <2>7 DEF Validated
    <3>3. WillReload(c) => prev \notin {0, version}
      BY <2>7, <3>1 DEF Validated, WillReload
    <3> QED BY <1>0, <3>1, <3>2, <3>3, ReloadingStep
  <2>5. CASE ReloadCancelled(c)
    <3>1. reloads' # {} /\ page' = page /\ activeVersion' = activeVersion
      BY <2>5 DEF ReloadCancelled, ScheduleReload, hostState
    <3> QED BY <1>0, <3>1 DEF PageInv
  <2>6. CASE ReloadScheduled(c)
    BY <1>0, <2>6, IdleWaits, WaitingStep DEF ReloadScheduled, Return, Suspend, hostState
  <2> QED BY <1>7, <2>1, <2>2, <2>3, <2>4, <2>5, <2>6, <2>7 DEF Resume
<1>8. CASE GcVersions
  BY <1>1, <1>8 DEF GcVersions, hostState, alarm
<1>9. CASE (\E id \in ReloadIds : FlushReload(id)) \/ OpenPage
  <2>1. page' \in {0, activeVersion'} /\ (page' # 0 => activeVersion' # 0)
    BY <1>0, <1>9 DEF FlushReload, OpenPage, hostState, PageInv
  <2> QED BY <2>1 DEF PageInv
<1>10. ~Restart
  BY DEF Restart
<1> QED BY <1>2, <1>3, <1>4, <1>5, <1>6, <1>7, <1>8, <1>9, <1>10 DEF Next

\* Seeding is the first thing that happens, and no other seed or save starts
\* before it is over.
LEMMA SeedStep ==
  ASSUME IInv, PageIInv, SeedFirst, ~Crashes, [Next]_vars
  PROVE  SeededOnce'
<1>0. SeededOnce /\ call \in [Calls -> CallRecord]
  BY DEF PageIInv, IInv, TypeOK
<1>1. ASSUME At("seed")' \subseteq At("seed"), At("build")' \subseteq At("build"),
             activeVersion' = activeVersion
      PROVE  SeededOnce'
  BY <1>0, <1>1 DEF SeededOnce
<1>2. ASSUME At("seed")' = {} PROVE SeededOnce'
  BY <1>2 DEF SeededOnce
<1>3. CASE UNCHANGED vars
  BY <1>1, <1>3 DEF vars, At
<1>4. ASSUME NEW c \in Calls, NEW t \in Templates, EnsureSeeded(c, t) PROVE SeededOnce'
  <2>1. \A d \in Calls : call[d].pc \notin {"seed", "build"}
    BY <1>4, BuildsAreStored DEF EnsureSeeded, HasAnyVersion
  <2>2. activeVersion' = 0
    BY <1>4 DEF EnsureSeeded, HasAnyVersion, hostState, IInv, LiveVersionHasFiles
  <2>3. PICK r : r = Awaiting("seed", lastId + 1, t, 0, None)
    OBVIOUS
  <2>4. r.pc = "seed"
    BY <2>3 DEF Awaiting
  <2>5. \A d \in Calls : call'[d] = IF d = c THEN r ELSE call[d]
    BY <1>0, <1>4, <2>3 DEF EnsureSeeded, Suspend
  <2>6. At("seed")' = {c} /\ At("build")' = {}
    BY <2>1, <2>4, <2>5 DEF At
  <2> QED BY <2>2, <2>6 DEF SeededOnce
<1>5. ASSUME NEW c \in Calls, NEW r, call' = [call EXCEPT ![c] = r], r.pc # "seed",
             At("seed") = {}
      PROVE  SeededOnce'
  <2>1. \A d \in Calls : call'[d] = IF d = c THEN r ELSE call[d]
    BY <1>0, <1>5
  <2>2. At("seed")' = {}
    BY <1>5, <2>1 DEF At
  <2> QED BY <1>2, <2>2
<1>6. ASSUME activeVersion # 0 PROVE At("seed") = {}
  BY <1>0, <1>6 DEF SeededOnce
<1>7. ASSUME NEW c \in Calls, NEW code, SetFiles(c, code) PROVE SeededOnce'
  <2>1. PICK r : r = Awaiting("build", lastId + 1, code, 0, None)
    OBVIOUS
  <2>2. r.pc # "seed" /\ call' = [call EXCEPT ![c] = r] /\ activeVersion # 0
    BY <1>7, <2>1 DEF SetFiles, MaySave, Suspend, Awaiting
  <2> QED BY <1>5, <1>6, <2>2
<1>8. ASSUME NEW c \in Calls, ResetToTemplate(c) PROVE SeededOnce'
  BY <1>7, <1>8 DEF ResetToTemplate
<1>9. ASSUME NEW c \in Calls, NEW v \in VersionIds, Rollback(c, v) PROVE SeededOnce'
  <2>1. PICK r : r = Awaiting("validate", v, files[v], activeVersion, None)
    OBVIOUS
  <2>2. r.pc # "seed" /\ call' = [call EXCEPT ![c] = r] /\ activeVersion # 0
    BY <1>9, <2>1 DEF Rollback, Suspend, Awaiting
  <2> QED BY <1>5, <1>6, <2>2
<1>10. ASSUME NEW c \in Calls, Leaves(c) PROVE /\ At("seed")' = At("seed") \ {c}
                                             /\ At("build")' \subseteq At("build")
  <2>1. PICK r : r.pc \notin {"seed", "build"} /\ call' = [call EXCEPT ![c] = r]
    BY <1>10 DEF Leaves
  <2>2. \A d \in Calls : call'[d] = IF d = c THEN r ELSE call[d]
    BY <1>0, <2>1
  <2> QED BY <2>1, <2>2 DEF At
<1>11. ASSUME NEW c \in Calls, Resume(c) PROVE SeededOnce'
  <2>1. Leaves(c)
    <3>1. CASE BuildOk(c)
      <4>1. call[c].version \in 1 .. lastId
        BY <3>1, BuildsAreStored DEF BuildOk
      <4> QED BY <3>1, <4>1, SettlingLeaves DEF BuildOk
    <3>2. CASE Validated(c)
      BY <3>2, ValidatedReloads, SettlingLeaves
    <3>3. CASE ~BuildOk(c) /\ ~Validated(c)
      BY <1>11, <3>3, SettlingLeaves DEF Resume, SeedBuilt, BuildFailed, UpgradeOk,
           UpgradeFailed, ReloadCancelled, ReloadScheduled
    <3> QED BY <3>1, <3>2, <3>3
  <2>2. CASE SeedBuilt(c)
    <3>1. c \in At("seed")
      BY <2>2 DEF SeedBuilt, At
    <3>2. At("seed")' = {}
      BY <1>0, <1>10, <2>1, <3>1 DEF SeededOnce
    <3> QED BY <1>2, <3>2
  <2>3. CASE BuildOk(c)
    <3>1. c \in At("build")
      BY <2>3 DEF BuildOk, At
    <3>2. At("seed")' = {}
      BY <1>0, <1>10, <2>1, <3>1 DEF SeededOnce
    <3> QED BY <1>2, <3>2
  <2>4. CASE ~SeedBuilt(c) /\ ~BuildOk(c)
    <3>1. activeVersion' = activeVersion
      BY <1>11, <2>4 DEF Resume, BuildFailed, UpgradeOk, UpgradeFailed, Validated,
           ReloadCancelled, ReloadScheduled, hostState
    <3> QED BY <1>1, <1>10, <2>1, <3>1
  <2> QED BY <2>2, <2>3, <2>4
<1>12. CASE GcVersions \/ (\E id \in ReloadIds : FlushReload(id)) \/ OpenPage
  BY <1>1, <1>12 DEF GcVersions, FlushReload, OpenPage, hostState, tables, At
<1>13. ~Restart
  BY DEF Restart
<1> QED BY <1>3, <1>4, <1>7, <1>8, <1>9, <1>11, <1>12, <1>13 DEF Next

\* When no call is in flight and no reload scheduled, the clients run the live
\* version, as long as the room is seeded before it is edited and no restart
\* drops a call: each promote and each rollback has seen to its own reload,
\* however they were interleaved (setFiles, rollback, #broadcastReload).
THEOREM QuietPagesRunLiveVersion ==
  ASSUME SeedFirst, ~Crashes
  PROVE  Spec => []QuietPagesAreCurrent
<1>1. Init => PageIInv
  BY DEF Init, PageIInv, SeededOnce, PageInv, At, Idle, Awaiting
<1>2. IInv /\ PageIInv /\ [Next]_vars => PageIInv'
  BY PageStep, SeedStep DEF PageIInv
<1>3. PageIInv => QuietPagesAreCurrent
  BY DEF PageIInv, PageInv, WillReload, QuietPagesAreCurrent, NoCallInFlight, Idle, Awaiting
<1> QED BY <1>1, <1>2, <1>3, Inductive, PTL DEF Spec

-----------------------------------------------------------------------------
(* Data is upgraded forward, one upgrade at a time.                        *)

\* The calls that write the data version when they resume: the app's onUpgrade
\* has not answered yet, or the seed is being bundled.
Upgrading == At("seed") \cup At("upgrade")

\* What #runDataUpgrade relies on: no two such calls are under way at a time.
UpgradesAreSerialized == \A c, d \in Upgrading : c = d

\* Each of them brings a version that the data has not reached.
UpgradesAreAhead == \A c \in Upgrading : call[c].version > dataVersion

\* A call that begins to wait keeps that, as long as it brings a later version.
LEMMA SuspendingStaysAhead ==
  ASSUME IInv, UpgradesAreAhead, NEW c \in Calls, NEW r,
         call' = [call EXCEPT ![c] = r], dataVersion' = dataVersion,
         r.pc \in {"seed", "upgrade"} => r.version > dataVersion
  PROVE  UpgradesAreAhead'
<1>1. \A d \in Calls : call'[d] = IF d = c THEN r ELSE call[d]
  BY DEF IInv, TypeOK
<1> QED BY <1>1 DEF UpgradesAreAhead, Upgrading, At

\* A call that resumes from such a wait leaves no other behind.
LEMMA LastOneLeaves ==
  ASSUME IInv, UpgradesAreSerialized, NEW c \in Upgrading, NEW r, Settled(r),
         call' = [call EXCEPT ![c] = r]
  PROVE  Upgrading' = {}
<1>1. c \in Calls /\ \A d \in Calls : call'[d] = IF d = c THEN r ELSE call[d]
  BY DEF IInv, TypeOK, Upgrading, At
<1>2. r.pc \notin {"seed", "upgrade"}
  BY DEF Settled
<1>3. \A d \in Calls : d # c => call[d].pc \notin {"seed", "upgrade"}
  BY DEF UpgradesAreSerialized, Upgrading, At
<1> QED BY <1>1, <1>2, <1>3 DEF Upgrading, At

\* A call that settles without touching the data is none of them.
LEMMA SettlingStaysAhead ==
  ASSUME IInv, UpgradesAreAhead, NEW c \in Calls, NEW r, Settled(r),
         call' = [call EXCEPT ![c] = r], dataVersion' = dataVersion
  PROVE  UpgradesAreAhead'
BY SuspendingStaysAhead DEF Settled

\* The version of an upgrade or a seed that ends is later than the data's.
LEMMA DataMovesForward ==
  ASSUME IInv, UpgradesAreAhead, [Next]_vars
  PROVE  dataVersion' >= dataVersion
<1>1. dataVersion \in Nat /\ \A c \in Upgrading : call[c].version > dataVersion
  BY DEF IInv, TypeOK, UpgradesAreAhead
<1>2. CASE dataVersion' = dataVersion
  BY <1>1, <1>2
<1>3. ASSUME NEW c \in Calls, SeedBuilt(c) \/ UpgradeOk(c)
      PROVE  dataVersion' >= dataVersion
  <2>1. c \in Upgrading /\ dataVersion' = call[c].version
    BY <1>3 DEF SeedBuilt, UpgradeOk, Upgrading, At
  <2>2. call[c].version \in Nat
    BY DEF IInv, TypeOK, CallRecord
  <2> QED BY <1>1, <2>1, <2>2
<1>4. ASSUME NEW c \in Calls, Resume(c), ~SeedBuilt(c), ~UpgradeOk(c)
      PROVE  dataVersion' = dataVersion
  BY <1>4 DEF Resume, BuildOk, BuildFailed, UpgradeFailed, Validated, ReloadCancelled,
              ReloadScheduled, tables
<1>5. ASSUME NEW c \in Calls,
             \/ \E t \in Templates : EnsureSeeded(c, t)
             \/ \E code \in Code : SetFiles(c, code)
             \/ ResetToTemplate(c)
             \/ \E v \in VersionIds : Rollback(c, v)
      PROVE  dataVersion' >= dataVersion
  BY <1>2, <1>5 DEF EnsureSeeded, SetFiles, ResetToTemplate, Rollback, tables
<1>6. CASE \/ \E id \in ReloadIds : FlushReload(id)
           \/ GcVersions \/ OpenPage \/ Restart \/ UNCHANGED vars
  BY <1>2, <1>6 DEF FlushReload, GcVersions, OpenPage, Restart, tables, vars
<1>7. ASSUME NEW c \in Calls, Resume(c) PROVE dataVersion' >= dataVersion
  BY <1>2, <1>3, <1>4, <1>7
<1> QED BY <1>5, <1>6, <1>7 DEF Next

\* Every step keeps the upgrades ahead of the data, unless two overlap.
LEMMA UpgradesStayAhead ==
  ASSUME IInv, UpgradesAreSerialized, UpgradesAreAhead, [Next]_vars
  PROVE  UpgradesAreAhead'
<1>1. CASE UNCHANGED <<call, dataVersion>>
  BY <1>1 DEF UpgradesAreAhead, Upgrading, At
<1>2. ASSUME NEW c \in Calls, NEW code, InsertVersion(code),
             UNCHANGED dataVersion, NEW pc, NEW wait,
             Suspend(c, Awaiting(pc, lastId + 1, wait, 0, None))
      PROVE  UpgradesAreAhead'
  <2> DEFINE r == Awaiting(pc, lastId + 1, wait, 0, None)
  <2>1. r.version > dataVersion
    BY DEF Awaiting, IInv, TypeOK
  <2>2. call' = [call EXCEPT ![c] = r]
    BY <1>2 DEF Suspend
  <2> HIDE DEF r
  <2> QED BY <1>2, <2>1, <2>2, SuspendingStaysAhead
<1>3. ASSUME NEW c \in Calls, NEW t \in Templates, EnsureSeeded(c, t)
      PROVE  UpgradesAreAhead'
  BY <1>2, <1>3 DEF EnsureSeeded
<1>4. ASSUME NEW c \in Calls, NEW code, SetFiles(c, code) PROVE UpgradesAreAhead'
  BY <1>2, <1>4 DEF SetFiles
<1>5. ASSUME NEW c \in Calls, NEW v \in VersionIds, Rollback(c, v) PROVE UpgradesAreAhead'
  <2> DEFINE r == Awaiting("validate", v, files[v], activeVersion, None)
  <2>1. call' = [call EXCEPT ![c] = r] /\ dataVersion' = dataVersion
    BY <1>5 DEF Rollback, Suspend, tables
  <2>2. r.pc = "validate"
    BY DEF Awaiting
  <2> HIDE DEF r
  <2> QED BY <2>1, <2>2, SuspendingStaysAhead
<1>6. ASSUME NEW c \in Calls, SeedBuilt(c) \/ UpgradeOk(c) PROVE UpgradesAreAhead'
  <2>1. c \in Upgrading
    BY <1>6 DEF SeedBuilt, UpgradeOk, Upgrading, At
  <2>2. \E r : Settled(r) /\ call' = [call EXCEPT ![c] = r]
    <3>1. CASE SeedBuilt(c)
      BY <3>1, IdleSettled DEF SeedBuilt, Return, Suspend
    <3>2. CASE UpgradeOk(c)
      <4>1. \E prev, version : ReloadOrReturn(c, prev, version)
        BY <3>2 DEF UpgradeOk
      <4> QED BY <4>1, ReloadSettles DEF IInv
    <3> QED BY <1>6, <3>1, <3>2
  <2>3. Upgrading' = {}
    BY <2>1, <2>2, LastOneLeaves
  <2> QED BY <2>3 DEF UpgradesAreAhead
<1>7. ASSUME NEW c \in Calls, BuildOk(c) PROVE UpgradesAreAhead'
  <2>1. dataVersion' = dataVersion
    BY <1>7 DEF BuildOk
  <2>2. CASE call[c].version > dataVersion
    <3> DEFINE r == Awaiting("upgrade", call[c].version, None, activeVersion, None)
    <3>1. call' = [call EXCEPT ![c] = r]
      BY <1>7, <2>2 DEF BuildOk, Suspend
    <3>2. r.version > dataVersion
      BY <2>2 DEF Awaiting
    <3> HIDE DEF r
    <3> QED BY <2>1, <3>1, <3>2, SuspendingStaysAhead
  <2>3. CASE ~(call[c].version > dataVersion)
    <3>1. \E r : Settled(r) /\ call' = [call EXCEPT ![c] = r]
      <4>1. \E prev, version : ReloadOrReturn(c, prev, version)
        BY <1>7, <2>3 DEF BuildOk
      <4> QED BY <4>1, ReloadSettles DEF IInv
    <3> QED BY <2>1, <3>1, SettlingStaysAhead
  <2> QED BY <2>2, <2>3
<1>8. ASSUME NEW c \in Calls, \/ BuildFailed(c) \/ UpgradeFailed(c) \/ Validated(c)
                              \/ ReloadCancelled(c) \/ ReloadScheduled(c)
      PROVE  UpgradesAreAhead'
  <2>1. dataVersion' = dataVersion
    BY <1>8 DEF BuildFailed, UpgradeFailed, Validated, ReloadCancelled, ReloadScheduled,
                tables
  <2>2. \E r : Settled(r) /\ call' = [call EXCEPT ![c] = r]
    <3>1. CASE BuildFailed(c) \/ ReloadScheduled(c)
      BY <3>1, IdleSettled DEF BuildFailed, ReloadScheduled, Return, Suspend
    <3>2. CASE UpgradeFailed(c) \/ Validated(c) \/ ReloadCancelled(c)
      <4>1. ScheduleReload(c) \/ \E prev, version : ReloadOrReturn(c, prev, version)
        BY <3>2, ValidatedReloads DEF UpgradeFailed, ReloadCancelled
      <4> QED BY <4>1, ReloadSettles DEF IInv
    <3> QED BY <1>8, <3>1, <3>2
  <2> QED BY <2>1, <2>2, SettlingStaysAhead
<1>9. CASE Restart
  <2>1. Upgrading' = {}
    BY <1>9 DEF Restart, Upgrading, At, Idle, Awaiting
  <2> QED BY <2>1 DEF UpgradesAreAhead
<1>10. CASE (\E id \in ReloadIds : FlushReload(id)) \/ GcVersions \/ OpenPage \/ UNCHANGED vars
  BY <1>1, <1>10 DEF FlushReload, GcVersions, OpenPage, tables, vars
<1>11. ASSUME NEW c \in Calls, Resume(c) PROVE UpgradesAreAhead'
  BY <1>6, <1>7, <1>8, <1>11 DEF Resume
<1>12. ASSUME NEW c \in Calls, ResetToTemplate(c) PROVE UpgradesAreAhead'
  BY <1>4, <1>12 DEF ResetToTemplate
<1> QED BY <1>3, <1>4, <1>5, <1>9, <1>10, <1>11, <1>12 DEF Next

\* The data version never goes back as long as no two calls of onUpgrade, or one
\* and the seed, are under way at a time; saves may be bundled at once and end
\* in any order, and restarts may fall anywhere.  What #runDataUpgrade lacks is
\* this order and nothing else.
THEOREM SerializedUpgradesGoForward ==
  Spec /\ []UpgradesAreSerialized => DataVersionNeverGoesBack
<1>1. Init => UpgradesAreAhead
  BY DEF Init, UpgradesAreAhead, Upgrading, At, Idle, Awaiting
<1>2. IInv /\ UpgradesAreSerialized /\ UpgradesAreAhead /\ [Next]_vars => UpgradesAreAhead'
  BY UpgradesStayAhead
<1>3. IInv /\ UpgradesAreAhead /\ [Next]_vars => [dataVersion' >= dataVersion]_vars
  BY DataMovesForward
<1> QED BY <1>1, <1>2, <1>3, Inductive, PTL DEF Spec, DataVersionNeverGoesBack

=============================================================================
