---------------------------- MODULE AppScheduler ----------------------------
(***************************************************************************)
(* The task scheduler of one app: the AppScheduler Durable Object of       *)
(* src/src/agent/app-scheduler.ts and the capability stub that calls it,   *)
(* src/src/capabilities/scoped-scheduler.ts.                               *)
(*                                                                         *)
(* Times are counted from now, in units of MIN_DELAY_MS: a task with runIn *)
(* 2 is due in two units, one with runIn -1 is a unit late, and Tick makes *)
(* everything one unit more due.                                           *)
(*                                                                         *)
(* The storage of the object does not yield, so a method up to its RPC to  *)
(* another object is one action.  The tables and the alarm are persistent, *)
(* the pass of an alarm and the calls of the stub are not.                 *)
(* Operators named X_Y are faulty variants of X that no action uses.       *)
(***************************************************************************)
EXTENDS Integers, FiniteSets, Sequences, SequencesExt

CONSTANTS
  Calls,          \* concurrent after / at / every calls of the app
  Ids,            \* ids of tasks; one is reused once its task is forgotten
  Delays,         \* delays and intervals the app asks for
  Batch,          \* BATCH: tasks taken in one alarm pass
  Caps,           \* values of the room's maxScheduledTasks limit
  None,
  \* Bounds and assumptions on the environment:
  MaxLate,        \* no task or call is later than that: time waits for it
  ManifestFails,  \* AppHost may be unreachable when a pass loads the code
  Crashes         \* the object may restart

ASSUME SchedulerAssumption ==
  /\ Delays \subseteq Int
  /\ Batch \in Nat \ {0}
  /\ Caps \subseteq Nat
  /\ None \notin Int
  /\ MaxLate \in Nat \ {0}
  /\ ManifestFails \in BOOLEAN
  /\ Crashes \in BOOLEAN

VARIABLES
  tasks,      \* the scheduled table: id -> when it runs, and its interval
  alarm,      \* when the alarm fires, None when it is not set
  retry,      \* the platform owes a failed alarm handler another call
  pass,       \* the tasks the running alarm handler still has to run
  cap,        \* maxScheduledTasks in AppHost
  highest,    \* history: the highest value cap has had so far
  call        \* calls of the stub that wait for AppHost or this object

vars == <<tasks, alarm, retry, pass, cap, highest, call>>

-----------------------------------------------------------------------------

Task(runIn, every) == [runIn |-> runIn, every |-> every]
Request(pc, runIn, every, limit) ==
  [pc |-> pc, runIn |-> runIn, every |-> every, limit |-> limit]
Idle == Request("idle", 0, None, 0)

Resting == [pc |-> "idle", batch |-> << >>]

Pending == DOMAIN tasks
InPass == ToSet(pass.batch)
Due == {id \in Pending : tasks[id].runIn <= 0}

AtLeast(low, n) == IF n < low THEN low ELSE n

Earliest_FutureOnly(t) ==
  LET later == {t[id].runIn : id \in DOMAIN t} \cap (Nat \ {0}) IN
  IF later = {} THEN None ELSE CHOOSE n \in later : \A m \in later : n <= m

\* #arm: the earliest run time of the table t.
Earliest(t) ==
  IF DOMAIN t = {} THEN None
  ELSE CHOOSE n \in {t[id].runIn : id \in DOMAIN t} :
         \A id \in DOMAIN t : n <= t[id].runIn

-----------------------------------------------------------------------------
(* ScopedScheduler: after, at and every.                                   *)

Ask_NotFloored(c, delay, recurring) ==
  /\ call[c] = Idle
  /\ call' = [call EXCEPT ![c] =
                Request("limit", delay, IF recurring THEN delay ELSE None, 0)]
  /\ UNCHANGED <<tasks, alarm, retry, pass, cap, highest>>

\* The run time is fixed here, floored to one unit from now; the limit is
\* then asked from AppHost.
Ask(c, delay, recurring) ==
  LET runIn == AtLeast(1, delay) IN
  /\ call[c] = Idle
  /\ call' = [call EXCEPT ![c] =
                Request("limit", runIn, IF recurring THEN runIn ELSE None, 0)]
  /\ UNCHANGED <<tasks, alarm, retry, pass, cap, highest>>

\* The stub compares the count itself and leaves the object no limit to check.
LimitRead_ChecksThere(c) ==
  /\ call[c].pc = "limit"
  /\ call' = [call EXCEPT ![c].pc = "schedule",
                          ![c].limit = IF Cardinality(Pending) >= cap THEN 0
                                       ELSE CHOOSE n \in Caps : \A m \in Caps : m <= n]
  /\ UNCHANGED <<tasks, alarm, retry, pass, cap, highest>>

LimitRead(c) ==
  /\ call[c].pc = "limit"
  /\ call' = [call EXCEPT ![c].pc = "schedule", ![c].limit = cap]
  /\ UNCHANGED <<tasks, alarm, retry, pass, cap, highest>>

-----------------------------------------------------------------------------
(* AppScheduler: scheduleTask, cancelTask, alarm.                          *)

\* Refused at the limit the stub brought; otherwise inserted under a new id.
ScheduleTask(c) ==
  /\ call[c].pc = "schedule"
  /\ call' = [call EXCEPT ![c] = Idle]
  /\ \/ /\ Cardinality(Pending) >= call[c].limit
        /\ UNCHANGED <<tasks, alarm>>
     \/ /\ Cardinality(Pending) < call[c].limit
        /\ \E id \in Ids \ (Pending \cup InPass) :
             tasks' = [t \in Pending \cup {id} |->
                         IF t = id THEN Task(call[c].runIn, call[c].every) ELSE tasks[t]]
        /\ alarm' = Earliest(tasks')
  /\ UNCHANGED <<retry, pass, cap, highest>>

CancelTask_NotRearmed(id) ==
  /\ tasks' = [t \in Pending \ {id} |-> tasks[t]]
  /\ UNCHANGED <<alarm, retry, pass, cap, highest, call>>

CancelTask(id) ==
  /\ tasks' = [t \in Pending \ {id} |-> tasks[t]]
  /\ alarm' = Earliest(tasks')
  /\ UNCHANGED <<retry, pass, cap, highest, call>>

\* SELECT ... WHERE run_at <= now ORDER BY run_at LIMIT BATCH; ties in any order.
Selections ==
  LET n == IF Cardinality(Due) <= Batch THEN Cardinality(Due) ELSE Batch IN
  {s \in [1 .. n -> Due] :
     \A i \in 1 .. n :
       /\ \A j \in 1 .. i - 1 : s[j] # s[i]
       /\ \A id \in Due \ {s[j] : j \in 1 .. i} : tasks[s[i]].runIn <= tasks[id].runIn}

NextRun_CatchesUp(t) == Task(t.runIn + t.every, t.every)

\* A recurring task's next slot; missed slots are skipped.
NextRun(t) ==
  Task(IF t.runIn + t.every <= 0 THEN t.every ELSE t.runIn + t.every, t.every)

AfterPass_KeepsOneShots(batch) ==
  [id \in Pending |->
     IF id \in batch /\ tasks[id].every # None THEN NextRun(tasks[id]) ELSE tasks[id]]

\* The table once the tasks of batch are taken: one-shots are deleted and
\* recurring tasks moved on before any of them runs.
AfterPass(batch) ==
  [id \in {t \in Pending : t \in batch => tasks[t].every # None} |->
     IF id \in batch THEN NextRun(tasks[id]) ELSE tasks[id]]

\* The platform calls one alarm handler at a time, when it is due or again
\* after the handler was cut off.
Alarm ==
  /\ pass = Resting
  /\ retry \/ (alarm # None /\ alarm <= 0)
  /\ \E selected \in Selections :
       /\ tasks' = AfterPass(ToSet(selected))
       /\ pass' = IF selected = << >> THEN Resting
                  ELSE [pc |-> "manifest", batch |-> selected]
  /\ alarm' = Earliest(tasks')
  /\ retry' = FALSE
  /\ UNCHANGED <<cap, highest, call>>

ManifestLoaded ==
  /\ pass.pc = "manifest"
  /\ pass' = [pass EXCEPT !.pc = "run"]
  /\ UNCHANGED <<tasks, alarm, retry, cap, highest, call>>

\* No code, or AppHost cannot be reached: the pass is skipped.
ManifestFailed ==
  /\ ManifestFails
  /\ pass.pc = "manifest"
  /\ pass' = Resting
  /\ UNCHANGED <<tasks, alarm, retry, cap, highest, call>>

\* onSchedule was called; whether it failed makes no difference.
RunTask ==
  /\ pass.pc = "run"
  /\ pass' = IF Len(pass.batch) = 1 THEN Resting
             ELSE [pass EXCEPT !.batch = Tail(@)]
  /\ UNCHANGED <<tasks, alarm, retry, cap, highest, call>>

-----------------------------------------------------------------------------
(* Time, the room's limits, restarts.                                      *)

Tick ==
  /\ \A id \in Pending : tasks[id].runIn > -MaxLate
  /\ \A c \in Calls : call[c].runIn > -MaxLate
  /\ tasks' = [id \in Pending |-> [tasks[id] EXCEPT !.runIn = @ - 1]]
  /\ alarm' = IF alarm = None THEN None ELSE alarm - 1
  /\ call' = [c \in Calls |-> IF call[c] = Idle THEN Idle
                              ELSE [call[c] EXCEPT !.runIn = @ - 1]]
  /\ UNCHANGED <<retry, pass, cap, highest>>

SetLimit(n) ==
  /\ n # cap
  /\ cap' = n
  /\ highest' = AtLeast(highest, n)
  /\ UNCHANGED <<tasks, alarm, retry, pass, call>>

Restart ==
  /\ Crashes
  /\ pass' = Resting
  /\ retry' \in {retry, pass # Resting}
  /\ call' = [c \in Calls |-> Idle]
  /\ UNCHANGED <<tasks, alarm, cap, highest>>

-----------------------------------------------------------------------------

Init ==
  /\ tasks = << >>
  /\ alarm = None
  /\ retry = FALSE
  /\ pass = Resting
  /\ cap \in Caps
  /\ highest = cap
  /\ call = [c \in Calls |-> Idle]

Next ==
  \/ \E c \in Calls :
       \/ \E delay \in Delays, recurring \in BOOLEAN : Ask(c, delay, recurring)
       \/ LimitRead(c)
       \/ ScheduleTask(c)
  \/ \E id \in Ids : CancelTask(id)
  \/ Alarm
  \/ ManifestLoaded
  \/ ManifestFailed
  \/ RunTask
  \/ Tick
  \/ \E n \in Caps : SetLimit(n)
  \/ Restart

\* Time passes, alarms are delivered, RPCs are answered and sandbox runs end.
Fairness == /\ WF_vars(Tick)
            /\ \A c \in Calls : WF_vars(LimitRead(c) \/ ScheduleTask(c))
            /\ WF_vars(Alarm)
            /\ WF_vars(ManifestLoaded \/ ManifestFailed)
            /\ WF_vars(RunTask)

Spec == Init /\ [][Next]_vars

FairSpec == Spec /\ Fairness

-----------------------------------------------------------------------------
(* Properties.                                                             *)

Interval == (Nat \ {0}) \cup {None}

\* Types of all variables (the table, the alarm, the pass, the calls).
TypeOK ==
  /\ Pending \subseteq Ids
  /\ tasks \in [Pending -> [runIn : Int, every : Interval]]
  /\ alarm \in Int \cup {None}
  /\ retry \in BOOLEAN
  /\ pass \in [pc : {"idle", "manifest", "run"}, batch : Seq(Ids)]
  /\ cap \in Caps
  /\ highest \in Caps
  /\ call \in [Calls -> [pc : {"idle", "limit", "schedule"}, runIn : Int,
                         every : Interval, limit : Caps \cup {0}]]

\* The single alarm is always armed to the earliest pending task, through
\* inserts, cancels, passes and restarts: no task can be forgotten (#arm).
AlarmIsEarliest == alarm = Earliest(tasks)

\* Concurrent schedules cannot slip past the room's limit: however long ago a
\* call read its limit and whatever else was inserted since, there are never more
\* tasks than the highest limit this room has had so far (scheduleTask).
PendingWithinCap == Cardinality(Pending) <= highest

\* A one-shot is run at most once, even if the handler is cut off in the
\* middle and the platform calls it again: one that a pass is about to run
\* is no longer in the table (alarm).
OneShotsRunOnce == \A id \in InPass \cap Pending : tasks[id].every # None

\* A pass takes a task out of the due ones for good: one that hangs or is
\* late is not taken again at once, and missed slots cause no burst (alarm).
TakenTasksAreNotDue ==
  [][pass = Resting /\ pass' # Resting
       => \A id \in ToSet(pass'.batch) \cap DOMAIN tasks' : tasks'[id].runIn > 0]_vars

\* Every task scheduled is taken by a pass in time, or cancelled: none starves
\* behind recurring ones though a pass takes only Batch tasks, and no restart
\* or failed pass leaves a task without an alarm (alarm, #arm).
EveryTaskIsTaken == \A id \in Ids : id \in Pending ~> id \notin Pending \/ id \in InPass

=============================================================================
