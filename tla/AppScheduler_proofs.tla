------------------------ MODULE AppScheduler_proofs ------------------------
(***************************************************************************)
(* Safety of the task scheduler for any number of calls and tasks, any     *)
(* delays, batch size and limits, and any interleaving with restarts.      *)
(***************************************************************************)
EXTENDS AppScheduler, SequenceTheorems, FiniteSetTheorems, WellFoundedInduction, TLAPS

\* The table is finite, no task or call is more than MaxLate late, a call that
\* reaches the scheduler brings a limit no higher than the room has had, and a
\* pass under way has tasks left.
StateIsConsistent ==
  /\ IsFiniteSet(Pending)
  /\ \A id \in Pending : tasks[id].runIn >= -MaxLate
  /\ \A c \in Calls : call[c].runIn >= -MaxLate
  /\ cap <= highest
  /\ \A c \in Calls :
       call[c].pc = "schedule" => call[c].limit \in Caps /\ call[c].limit <= highest
  /\ pass.pc # "idle" => pass.batch # << >>

\* The inductive invariant.
IInv ==
  /\ TypeOK
  /\ StateIsConsistent
  /\ AlarmIsEarliest
  /\ PendingWithinCap
  /\ OneShotsRunOnce

-----------------------------------------------------------------------------
(* Lemmas about the operators.                                             *)

\* A nonempty set of integers with a lower bound has a least element: the
\* intervals from the bound to its elements are well-founded by inclusion.
LEMMA LeastExists ==
  ASSUME NEW S \in SUBSET Int, S # {},
         NEW low \in Int, \A n \in S : low <= n
  PROVE  \E n \in S : \A m \in S : n <= m
<1> DEFINE Below == {low .. n : n \in S}
<1>1. \A n \in S : low .. n \in FiniteSubsetsOf(Int)
  <2> SUFFICES ASSUME NEW n \in S
               PROVE  IsFiniteSet(low .. n) /\ low .. n \subseteq Int
    BY DEF FiniteSubsetsOf
  <2> QED BY FS_Interval
<1>2. Below \subseteq FiniteSubsetsOf(Int) /\ Below # {}
  BY <1>1
<1>3. IsWellFoundedOn(StrictSubsetOrdering(Int), FiniteSubsetsOf(Int))
  BY FS_StrictSubsetOrderingWellFounded
<1> HIDE DEF Below
<1>4. PICK b \in Below : \A c \in Below : <<c, b>> \notin StrictSubsetOrdering(Int)
  BY <1>2, <1>3, WFMin
<1>5. PICK n \in S : b = low .. n
  BY DEF Below
<1>6. ASSUME NEW m \in S, m < n
      PROVE  FALSE
  <2>1. low .. m \in Below
    BY DEF Below
  <2>2. n \in low .. n /\ n \notin low .. m
    BY <1>6
  <2>3. /\ low .. m \in SUBSET Int /\ low .. n \in SUBSET Int
        /\ low .. m \subseteq low .. n
        /\ low .. m # low .. n
    BY <1>6, <2>2
  <2> QED BY <1>4, <1>5, <2>1, <2>3 DEF StrictSubsetOrdering
<1> QED BY <1>6

\* What the query of #arm returns: the run time of some task, and no later
\* than that of any.
LEMMA EarliestIsLeast ==
  ASSUME NEW t, DOMAIN t # {}, NEW low \in Int,
         \A id \in DOMAIN t : t[id].runIn \in Int /\ low <= t[id].runIn
  PROVE  /\ \E id \in DOMAIN t : Earliest(t) = t[id].runIn
         /\ \A id \in DOMAIN t : Earliest(t) <= t[id].runIn
<1> DEFINE Times == {t[id].runIn : id \in DOMAIN t}
<1>1. /\ Times \in SUBSET Int /\ Times # {}
      /\ \A n \in Times : low <= n
  OBVIOUS
<1>2. \E n \in Times : \A m \in Times : n <= m
  <2> HIDE DEF Times
  <2> QED BY <1>1, LeastExists
<1>3. \E n \in Times : \A id \in DOMAIN t : n <= t[id].runIn
  BY <1>2
<1>4. Earliest(t) = CHOOSE n \in Times : \A id \in DOMAIN t : n <= t[id].runIn
  BY DEF Earliest
<1>5. /\ Earliest(t) \in Times
      /\ \A id \in DOMAIN t : Earliest(t) <= t[id].runIn
  <2> HIDE DEF Times
  <2> QED BY <1>3, <1>4
<1> QED BY <1>5

\* When every task comes a unit closer, so does the earliest.
LEMMA EarliestTicks ==
  ASSUME NEW t, NEW u, DOMAIN u = DOMAIN t, NEW low \in Int,
         \A id \in DOMAIN t : /\ t[id].runIn \in Int /\ low <= t[id].runIn
                              /\ u[id].runIn = t[id].runIn - 1
  PROVE  Earliest(u) = IF DOMAIN t = {} THEN None ELSE Earliest(t) - 1
<1>1. CASE DOMAIN t = {}
  BY <1>1 DEF Earliest
<1>2. CASE DOMAIN t # {}
  <2>1. /\ \E id \in DOMAIN t : Earliest(t) = t[id].runIn
        /\ \A id \in DOMAIN t : Earliest(t) <= t[id].runIn
    BY <1>2, EarliestIsLeast
  <2>2. low - 1 \in Int /\ \A id \in DOMAIN u : u[id].runIn \in Int /\ low - 1 <= u[id].runIn
    OBVIOUS
  <2>3. /\ \E id \in DOMAIN u : Earliest(u) = u[id].runIn
        /\ \A id \in DOMAIN u : Earliest(u) <= u[id].runIn
    BY <1>2, <2>2, EarliestIsLeast
  <2> HIDE DEF Earliest
  <2>4. PICK i \in DOMAIN t : Earliest(t) = t[i].runIn
    BY <2>1
  <2>5. PICK j \in DOMAIN t : Earliest(u) = u[j].runIn
    BY <2>3
  <2>6. Earliest(t) <= t[j].runIn /\ Earliest(u) <= u[i].runIn
    BY <2>1, <2>3
  <2> QED BY <1>2, <2>4, <2>5, <2>6
<1> QED BY <1>1, <1>2

\* The alarm of a table with integer run times is one of them, or not set.
LEMMA EarliestType ==
  ASSUME NEW t, NEW low \in Int,
         \A id \in DOMAIN t : t[id].runIn \in Int /\ low <= t[id].runIn
  PROVE  Earliest(t) \in Int \cup {None}
<1>1. CASE DOMAIN t = {}
  BY <1>1 DEF Earliest
<1>2. CASE DOMAIN t # {}
  BY <1>2, EarliestIsLeast
<1> QED BY <1>1, <1>2

\* The next slot of a recurring task is in the future, one interval away.
LEMMA NextRunIsLater ==
  ASSUME NEW t, t.runIn \in Int, t.every \in Nat \ {0}
  PROVE  /\ NextRun(t) \in [runIn : Int, every : Nat \ {0}]
         /\ NextRun(t).runIn > 0
         /\ NextRun(t).runIn > t.runIn \/ NextRun(t).runIn = t.every
         /\ NextRun(t).every = t.every
BY DEF NextRun, Task

\* A pass takes distinct due tasks, at most Batch of them.
LEMMA SelectionsType ==
  ASSUME IsFiniteSet(Pending), Pending \subseteq Ids, Batch \in Nat,
         NEW s \in Selections
  PROVE  s \in Seq(Ids) /\ ToSet(s) \subseteq Due /\ Due \subseteq Pending
<1> DEFINE n == IF Cardinality(Due) <= Batch THEN Cardinality(Due) ELSE Batch
<1>1. Due \subseteq Pending
  BY DEF Due
<1>2. Cardinality(Due) \in Nat
  BY <1>1, FS_Subset, FS_CardinalityType
<1>3. n \in Nat /\ s \in [1 .. n -> Due]
  BY <1>2 DEF Selections
<1> HIDE DEF n
<1>4. s \in Seq(Ids)
  BY <1>1, <1>3, SeqDef
<1>5. ToSet(s) \subseteq Due
  BY <1>3 DEF ToSet
<1> QED BY <1>1, <1>4, <1>5

\* What is left of a pass is part of it.
LEMMA TailKeepsElements ==
  ASSUME NEW S, NEW s \in Seq(S), s # << >>, Len(s) # 1
  PROVE  /\ Tail(s) \in Seq(S) /\ Tail(s) # << >>
         /\ ToSet(Tail(s)) \subseteq ToSet(s)
<1>0. Len(s) \in Nat \ {0}
  BY EmptySeq
<1>1. /\ Len(s) \in Nat /\ Len(s) > 1 /\ DOMAIN s = 1 .. Len(s)
  BY <1>0
<1>2. /\ Tail(s) \in Seq(S) /\ Len(Tail(s)) = Len(s) - 1
      /\ \A i \in 1 .. Len(s) - 1 : Tail(s)[i] = s[i + 1]
  BY <1>1, HeadTailProperties
<1>3. DOMAIN Tail(s) = 1 .. Len(s) - 1 /\ Tail(s) # << >>
  <2>1. DOMAIN Tail(s) = 1 .. Len(Tail(s))
    BY <1>2, LenProperties
  <2>2. Len(Tail(s)) # 0
    BY <1>1, <1>2
  <2>3. Len(<< >>) = 0
    BY EmptySeq
  <2>4. Tail(s) # << >>
    BY <2>2, <2>3, Zenon
  <2>5. DOMAIN Tail(s) = 1 .. Len(s) - 1
    BY <1>2, <2>1
  <2> QED BY <2>4, <2>5
<1>4. ASSUME NEW x \in ToSet(Tail(s))
      PROVE  x \in ToSet(s)
  <2>1. PICK i \in 1 .. Len(s) - 1 : x = s[i + 1]
    BY <1>2, <1>3 DEF ToSet
  <2>2. i + 1 \in DOMAIN s
    BY <1>1
  <2> QED BY <2>1, <2>2 DEF ToSet
<1> QED BY <1>2, <1>3, <1>4

\* #arm leaves the alarm at a time or unset.
LEMMA ArmedType ==
  ASSUME NEW t, DOMAIN t \subseteq Ids,
         \A id \in DOMAIN t : t[id].runIn \in Int /\ t[id].runIn >= -MaxLate
  PROVE  Earliest(t) \in Int \cup {None}
BY EarliestType, SchedulerAssumption

-----------------------------------------------------------------------------
(* The steps.                                                              *)

LEMMA InitIInv == Init => IInv
<1> SUFFICES ASSUME Init
             PROVE  IInv
  OBVIOUS
<1> USE DEF Init, Pending, InPass
<1>1. DOMAIN tasks = {}
  OBVIOUS
<1>2. TypeOK
  <2>1. tasks \in [DOMAIN tasks -> [runIn : Int, every : Interval]]
    BY <1>1
  <2>2. pass \in [pc : {"idle", "manifest", "run"}, batch : Seq(Ids)]
    BY DEF Resting
  <2>3. call \in [Calls -> [pc : {"idle", "limit", "schedule"}, runIn : Int,
                          every : Interval, limit : Caps \cup {0}]]
    BY DEF Idle, Request, Interval
  <2> QED BY <1>1, <2>1, <2>2, <2>3 DEF TypeOK
<1>3. StateIsConsistent
  <2>1. IsFiniteSet(DOMAIN tasks)
    BY <1>1, FS_EmptySet
  <2> QED BY <1>1, <2>1, SchedulerAssumption DEF StateIsConsistent, Idle, Request, Resting
<1>4. AlarmIsEarliest
  BY <1>1 DEF AlarmIsEarliest, Earliest
<1>5. PendingWithinCap
  <2>1. Cardinality(DOMAIN tasks) = 0
    BY <1>1, FS_EmptySet
  <2> QED BY <2>1, SchedulerAssumption DEF PendingWithinCap
<1>6. OneShotsRunOnce
  BY <1>1 DEF OneShotsRunOnce
<1> QED BY <1>2, <1>3, <1>4, <1>5, <1>6 DEF IInv

\* Scheduling: the new task gets an id that neither the table nor the pass has,
\* and is inserted below the limit only.
LEMMA ScheduleTaskStep ==
  ASSUME IInv, NEW c \in Calls, ScheduleTask(c)
  PROVE  IInv'
<1> USE DEF IInv
<1>0. /\ call' = [call EXCEPT ![c] = Idle]
      /\ Idle \in [pc : {"idle", "limit", "schedule"}, runIn : Int,
                   every : Interval, limit : Caps \cup {0}]
      /\ Idle.pc = "idle" /\ Idle.runIn >= -MaxLate
      /\ UNCHANGED <<retry, pass, cap, highest>>
  BY SchedulerAssumption DEF ScheduleTask, Idle, Request, Interval
<1>1. CASE UNCHANGED <<tasks, alarm>>
  BY <1>0, <1>1 DEF TypeOK, StateIsConsistent, AlarmIsEarliest,
    PendingWithinCap, OneShotsRunOnce, Pending, InPass
<1>2. CASE /\ Cardinality(Pending) < call[c].limit
           /\ \E id \in Ids \ (Pending \cup InPass) :
                tasks' = [t \in Pending \cup {id} |->
                  IF t = id THEN Task(call[c].runIn, call[c].every) ELSE tasks[t]]
           /\ alarm' = Earliest(tasks')
  <2>0. PICK id \in Ids \ (Pending \cup InPass) :
          tasks' = [t \in Pending \cup {id} |->
            IF t = id THEN Task(call[c].runIn, call[c].every) ELSE tasks[t]]
    BY <1>2
  <2>1. Pending' = Pending \cup {id} /\ id \notin Pending /\ id \notin InPass
    BY <2>0 DEF Pending
  <2>2. /\ tasks'[id] = Task(call[c].runIn, call[c].every)
        /\ tasks'[id] \in [runIn : Int, every : Interval]
        /\ tasks'[id].runIn >= -MaxLate
        /\ \A t \in Pending : tasks'[t] = tasks[t]
    BY <2>0, <2>1 DEF Task, TypeOK, StateIsConsistent
  <2>3. /\ \A t \in Pending' : tasks'[t].runIn \in Int /\ tasks'[t].runIn >= -MaxLate
        /\ Pending' \subseteq Ids
    BY <2>1, <2>2 DEF TypeOK, StateIsConsistent
  <2>4. alarm' \in Int \cup {None}
    BY <1>2, <2>3, ArmedType DEF Pending
  <2>5. tasks' \in [Pending' -> [runIn : Int, every : Interval]]
    BY <2>0, <2>1, <2>2 DEF TypeOK, Pending
  <2>6. TypeOK'
    BY <1>0, <2>3, <2>4, <2>5 DEF TypeOK
  <2>7. /\ IsFiniteSet(Pending)'
        /\ Cardinality(Pending)' = Cardinality(Pending) + 1
        /\ Cardinality(Pending) \in Nat
    BY <2>1, FS_AddElement, FS_CardinalityType DEF StateIsConsistent
  <2>8. StateIsConsistent'
    BY <1>0, <2>3, <2>7 DEF StateIsConsistent, TypeOK
  <2>9. AlarmIsEarliest'
    BY <1>2 DEF AlarmIsEarliest
  <2>10. PendingWithinCap'
    <3>1. call[c].limit \in Caps /\ call[c].limit <= highest
      BY DEF ScheduleTask, StateIsConsistent
    <3>2. /\ Cardinality(Pending) < call[c].limit
          /\ call[c].limit \in Nat /\ highest \in Nat
      BY <1>2, <3>1, SchedulerAssumption DEF TypeOK
    <3>3. Cardinality(Pending)' <= highest
      BY <2>7, <3>1, <3>2
    <3> QED BY <1>0, <3>3 DEF PendingWithinCap
  <2>11. OneShotsRunOnce'
    BY <1>0, <2>1, <2>2 DEF OneShotsRunOnce, InPass
  <2> QED BY <2>6, <2>8, <2>9, <2>10, <2>11
<1> QED BY <1>1, <1>2 DEF ScheduleTask

\* A step that only forgets tasks, keeps the rest and arms the alarm again.
LEMMA CancelTaskStep ==
  ASSUME IInv, NEW id \in Ids, CancelTask(id)
  PROVE  IInv'
<1> USE DEF IInv
<1>0. /\ tasks' = [t \in Pending \ {id} |-> tasks[t]]
      /\ alarm' = Earliest(tasks')
      /\ UNCHANGED <<retry, pass, cap, highest, call>>
  BY DEF CancelTask
<1>1. Pending' = Pending \ {id} /\ \A t \in Pending' : tasks'[t] = tasks[t]
  BY <1>0 DEF Pending
<1>2. /\ Pending' \subseteq Ids
      /\ \A t \in Pending' : tasks'[t].runIn \in Int /\ tasks'[t].runIn >= -MaxLate
  BY <1>1 DEF TypeOK, StateIsConsistent
<1>3. TypeOK'
  <2>1. alarm' \in Int \cup {None}
    BY <1>0, <1>2, ArmedType DEF Pending
  <2> QED BY <1>0, <1>1, <1>2, <2>1 DEF TypeOK, Pending
<1>4. /\ IsFiniteSet(Pending')
      /\ Cardinality(Pending') <= Cardinality(Pending)
      /\ Cardinality(Pending) \in Nat /\ Cardinality(Pending') \in Nat
  BY <1>1, FS_Subset, FS_CardinalityType DEF StateIsConsistent
<1>5. StateIsConsistent'
  BY <1>0, <1>2, <1>4 DEF StateIsConsistent
<1>6. AlarmIsEarliest'
  BY <1>0 DEF AlarmIsEarliest
<1>7. PendingWithinCap'
  BY <1>0, <1>4, SchedulerAssumption DEF PendingWithinCap, TypeOK
<1>8. OneShotsRunOnce'
  BY <1>0, <1>1 DEF OneShotsRunOnce, InPass
<1> QED BY <1>3, <1>5, <1>6, <1>7, <1>8

\* The table a pass leaves: a task it took is there only if it recurs, and then
\* it is due in the future; the others are as they were.
LEMMA AfterPassTable ==
  ASSUME TypeOK, StateIsConsistent, NEW batch \in SUBSET Due
  PROVE  LET table == AfterPass(batch) IN
         /\ DOMAIN table \subseteq Pending
         /\ table \in [DOMAIN table -> [runIn : Int, every : Interval]]
         /\ \A id \in DOMAIN table : table[id].runIn >= -MaxLate
         /\ \A id \in batch \cap DOMAIN table :
              table[id].runIn > 0 /\ table[id].every # None
<1> DEFINE table == AfterPass(batch)
           kept == {id \in Pending : id \in batch => tasks[id].every # None}
<1>1. table = [id \in kept |-> IF id \in batch THEN NextRun(tasks[id]) ELSE tasks[id]]
  BY DEF AfterPass
<1>2. DOMAIN table = kept /\ kept \subseteq Pending
  BY <1>1
<1>3. \A id \in Pending : /\ tasks[id] \in [runIn : Int, every : Interval]
                          /\ tasks[id].runIn >= -MaxLate
  BY DEF TypeOK, StateIsConsistent
<1>4. ASSUME NEW id \in kept, id \in batch
      PROVE  /\ table[id] \in [runIn : Int, every : Interval]
             /\ table[id].runIn > 0 /\ table[id].every # None
  <2>1. tasks[id].runIn \in Int /\ tasks[id].every \in Nat \ {0}
    BY <1>3, <1>4 DEF Interval
  <2>2. table[id] = NextRun(tasks[id])
    BY <1>1, <1>4
  <2>3. /\ NextRun(tasks[id]) \in [runIn : Int, every : Nat \ {0}]
        /\ NextRun(tasks[id]).runIn > 0
    BY <2>1, NextRunIsLater
  <2> QED BY <2>2, <2>3, SchedulerAssumption DEF Interval
<1>5. ASSUME NEW id \in kept, id \notin batch
      PROVE  table[id] = tasks[id]
  BY <1>1, <1>5
<1> HIDE DEF table, kept
<1>6. \A id \in kept : table[id] \in [runIn : Int, every : Interval]
  BY <1>2, <1>3, <1>4, <1>5
<1>7. \A id \in kept : table[id].runIn >= -MaxLate
  BY <1>2, <1>3, <1>4, <1>5, SchedulerAssumption
<1>8. table \in [kept -> [runIn : Int, every : Interval]]
  BY <1>1, <1>6
<1> QED BY <1>2, <1>4, <1>7, <1>8 DEF table

LEMMA AlarmStep ==
  ASSUME IInv, Alarm
  PROVE  /\ IInv'
         /\ \A id \in ToSet(pass'.batch) \cap DOMAIN tasks' : tasks'[id].runIn > 0
<1> USE DEF IInv
<1>1. PICK selected \in Selections :
        /\ tasks' = AfterPass(ToSet(selected))
        /\ pass' = IF selected = << >> THEN Resting
                   ELSE [pc |-> "manifest", batch |-> selected]
  BY DEF Alarm
<1>2. /\ alarm' = Earliest(tasks') /\ retry' = FALSE
      /\ UNCHANGED <<cap, highest, call>>
  BY DEF Alarm
<1>3. selected \in Seq(Ids) /\ ToSet(selected) \subseteq Due
  BY SelectionsType, SchedulerAssumption DEF TypeOK, StateIsConsistent
<1>4. /\ Pending' \subseteq Pending
      /\ tasks' \in [Pending' -> [runIn : Int, every : Interval]]
      /\ \A id \in Pending' : tasks'[id].runIn >= -MaxLate
      /\ \A id \in ToSet(selected) \cap Pending' :
           tasks'[id].runIn > 0 /\ tasks'[id].every # None
  <2>1. TypeOK /\ StateIsConsistent /\ ToSet(selected) \in SUBSET Due
    BY <1>3
  <2> QED BY <1>1, <2>1, AfterPassTable DEF Pending
<1>5. InPass' \subseteq ToSet(selected)
  <2>1. CASE selected = << >>
    <3>1. pass'.batch = selected
      BY <1>1, <2>1 DEF Resting
    <3> QED BY <3>1 DEF InPass
  <2>2. CASE selected # << >>
    BY <1>1, <2>2 DEF InPass
  <2> QED BY <2>1, <2>2
<1>6. TypeOK'
  <2>1. pass' \in [pc : {"idle", "manifest", "run"}, batch : Seq(Ids)]
    BY <1>1, <1>3 DEF Resting
  <2>2. alarm' \in Int \cup {None}
    <3>1. /\ DOMAIN tasks' \subseteq Ids
          /\ \A id \in DOMAIN tasks' : tasks'[id].runIn \in Int /\ tasks'[id].runIn >= -MaxLate
      BY <1>4 DEF TypeOK, Pending
    <3> QED BY <1>2, <3>1, ArmedType
  <2> QED BY <1>2, <1>4, <2>1, <2>2 DEF TypeOK
<1>7. /\ IsFiniteSet(Pending')
      /\ Cardinality(Pending') <= Cardinality(Pending)
      /\ Cardinality(Pending) \in Nat /\ Cardinality(Pending') \in Nat
  BY <1>4, FS_Subset, FS_CardinalityType DEF StateIsConsistent
<1>8. StateIsConsistent'
  <2>1. pass'.pc # "idle" => pass'.batch # << >>
    BY <1>1 DEF Resting
  <2> QED BY <1>2, <1>4, <1>7, <2>1 DEF StateIsConsistent
<1>9. AlarmIsEarliest'
  BY <1>2 DEF AlarmIsEarliest
<1>10. PendingWithinCap'
  BY <1>2, <1>7, SchedulerAssumption DEF PendingWithinCap, TypeOK
<1>11. OneShotsRunOnce'
  BY <1>4, <1>5 DEF OneShotsRunOnce
<1> QED BY <1>4, <1>5, <1>6, <1>8, <1>9, <1>10, <1>11 DEF InPass, Pending

\* Everything comes a unit closer, the alarm with the earliest task.
LEMMA TickStep ==
  ASSUME IInv, Tick
  PROVE  IInv'
<1> USE DEF IInv
<1>1. /\ \A id \in Pending : tasks[id].runIn > -MaxLate
      /\ \A c \in Calls : call[c].runIn > -MaxLate
      /\ tasks' = [id \in Pending |-> [tasks[id] EXCEPT !.runIn = @ - 1]]
      /\ alarm' = IF alarm = None THEN None ELSE alarm - 1
      /\ call' = [c \in Calls |-> IF call[c] = Idle THEN Idle
                                  ELSE [call[c] EXCEPT !.runIn = @ - 1]]
      /\ UNCHANGED <<retry, pass, cap, highest>>
  BY DEF Tick
<1>2. /\ Pending' = Pending
      /\ \A id \in Pending : /\ tasks'[id] \in [runIn : Int, every : Interval]
                              /\ tasks'[id].runIn = tasks[id].runIn - 1
                              /\ tasks'[id].every = tasks[id].every
                              /\ tasks[id].runIn \in Int
                              /\ tasks'[id].runIn >= -MaxLate
  <2>1. /\ Pending' = Pending
        /\ \A id \in Pending : tasks'[id] = [tasks[id] EXCEPT !.runIn = @ - 1]
    BY <1>1 DEF Pending
  <2>2. /\ tasks \in [Pending -> [runIn : Int, every : Interval]]
        /\ MaxLate \in Nat
    BY SchedulerAssumption DEF TypeOK
  <2> SUFFICES ASSUME NEW id \in Pending
               PROVE  /\ tasks'[id] \in [runIn : Int, every : Interval]
                      /\ tasks'[id].runIn = tasks[id].runIn - 1
                      /\ tasks'[id].every = tasks[id].every
                      /\ tasks[id].runIn \in Int
                      /\ tasks'[id].runIn >= -MaxLate
    BY <2>1
  <2>3. tasks[id] \in [runIn : Int, every : Interval] /\ tasks[id].runIn > -MaxLate
    BY <1>1, <2>2
  <2>4. tasks'[id] = [tasks[id] EXCEPT !.runIn = @ - 1]
    BY <2>1
  <2> QED BY <2>2, <2>3, <2>4
<1>3. \A c \in Calls :
        /\ call'[c] \in [pc : {"idle", "limit", "schedule"}, runIn : Int,
                         every : Interval, limit : Caps \cup {0}]
        /\ call'[c].pc = call[c].pc /\ call'[c].limit = call[c].limit
        /\ call'[c].runIn >= -MaxLate
  <2> TAKE c \in Calls
  <2>1. CASE call[c] = Idle
    BY <1>1, <2>1, SchedulerAssumption DEF TypeOK, Idle, Request
  <2>2. CASE call[c] # Idle
    <3>1. call'[c] = [call[c] EXCEPT !.runIn = @ - 1]
      BY <1>1, <2>2
    <3>2. /\ call[c] \in [pc : {"idle", "limit", "schedule"}, runIn : Int,
                          every : Interval, limit : Caps \cup {0}]
          /\ call[c].runIn > -MaxLate
      BY <1>1 DEF TypeOK
    <3> QED BY <3>1, <3>2, SchedulerAssumption
  <2> QED BY <2>1, <2>2
<1>4. Earliest(tasks') = IF Pending = {} THEN None ELSE Earliest(tasks) - 1
  <2>1. /\ DOMAIN tasks' = DOMAIN tasks /\ -MaxLate \in Int
        /\ \A id \in DOMAIN tasks : /\ tasks[id].runIn \in Int /\ -MaxLate <= tasks[id].runIn
                                    /\ tasks'[id].runIn = tasks[id].runIn - 1
    BY <1>1, <1>2, SchedulerAssumption DEF Pending
  <2> QED BY <2>1, EarliestTicks DEF Pending
<1>5. Pending = {} <=> alarm = None
  <2>1. CASE Pending = {}
    BY <2>1 DEF AlarmIsEarliest, Earliest, Pending
  <2>2. CASE Pending # {}
    <3>0. -MaxLate \in Int
      BY SchedulerAssumption
    <3>1. /\ DOMAIN tasks # {}
          /\ \A id \in DOMAIN tasks : tasks[id].runIn \in Int /\ -MaxLate <= tasks[id].runIn
      BY <1>2, <2>2, <3>0 DEF StateIsConsistent, Pending
    <3>2. Earliest(tasks) \in Int
      BY <3>0, <3>1, EarliestIsLeast
    <3> QED BY <2>2, <3>2, SchedulerAssumption DEF AlarmIsEarliest
  <2> QED BY <2>1, <2>2
<1>6. AlarmIsEarliest'
  BY <1>1, <1>4, <1>5 DEF AlarmIsEarliest
<1>7. TypeOK'
  <2>1. tasks' \in [Pending -> [runIn : Int, every : Interval]]
    BY <1>1, <1>2
  <2>2. call' \in [Calls -> [pc : {"idle", "limit", "schedule"}, runIn : Int,
                            every : Interval, limit : Caps \cup {0}]]
    BY <1>1, <1>3
  <2> QED BY <1>1, <1>2, <2>1, <2>2 DEF TypeOK
<1>8. StateIsConsistent'
  BY <1>1, <1>2, <1>3 DEF StateIsConsistent
<1>9. PendingWithinCap' /\ OneShotsRunOnce'
  BY <1>1, <1>2 DEF PendingWithinCap, OneShotsRunOnce, InPass
<1> QED BY <1>6, <1>7, <1>8, <1>9

LEMMA NextIInv == IInv /\ [Next]_vars => IInv'
<1> SUFFICES ASSUME IInv, [Next]_vars
             PROVE  IInv'
  OBVIOUS
<1>1. ASSUME NEW c \in Calls, NEW delay \in Delays, NEW recurring \in BOOLEAN,
             Ask(c, delay, recurring)
      PROVE  IInv'
  <2> DEFINE runIn == AtLeast(1, delay)
             every == IF recurring THEN runIn ELSE None
  <2>1. runIn \in Nat \ {0} /\ every \in Interval
    BY SchedulerAssumption DEF AtLeast, Interval
  <2>2. /\ call' = [call EXCEPT ![c] = Request("limit", runIn, every, 0)]
        /\ UNCHANGED <<tasks, alarm, retry, pass, cap, highest>>
    BY <1>1 DEF Ask
  <2> HIDE DEF runIn, every
  <2>3. runIn >= -MaxLate
    BY <2>1, SchedulerAssumption
  <2>4. call' \in [Calls -> [pc : {"idle", "limit", "schedule"}, runIn : Int,
                            every : Interval, limit : Caps \cup {0}]]
    BY <2>1, <2>2 DEF IInv, TypeOK, Request
  <2>5. \A d \in Calls :
          /\ call'[d].runIn >= -MaxLate
          /\ call'[d].pc = "schedule" => call'[d].limit \in Caps /\ call'[d].limit <= highest
    BY <2>2, <2>3 DEF IInv, TypeOK, StateIsConsistent, Request
  <2> QED BY <2>2, <2>4, <2>5 DEF IInv, TypeOK, StateIsConsistent, AlarmIsEarliest,
            PendingWithinCap, OneShotsRunOnce, Pending, InPass
<1>2. ASSUME NEW c \in Calls, LimitRead(c)
      PROVE  IInv'
  BY <1>2 DEF LimitRead, IInv, TypeOK, StateIsConsistent, AlarmIsEarliest,
    PendingWithinCap, OneShotsRunOnce, Pending, InPass
<1>3. ASSUME NEW c \in Calls, ScheduleTask(c)
      PROVE  IInv'
  BY <1>3, ScheduleTaskStep
<1>4. ASSUME NEW id \in Ids, CancelTask(id)
      PROVE  IInv'
  BY <1>4, CancelTaskStep
<1>5. CASE Alarm
  BY <1>5, AlarmStep
<1>6. CASE ManifestLoaded \/ ManifestFailed \/ RunTask \/ Restart \/ UNCHANGED vars
  \* The pass runs out, or is given up; the table and the alarm stay.
  <2>1. /\ UNCHANGED <<tasks, alarm, cap, highest>>
        /\ call' = call \/ call' = [c \in Calls |-> Idle]
        /\ retry' \in BOOLEAN
    BY <1>6 DEF ManifestLoaded, ManifestFailed, RunTask, Restart, vars, IInv, TypeOK
  <2>2. /\ pass' \in [pc : {"idle", "manifest", "run"}, batch : Seq(Ids)]
        /\ InPass' \subseteq InPass
        /\ pass'.pc # "idle" => pass'.batch # << >>
    <3>1. CASE pass'.batch = pass.batch /\ (ManifestLoaded \/ UNCHANGED vars)
      BY <3>1 DEF ManifestLoaded, vars, IInv, TypeOK, StateIsConsistent, InPass
    <3>2. CASE pass' = Resting
      BY <3>2 DEF Resting, InPass, ToSet
    <3>3. CASE RunTask /\ pass' # Resting
      <4>1. /\ pass' = [pass EXCEPT !.batch = Tail(@)] /\ pass.pc = "run"
            /\ Len(pass.batch) # 1
        BY <3>3 DEF RunTask
      <4>2. pass.batch \in Seq(Ids) /\ pass.batch # << >>
        BY <4>1 DEF IInv, TypeOK, StateIsConsistent
      <4>3. /\ Tail(pass.batch) \in Seq(Ids) /\ Tail(pass.batch) # << >>
            /\ ToSet(Tail(pass.batch)) \subseteq ToSet(pass.batch)
        BY <4>1, <4>2, TailKeepsElements
      <4> QED BY <4>1, <4>3 DEF IInv, TypeOK, InPass
    <3>4. /\ ManifestLoaded => pass'.batch = pass.batch
          /\ UNCHANGED vars => pass'.batch = pass.batch
          /\ ManifestFailed \/ Restart => pass' = Resting
      BY DEF ManifestLoaded, ManifestFailed, Restart, vars, IInv, TypeOK
    <3> QED BY <1>6, <3>1, <3>2, <3>3, <3>4
  <2>3. /\ call' \in [Calls -> [pc : {"idle", "limit", "schedule"}, runIn : Int,
                               every : Interval, limit : Caps \cup {0}]]
        /\ \A c \in Calls :
             /\ call'[c].runIn >= -MaxLate
             /\ call'[c].pc = "schedule" => call'[c].limit \in Caps /\ call'[c].limit <= highest
    BY <2>1, SchedulerAssumption
      DEF IInv, TypeOK, StateIsConsistent, Idle, Request, Interval
  <2> QED BY <2>1, <2>2, <2>3 DEF IInv, TypeOK, StateIsConsistent, AlarmIsEarliest,
            PendingWithinCap, OneShotsRunOnce, Pending
<1>7. CASE Tick
  BY <1>7, TickStep
<1>8. ASSUME NEW n \in Caps, SetLimit(n)
      PROVE  IInv'
  <2>1. /\ cap' = n /\ highest' = AtLeast(highest, n)
        /\ UNCHANGED <<tasks, alarm, retry, pass, call>>
    BY <1>8 DEF SetLimit
  <2>2. IInv /\ n \in Nat /\ highest \in Caps /\ highest \in Nat
    BY SchedulerAssumption DEF IInv, TypeOK
  <2>3. highest' \in Caps /\ highest <= highest' /\ cap' <= highest'
    BY <2>1, <2>2 DEF AtLeast
  <2>4. TypeOK'
    BY <2>1, <2>2, <2>3 DEF IInv, TypeOK, Pending
  <2>5. StateIsConsistent'
    <3>1. highest' \in Nat
      BY <2>3, SchedulerAssumption
    <3>2. \A c \in Calls : call[c].pc = "schedule" => call[c].limit <= highest'
      <4> SUFFICES ASSUME NEW c \in Calls, call[c].pc = "schedule"
                   PROVE  call[c].limit <= highest'
        OBVIOUS
      <4>1. call[c].limit \in Nat /\ call[c].limit <= highest
        BY SchedulerAssumption DEF IInv, StateIsConsistent
      <4> QED BY <2>2, <2>3, <3>1, <4>1
    <3> QED BY <2>1, <2>2, <2>3, <3>2 DEF IInv, StateIsConsistent, Pending
  <2>6. PendingWithinCap'
    <3>1. Cardinality(Pending) \in Nat /\ Cardinality(Pending) <= highest
      BY FS_CardinalityType DEF IInv, StateIsConsistent, PendingWithinCap
    <3>2. highest' \in Nat
      BY <2>3, SchedulerAssumption
    <3> QED BY <2>1, <2>2, <2>3, <3>1, <3>2 DEF PendingWithinCap, Pending
  <2> QED BY <2>1, <2>2, <2>4, <2>5, <2>6
          DEF IInv, AlarmIsEarliest, OneShotsRunOnce, Pending, InPass
<1> QED BY <1>1, <1>2, <1>3, <1>4, <1>5, <1>6, <1>7, <1>8 DEF Next

-----------------------------------------------------------------------------
(* The theorems.                                                           *)

\* The inductive invariant holds in every reachable state.
THEOREM Invariance == Spec => []IInv
<1>1. Init => IInv
  BY InitIInv
<1>2. IInv /\ [Next]_vars => IInv'
  BY NextIInv
<1> QED BY <1>1, <1>2, PTL DEF Spec

\* The table, the alarm, the pass and the calls always have their types.
THEOREM TypeCorrect == Spec => []TypeOK
BY Invariance, PTL DEF IInv

\* The one alarm of the object is armed to its earliest task in every state,
\* whatever was inserted, cancelled, run or cut off (#arm).
THEOREM AlarmIsAlwaysEarliest == Spec => []AlarmIsEarliest
BY Invariance, PTL DEF IInv

\* No interleaving of concurrent schedules and limit changes leaves more tasks
\* than the highest limit this room has had so far, whatever limits others have
\* (scheduleTask).
THEOREM LimitHolds == Spec => []PendingWithinCap
BY Invariance, PTL DEF IInv

\* A one-shot about to run is in the table no more, so that no second pass can
\* run it again, through any restart (alarm).
THEOREM OneShotsRunAtMostOnce == Spec => []OneShotsRunOnce
BY Invariance, PTL DEF IInv

\* A task that a pass takes is gone, or is due again in the future only: a pass
\* is never followed by another for the same slot (alarm).
THEOREM PassesTakeTasksOnce == Spec => TakenTasksAreNotDue
<1> DEFINE Taken == pass = Resting /\ pass' # Resting
                      => \A id \in ToSet(pass'.batch) \cap DOMAIN tasks' : tasks'[id].runIn > 0
<1>1. IInv /\ [Next]_vars => [Taken]_vars
  <2> SUFFICES ASSUME IInv, Next, pass = Resting, pass' # Resting
               PROVE  \A id \in ToSet(pass'.batch) \cap DOMAIN tasks' : tasks'[id].runIn > 0
    OBVIOUS
  <2>1. Alarm
    BY DEF Next, Ask, LimitRead, ScheduleTask, CancelTask, ManifestLoaded, ManifestFailed,
      RunTask, Tick, SetLimit, Restart, Resting
  <2> QED BY <2>1, AlarmStep
<1>2. Spec => []IInv /\ [][Next]_vars
  BY Invariance, PTL DEF Spec
<1> QED BY <1>1, <1>2, PTL DEF TakenTasksAreNotDue

=============================================================================
