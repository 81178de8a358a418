------------------------ MODULE WorkLifecycle_proofs ------------------------
(***************************************************************************)
(* Proofs about WorkLifecycle, for every set of tasks, triggers, interval  *)
(* and bound, and every finite supply of run ids.                          *)
(***************************************************************************)
EXTENDS WorkLifecycle, FiniteSetTheorems, TLAPS

-----------------------------------------------------------------------------
(* The rows: types and references.                                         *)

\* The columns of the rows and the references between them: the invariant every
\* other proof starts from.
Typed == TypeOK /\ RowsRelated

\* The counter moveWorkRun writes is a number.
LEMMA RunCountType ==
  ASSUME TypeOK, NEW t \in Tasks
  PROVE  RunCount(t) \in Nat
<1>1. IsFiniteSet(RunsOf(t))
  BY FS_Subset, RunIdsAssumption DEF RunsOf
<1>2. Cardinality(RunsOf(t)) \in Nat
  BY <1>1, FS_CardinalityType
<1>3. schedules[t].runCount \in Nat
  BY DEF TypeOK, ScheduleRows
<1>4. QED
  BY <1>2, <1>3 DEF RunCount

\* A row createWorkRun inserts for an existing task is a row of work_runs.
LEMMA QueuedRunType ==
  ASSUME TypeOK, NEW t \in Tasks, NEW g \in {"immediate", "schedule", "recurrence", "retry"},
         NEW at \in Nat \cup {None}
  PROVE  /\ QueuedRun(t, g, at) \in RunRows
         /\ QueuedRun(t, g, at).task = t
         /\ QueuedRun(t, g, at).status = "queued"
         /\ QueuedRun(t, g, at).triggeredBy = g
         /\ QueuedRun(t, g, at).scheduledFor = at
  BY DEF QueuedRun, RunRows, TypeOK, TaskRows, ActiveRun

\* The row of a retry is a queued run of the same task.
LEMMA RetriedRunType ==
  ASSUME TypeOK, NEW r \in RunIds, runs[r].task \in Tasks
  PROVE  /\ RetriedRun(r) \in RunRows
         /\ RetriedRun(r).task = runs[r].task
         /\ RetriedRun(r).status = "queued"
         /\ RetriedRun(r).triggeredBy = "retry"
<1>1. runs[r].scheduledFor \in Nat \cup {None}
  BY DEF TypeOK, RunRows
<1>2. tasks[runs[r].task].revision \in Nat
  BY DEF TypeOK, TaskRows
<1>3. QED
  BY <1>1, <1>2 DEF RetriedRun, QueuedRun, RunRows, ActiveRun

\* What firing does to the row of an enabled schedule that is due.
LEMMA FiredScheduleType ==
  ASSUME TypeOK, NEW t \in Tasks, IsDue(t)
  PROVE  /\ FiredSchedule(schedules[t]) \in ScheduleRows
         /\ FiredSchedule(schedules[t]).status \in {"enabled", "completed"}
         /\ FiredSchedule(schedules[t]).kind = schedules[t].kind
         /\ FiredSchedule(schedules[t]).maxRuns = schedules[t].maxRuns
         /\ FiredSchedule(schedules[t]).runCount = schedules[t].runCount + 1
         /\ FiredSchedule(schedules[t]).status = "enabled" =>
              /\ schedules[t].kind # "scheduled_once"
              /\ FiredSchedule(schedules[t]).nextRunAt = schedules[t].nextRunAt + Interval
              /\ schedules[t].maxRuns # None => schedules[t].runCount + 1 < schedules[t].maxRuns
<1> DEFINE s == schedules[t]
<1>1. s \in ScheduleRows /\ s.status = "enabled" /\ s.nextRunAt \in Nat /\ s.runCount \in Nat
  BY DEF TypeOK, IsDue, ScheduleRows
<1>2. s.nextRunAt + Interval \in Nat
  BY <1>1, IntervalAssumption
<1> DEFINE c == [s EXCEPT !.runCount = @ + 1]
<1>3. Counted(s) = c
  BY <1>1 DEF Counted
<1>4. /\ c \in ScheduleRows /\ c.status = "enabled" /\ c.kind = s.kind
      /\ c.maxRuns = s.maxRuns /\ c.runCount = s.runCount + 1 /\ c.nextRunAt = s.nextRunAt
  BY <1>1 DEF ScheduleRows
<1> HIDE DEF s, c
<1> DEFINE spent == s.kind = "scheduled_once" \/ (s.maxRuns # None /\ c.runCount >= s.maxRuns)
<1>5. FiredSchedule(s) = IF spent THEN [c EXCEPT !.status = "completed", !.nextRunAt = None]
                                  ELSE [c EXCEPT !.nextRunAt = @ + Interval]
  BY <1>3 DEF FiredSchedule
<1>6. CASE spent
  BY <1>1, <1>4, <1>5, <1>6 DEF ScheduleRows, s
<1>7. CASE ~spent
  <2>1. s.maxRuns # None => s.maxRuns \in Nat
    BY <1>1 DEF ScheduleRows
  <2>2. QED
    BY <1>1, <1>2, <1>4, <1>5, <1>7, <2>1 DEF ScheduleRows, LiveSchedule, s
<1>8. QED
  BY <1>6, <1>7

\* The empty tables are well typed.
LEMMA TypedInit == Init => Typed
<1> SUFFICES ASSUME Init PROVE TypeOK /\ RowsRelated
  BY DEF Typed
<1>1. /\ NoTask \in TaskRows /\ NoTask.status = "absent"
      /\ NoSchedule \in ScheduleRows /\ NoSchedule.status = "absent"
      /\ NoRun \in RunRows /\ NoRun.status = "absent" /\ NoRun.triggeredBy = None
  BY DEF NoTask, NoSchedule, NoRun, TaskRows, ScheduleRows, RunRows, Kinds
<1>2. TypeOK
  BY <1>1, BoundsAssumption DEF Init, TypeOK
<1>3. RowsRelated
  BY <1>1, NoneAssumption DEF Init, RowsRelated, HasSchedule
<1>4. QED
  BY <1>2, <1>3

\* The steps that write one row of each table at most.  A step gives every
\* table a new row for one key and keeps the others.
LEMMA TypedStep == Typed /\ [Next]_vars => Typed'
<1> SUFFICES ASSUME TypeOK, RowsRelated, [Next]_vars PROVE TypeOK' /\ RowsRelated'
  BY DEF Typed
<1>a. \A t \in Tasks : tasks[t] \in TaskRows /\ schedules[t] \in ScheduleRows
  BY DEF TypeOK
<1>b. \A r \in RunIds : runs[r] \in RunRows
  BY DEF TypeOK
<1>1. ASSUME NEW t \in Tasks, NEW g \in Triggers, NEW r \in RunIds, CreateImmediateWork(t, g, r)
      PROVE  TypeOK' /\ RowsRelated'
  <2> DEFINE task == [NoTask EXCEPT !.status = "active", !.revision = 1]
             run == [QueuedRun(t, "immediate", None) EXCEPT !.revision = 1]
  <2>1. task \in TaskRows /\ task.status = "active"
    BY DEF TaskRows, NoTask
  <2>2. /\ run \in RunRows /\ run.task = t /\ run.triggeredBy = "immediate"
    BY QueuedRunType DEF RunRows
  <2> HIDE DEF task, run
  <2>3. /\ tasks' = [tasks EXCEPT ![t] = task] /\ runs' = [runs EXCEPT ![r] = run]
        /\ schedules' = schedules /\ now' = now
    BY <1>1 DEF CreateImmediateWork, task, run
  <2>4. TypeOK'
    BY <2>1, <2>2, <2>3 DEF TypeOK
  <2>5. RowsRelated'
    BY <2>1, <2>2, <2>3 DEF TypeOK, RowsRelated, HasSchedule
  <2>6. QED
    BY <2>4, <2>5
<1>2. ASSUME NEW t \in Tasks, NEW g \in Triggers, NEW at \in 0 .. MaxTime,
             CreateScheduledWork(t, g, at)
      PROVE  TypeOK' /\ RowsRelated'
  <2> DEFINE task == [NoTask EXCEPT !.status = "active", !.revision = 1]
             schedule == [status |-> "enabled", kind |-> g.kind, nextRunAt |-> at,
                          runCount |-> 0, maxRuns |-> g.maxRuns]
  <2>1. task \in TaskRows /\ task.status = "active"
    BY DEF TaskRows, NoTask
  <2>2. schedule \in ScheduleRows /\ schedule.kind # "immediate"
    <3>1. g.kind \in Kinds /\ g.maxRuns \in (Nat \ {0}) \cup {None}
      BY TriggersAssumption
    <3>2. at \in Nat
      BY BoundsAssumption
    <3>3. QED
      BY <1>2, <3>1, <3>2 DEF ScheduleRows, LiveSchedule, CreateScheduledWork
  <2> HIDE DEF task, schedule
  <2>3. /\ tasks' = [tasks EXCEPT ![t] = task]
        /\ schedules' = [schedules EXCEPT ![t] = schedule]
        /\ runs' = runs /\ now' = now
    BY <1>2 DEF CreateScheduledWork, task, schedule
  <2>4. TypeOK'
    BY <2>1, <2>2, <2>3 DEF TypeOK
  <2>5. RowsRelated'
    BY <2>1, <2>2, <2>3 DEF TypeOK, RowsRelated, HasSchedule
  <2>6. QED
    BY <2>4, <2>5
<1>3. ASSUME NEW t \in Tasks, NEW r \in RunIds, CreateDueWorkRun(t, r)
      PROVE  TypeOK' /\ RowsRelated'
  <2>1. /\ FiredRun(t) \in RunRows /\ FiredRun(t).task = t
        /\ FiredRun(t).scheduledFor # None
    <3>1. schedules[t].nextRunAt \in Nat
      BY <1>3, <1>a DEF CreateDueWorkRun, IsDue, ScheduleRows
    <3>2. QED
      BY <3>1, QueuedRunType, NoneAssumption DEF FiredRun
  <2>2. /\ FiredSchedule(schedules[t]) \in ScheduleRows
        /\ FiredSchedule(schedules[t]).kind = schedules[t].kind
    BY <1>3, FiredScheduleType DEF CreateDueWorkRun
  <2>3. /\ schedules' = [schedules EXCEPT ![t] = FiredSchedule(schedules[t])]
        /\ runs' = [runs EXCEPT ![r] = FiredRun(t)]
        /\ tasks' = tasks /\ now' = now /\ schedules[t].status = "enabled"
    BY <1>3 DEF CreateDueWorkRun, IsDue
  <2>4. TypeOK'
    BY <2>1, <2>2, <2>3 DEF TypeOK
  <2>5. RowsRelated'
    BY <2>1, <2>2, <2>3 DEF TypeOK, RowsRelated, HasSchedule
  <2>6. QED
    BY <2>4, <2>5
<1>4. ASSUME NEW r \in RunIds, NEW new \in RunIds, RetryWorkRun(r, new)
      PROVE  TypeOK' /\ RowsRelated'
  <2> DEFINE t == runs[r].task
  <2>1. t \in Tasks /\ tasks[t].status = "active"
    BY <1>4 DEF RetryWorkRun, MayRetry, RowsRelated
  <2>2. /\ RetriedRun(r) \in RunRows /\ RetriedRun(r).task = t
        /\ RetriedRun(r).triggeredBy = "retry"
    BY <2>1, RetriedRunType
  <2>3. /\ Counted(schedules[t]) \in ScheduleRows
        /\ Counted(schedules[t]).status = schedules[t].status
        /\ Counted(schedules[t]).kind = schedules[t].kind
    BY <2>1, <1>a DEF Counted, ScheduleRows
  <2>4. /\ schedules' = [schedules EXCEPT ![t] = Counted(schedules[t])]
        /\ runs' = [runs EXCEPT ![new] = RetriedRun(r)]
        /\ tasks' = tasks /\ now' = now
    BY <1>4 DEF RetryWorkRun
  <2> HIDE DEF t
  <2>5. TypeOK'
    BY <2>1, <2>2, <2>3, <2>4 DEF TypeOK
  <2>6. RowsRelated'
    BY <2>1, <2>2, <2>3, <2>4 DEF TypeOK, RowsRelated, HasSchedule
  <2>7. QED
    BY <2>5, <2>6
<1>5. ASSUME NEW t \in Tasks, NEW src \in RunIds \cup {None}, ReviseWorkTask(t, src)
      PROVE  TypeOK' /\ RowsRelated'
  <2> DEFINE task == [tasks[t] EXCEPT !.revision = @ + 1]
  <2>1. task \in TaskRows /\ task.status = tasks[t].status /\ task.archivedFrom = tasks[t].archivedFrom
    BY <1>a DEF TaskRows
  <2>2. /\ tasks' = [tasks EXCEPT ![t] = task]
        /\ schedules' = schedules /\ now' = now
    BY <1>5 DEF ReviseWorkTask
  <2>3. /\ runs' \in [RunIds -> RunRows]
        /\ \A r \in RunIds : /\ runs'[r].status = runs[r].status
                             /\ runs'[r].task = runs[r].task
                             /\ runs'[r].triggeredBy = runs[r].triggeredBy
                             /\ runs'[r].scheduledFor = runs[r].scheduledFor
    <3>1. CASE src = None
      BY <1>5, <3>1 DEF ReviseWorkTask, TypeOK
    <3>2. CASE src # None
      <4>1. src \in RunIds
        BY <3>2
      <4> DEFINE run == [runs[src] EXCEPT !.revision = tasks[t].revision + 1]
      <4>2. tasks[t].revision + 1 \in Nat
        BY <1>a DEF TaskRows
      <4>3. /\ run \in RunRows /\ run.status = runs[src].status /\ run.task = runs[src].task
            /\ run.triggeredBy = runs[src].triggeredBy
            /\ run.scheduledFor = runs[src].scheduledFor
        BY <4>1, <4>2, <1>b DEF RunRows
      <4>4. runs' = [runs EXCEPT ![src] = run]
        BY <1>5, <3>2 DEF ReviseWorkTask
      <4> HIDE DEF run
      <4>5. QED
        BY <4>1, <4>3, <4>4 DEF TypeOK
    <3>3. QED
      BY <3>1, <3>2
  <2> HIDE DEF task
  <2>4. TypeOK'
    BY <2>1, <2>2, <2>3 DEF TypeOK
  <2>5. RowsRelated'
    BY <2>1, <2>2, <2>3 DEF TypeOK, RowsRelated, HasSchedule
  <2>6. QED
    BY <2>4, <2>5
<1>6. ASSUME NEW t \in Tasks, NEW to \in {"paused", "enabled"}, MoveWorkSchedule(t, to)
      PROVE  TypeOK' /\ RowsRelated'
  <2> DEFINE schedule == [schedules[t] EXCEPT !.status = to]
  <2>1. /\ schedule \in ScheduleRows /\ schedule.kind = schedules[t].kind
        /\ schedules[t].status # "absent"
    BY <1>6, <1>a DEF ScheduleRows, LiveSchedule, MoveWorkSchedule, ScheduleTransitions
  <2>2. /\ schedules' = [schedules EXCEPT ![t] = schedule]
        /\ tasks' = [tasks EXCEPT ![t] = tasks[t]] /\ runs' = runs /\ now' = now
    BY <1>6 DEF MoveWorkSchedule, TaskAfterScheduleMove
  <2> HIDE DEF schedule
  <2>3. tasks' = tasks
    BY <2>2 DEF TypeOK
  <2>4. TypeOK'
    BY <2>1, <2>2, <2>3 DEF TypeOK
  <2>5. RowsRelated'
    BY <2>1, <2>2, <2>3 DEF TypeOK, RowsRelated, HasSchedule
  <2>6. QED
    BY <2>4, <2>5
<1>7. ASSUME NEW t \in Tasks, CancelWorkTask(t)
      PROVE  TypeOK' /\ RowsRelated'
  <2> DEFINE task == [tasks[t] EXCEPT !.status = "canceled"]
  <2>1. task \in TaskRows /\ task.status = "canceled" /\ tasks[t].status # "absent"
    BY <1>7, <1>a DEF TaskRows, ClosedTask, CancelWorkTask, MayCancel
  <2>2. /\ CanceledSchedule(schedules[t]) \in ScheduleRows
        /\ CanceledSchedule(schedules[t]).status # "absent" => schedules[t].status # "absent"
        /\ CanceledSchedule(schedules[t]).kind = schedules[t].kind
    BY <1>a DEF CanceledSchedule, ScheduleRows, LiveSchedule
  <2>3. /\ tasks' = [tasks EXCEPT ![t] = task] /\ now' = now
        /\ schedules' = [schedules EXCEPT ![t] = CanceledSchedule(schedules[t])]
    BY <1>7 DEF CancelWorkTask
  <2> HIDE DEF task
  <2>4. runs' \in [RunIds -> RunRows]
    <3>1. \A r \in RunIds : [runs[r] EXCEPT !.status = "canceled"] \in RunRows
      BY <1>b DEF RunRows, TerminalRun
    <3>2. QED
      BY <3>1, <1>7, <1>b DEF CancelWorkTask
  <2>5. \A r \in RunIds :
          /\ runs'[r].status # "absent" => runs[r].status # "absent"
          /\ runs'[r].task = runs[r].task
          /\ runs'[r].triggeredBy = runs[r].triggeredBy
          /\ runs'[r].scheduledFor = runs[r].scheduledFor
    BY <1>7, <1>b DEF CancelWorkTask, RunRows, ActiveRunsOf, RunsOf
  <2>6. TypeOK'
    BY <2>1, <2>2, <2>3, <2>4 DEF TypeOK
  <2>7. RowsRelated'
    BY <2>1, <2>2, <2>3, <2>5 DEF TypeOK, RowsRelated, HasSchedule
  <2>8. QED
    BY <2>6, <2>7
<1>8. ASSUME NEW t \in Tasks, ArchiveWorkTask(t)
      PROVE  TypeOK' /\ RowsRelated'
  <2> DEFINE task == [tasks[t] EXCEPT !.status = "archived", !.archivedFrom = tasks[t].status]
  <2>1. /\ task \in TaskRows /\ task.status = "archived" /\ task.archivedFrom # None
        /\ tasks[t].status # "absent"
    BY <1>8, <1>a, NoneAssumption DEF TaskRows, ClosedTask, ArchiveWorkTask
  <2>2. /\ tasks' = [tasks EXCEPT ![t] = task]
        /\ schedules' = schedules /\ runs' = runs /\ now' = now
    BY <1>8, <1>a DEF ArchiveWorkTask, TypeOK, TaskRows
  <2> HIDE DEF task
  <2>3. TypeOK'
    BY <2>1, <2>2 DEF TypeOK
  <2>4. RowsRelated'
    BY <2>1, <2>2 DEF TypeOK, RowsRelated, HasSchedule
  <2>5. QED
    BY <2>3, <2>4
<1>9. ASSUME NEW t \in Tasks, RestoreWorkTask(t)
      PROVE  TypeOK' /\ RowsRelated'
  <2> DEFINE task == [tasks[t] EXCEPT !.status = tasks[t].archivedFrom]
  <2>1. task \in TaskRows /\ task.status \in {"completed", "canceled"} /\ tasks[t].status # "absent"
    BY <1>9, <1>a DEF TaskRows, ClosedTask, RestoreWorkTask, RowsRelated
  <2>2. /\ tasks' = [tasks EXCEPT ![t] = task]
        /\ schedules' = schedules /\ runs' = runs /\ now' = now
    BY <1>9 DEF RestoreWorkTask
  <2> HIDE DEF task
  <2>3. TypeOK'
    BY <2>1, <2>2 DEF TypeOK
  <2>4. RowsRelated'
    BY <2>1, <2>2 DEF TypeOK, RowsRelated, HasSchedule
  <2>5. QED
    BY <2>3, <2>4
<1>10. ASSUME NEW r \in RunIds, NEW to \in ActiveRun \cup TerminalRun, MoveWorkRun(r, to)
       PROVE  TypeOK' /\ RowsRelated'
  <2> DEFINE t == runs[r].task
             run == [runs[r] EXCEPT !.status = to]
  <2>1. runs[r].status # "absent" /\ t \in Tasks /\ tasks[t].status # "absent"
    BY <1>10 DEF MoveWorkRun, RunTransitions, RowsRelated
  <2>2. /\ run \in RunRows /\ run.task = runs[r].task /\ run.triggeredBy = runs[r].triggeredBy
        /\ run.scheduledFor = runs[r].scheduledFor
    BY <1>b DEF RunRows
  <2>3. /\ runs' = [runs EXCEPT ![r] = run] /\ now' = now
        /\ \/ /\ tasks' = [tasks EXCEPT ![t] = SettledTask(t, to)]
              /\ schedules' = [schedules EXCEPT ![t] = SettledSchedule(t)]
           \/ UNCHANGED <<tasks, schedules>>
    BY <1>10 DEF MoveWorkRun
  <2>4. /\ SettledTask(t, to) \in TaskRows /\ SettledTask(t, to).status # "absent"
        /\ SettledTask(t, to).status = "archived" => tasks[t].status = "archived"
        /\ SettledTask(t, to).archivedFrom = tasks[t].archivedFrom
    BY <2>1, <1>a DEF SettledTask, TaskStatusAfter, TaskRows, ClosedTask
  <2>5. /\ SettledSchedule(t) \in ScheduleRows
        /\ SettledSchedule(t).status # "absent" => schedules[t].status # "absent"
        /\ SettledSchedule(t).kind = schedules[t].kind
    <3>1. RunCount(t) \in Nat
      BY <2>1, RunCountType
    <3>2. QED
      BY <2>1, <3>1, <1>a DEF SettledSchedule, HasSchedule, ScheduleRows
  <2> HIDE DEF t, run
  <2>6. TypeOK'
    BY <2>1, <2>2, <2>3, <2>4, <2>5 DEF TypeOK
  <2>7. RowsRelated'
    BY <2>1, <2>2, <2>3, <2>4, <2>5 DEF TypeOK, RowsRelated, HasSchedule, t
  <2>8. QED
    BY <2>6, <2>7
<1>11. CASE Tick
  BY <1>11, BoundsAssumption DEF Tick, TypeOK, RowsRelated, HasSchedule
<1>12. CASE UNCHANGED vars
  BY <1>12 DEF vars, TypeOK, RowsRelated, HasSchedule
<1>13. QED
  BY <1>1, <1>2, <1>3, <1>4, <1>5, <1>6, <1>7, <1>8, <1>9, <1>10, <1>11, <1>12 DEF Next

\* Every reachable row has the columns of its table, and every reference between
\* rows leads to a row that exists.
THEOREM TypeCorrect == Spec => []Typed
<1>1. QED
  BY TypedInit, TypedStep, PTL DEF Spec

\* Every reachable row of work_tasks, work_schedules and work_runs has the columns
\* of its table, whatever the sequence of calls.
THEOREM TypeInvariant == Spec => []TypeOK
<1>1. Typed => TypeOK
  BY DEF Typed
<1>2. QED
  BY <1>1, TypeCorrect, PTL

-----------------------------------------------------------------------------
(* Schedules.                                                              *)

\* What a step does to the schedule of a task, whatever the step is.
LEMMA ScheduleAfterMove ==
  ASSUME TypeOK, NEW t \in Tasks, NEW to \in {"paused", "enabled"}, MoveWorkSchedule(t, to)
  PROVE  /\ schedules[t].status \in LiveSchedule
         /\ schedules' = [schedules EXCEPT ![t] = [schedules[t] EXCEPT !.status = to]]
         /\ tasks' = tasks /\ runs' = runs
  BY DEF TypeOK, TaskRows, MoveWorkSchedule, ScheduleTransitions, LiveSchedule, TaskAfterScheduleMove

\* No method leaves a schedule that can fire with a task that is over.
LEMMA LiveScheduleStep ==
  Typed /\ LiveScheduleOfActiveTask /\ [Next]_vars => LiveScheduleOfActiveTask'
<1> SUFFICES ASSUME TypeOK, RowsRelated, LiveScheduleOfActiveTask, [Next]_vars
             PROVE  LiveScheduleOfActiveTask'
  BY DEF Typed
<1>a. \A t \in Tasks : tasks[t] \in TaskRows /\ schedules[t] \in ScheduleRows
  BY DEF TypeOK
<1>1. ASSUME NEW t \in Tasks, NEW g \in Triggers, NEW r \in RunIds, CreateImmediateWork(t, g, r)
      PROVE  LiveScheduleOfActiveTask'
  BY <1>1 DEF CreateImmediateWork, LiveScheduleOfActiveTask, TypeOK, NoTask
<1>2. ASSUME NEW t \in Tasks, NEW g \in Triggers, NEW at \in 0 .. MaxTime,
             CreateScheduledWork(t, g, at)
      PROVE  LiveScheduleOfActiveTask'
  BY <1>2 DEF CreateScheduledWork, LiveScheduleOfActiveTask, TypeOK, NoTask
<1>3. ASSUME NEW t \in Tasks, NEW r \in RunIds, CreateDueWorkRun(t, r)
      PROVE  LiveScheduleOfActiveTask'
  BY <1>3 DEF CreateDueWorkRun, IsDue, LiveScheduleOfActiveTask, LiveSchedule, TypeOK
<1>4. ASSUME NEW r \in RunIds, NEW new \in RunIds, RetryWorkRun(r, new)
      PROVE  LiveScheduleOfActiveTask'
  BY <1>4 DEF RetryWorkRun, MayRetry, LiveScheduleOfActiveTask, TypeOK
<1>5. ASSUME NEW t \in Tasks, NEW src \in RunIds \cup {None}, ReviseWorkTask(t, src)
      PROVE  LiveScheduleOfActiveTask'
  BY <1>5, <1>a DEF ReviseWorkTask, LiveScheduleOfActiveTask, TypeOK, TaskRows
<1>6. ASSUME NEW t \in Tasks, NEW to \in {"paused", "enabled"}, MoveWorkSchedule(t, to)
      PROVE  LiveScheduleOfActiveTask'
  BY <1>6, <1>a, ScheduleAfterMove DEF LiveScheduleOfActiveTask, TypeOK
<1>7. ASSUME NEW t \in Tasks, CancelWorkTask(t)
      PROVE  LiveScheduleOfActiveTask'
  <2>1. CanceledSchedule(schedules[t]).status \notin LiveSchedule
    BY <1>a DEF CanceledSchedule, LiveSchedule, ScheduleRows
  <2>2. QED
    BY <1>7, <2>1 DEF CancelWorkTask, LiveScheduleOfActiveTask, TypeOK
<1>8. ASSUME NEW t \in Tasks, ArchiveWorkTask(t)
      PROVE  LiveScheduleOfActiveTask'
  BY <1>8 DEF ArchiveWorkTask, LiveScheduleOfActiveTask, TypeOK
<1>9. ASSUME NEW t \in Tasks, RestoreWorkTask(t)
      PROVE  LiveScheduleOfActiveTask'
  BY <1>9 DEF RestoreWorkTask, LiveScheduleOfActiveTask, TypeOK
<1>10. ASSUME NEW r \in RunIds, NEW to \in ActiveRun \cup TerminalRun, MoveWorkRun(r, to)
       PROVE  LiveScheduleOfActiveTask'
  <2> DEFINE t == runs[r].task
  <2>1. t \in Tasks
    BY <1>10 DEF MoveWorkRun, RunTransitions, RowsRelated
  <2>2. SettledSchedule(t).status \in LiveSchedule => SettledTask(t, to).status = tasks[t].status
                                                      /\ schedules[t].status \in LiveSchedule
    BY <2>1, <1>a DEF SettledSchedule, SettledTask, HasSchedule, ScheduleRows, LiveSchedule
  <2>3. \/ /\ tasks' = [tasks EXCEPT ![t] = SettledTask(t, to)]
           /\ schedules' = [schedules EXCEPT ![t] = SettledSchedule(t)]
        \/ UNCHANGED <<tasks, schedules>>
    BY <1>10 DEF MoveWorkRun
  <2>4. QED
    BY <2>1, <2>2, <2>3 DEF LiveScheduleOfActiveTask, TypeOK
<1>11. CASE Tick
  BY <1>11 DEF Tick, LiveScheduleOfActiveTask
<1>12. CASE UNCHANGED vars
  BY <1>12 DEF vars, LiveScheduleOfActiveTask
<1>13. QED
  BY <1>1, <1>2, <1>3, <1>4, <1>5, <1>6, <1>7, <1>8, <1>9, <1>10, <1>11, <1>12 DEF Next

\* A schedule that can still fire belongs to an active task, so the scheduler
\* never queues work for a task that is over.
THEOREM SchedulesServeActiveTasks == Spec => []LiveScheduleOfActiveTask
<1>1. Init => LiveScheduleOfActiveTask
  BY DEF Init, LiveScheduleOfActiveTask, LiveSchedule, NoSchedule
<1>2. QED
  BY <1>1, LiveScheduleStep, TypeCorrect, PTL DEF Spec

\* No method leaves a live schedule at a trigger time that already has its run:
\* createDueWorkRun moves nextRunAt on in the step that inserts the run.
LEMMA WillFireStep ==
  Typed /\ LiveScheduleWillFire /\ [Next]_vars => LiveScheduleWillFire'
<1> SUFFICES ASSUME TypeOK, RowsRelated, LiveScheduleWillFire, [Next]_vars
             PROVE  LiveScheduleWillFire'
  BY DEF Typed
<1>a. \A t \in Tasks : tasks[t] \in TaskRows /\ schedules[t] \in ScheduleRows
  BY DEF TypeOK
<1>b. \A r \in RunIds : runs[r] \in RunRows
  BY DEF TypeOK
<1> DEFINE Fires(t) ==
      schedules[t].status \in LiveSchedule =>
        /\ schedules[t].nextRunAt # None
        /\ \A r \in RunIds :
             /\ runs[r].status # "absent" /\ runs[r].task = t
             /\ runs[r].triggeredBy \in {"schedule", "recurrence"}
             => runs[r].scheduledFor < schedules[t].nextRunAt
<1>c. LiveScheduleWillFire <=> \A t \in Tasks : Fires(t)
  BY DEF LiveScheduleWillFire, FiredRuns, RunsOf
<1>d. LiveScheduleWillFire' <=> \A t \in Tasks : Fires(t)'
  BY DEF LiveScheduleWillFire, FiredRuns, RunsOf
<1> SUFFICES ASSUME NEW u \in Tasks PROVE Fires(u)'
  BY <1>d
<1>e. \A t \in Tasks : Fires(t)
  BY <1>c
<1>1. ASSUME NEW t \in Tasks, NEW g \in Triggers, NEW r \in RunIds, CreateImmediateWork(t, g, r)
      PROVE  Fires(u)'
  <2> DEFINE run == [QueuedRun(t, "immediate", None) EXCEPT !.revision = 1]
  <2>1. run.triggeredBy = "immediate"
    BY QueuedRunType DEF RunRows
  <2>2. runs' = [runs EXCEPT ![r] = run] /\ schedules' = schedules
    BY <1>1 DEF CreateImmediateWork
  <2> HIDE DEF run
  <2>3. QED
    BY <1>e, <2>1, <2>2 DEF TypeOK
<1>2. ASSUME NEW t \in Tasks, NEW g \in Triggers, NEW at \in 0 .. MaxTime,
             CreateScheduledWork(t, g, at)
      PROVE  Fires(u)'
  <2>1. \A r \in RunIds : runs[r].status # "absent" => runs[r].task # t
    BY <1>2 DEF CreateScheduledWork, RowsRelated
  <2>2. at # None
    BY NoneAssumption, BoundsAssumption
  <2>3. QED
    BY <1>2, <1>e, <2>1, <2>2 DEF CreateScheduledWork, TypeOK
<1>3. ASSUME NEW t \in Tasks, NEW r \in RunIds, CreateDueWorkRun(t, r)
      PROVE  Fires(u)'
  <2>1. schedules[t].nextRunAt \in Nat
    BY <1>3, <1>a DEF CreateDueWorkRun, IsDue, ScheduleRows
  <2>2. FiredRun(t).task = t /\ FiredRun(t).scheduledFor = schedules[t].nextRunAt
    BY <2>1, QueuedRunType DEF FiredRun
  <2>3. /\ schedules' = [schedules EXCEPT ![t] = FiredSchedule(schedules[t])]
        /\ runs' = [runs EXCEPT ![r] = FiredRun(t)]
        /\ schedules[t].status = "enabled"
    BY <1>3 DEF CreateDueWorkRun, IsDue
  <2>4. FiredSchedule(schedules[t]).status \in LiveSchedule =>
          FiredSchedule(schedules[t]).nextRunAt = schedules[t].nextRunAt + Interval
    BY <1>3, FiredScheduleType DEF CreateDueWorkRun, LiveSchedule
  <2>5. CASE u = t
    <3>1. SUFFICES ASSUME FiredSchedule(schedules[t]).status \in LiveSchedule,
                          NEW q \in RunIds, q # r, runs[q].status # "absent", runs[q].task = t,
                          runs[q].triggeredBy \in {"schedule", "recurrence"}
                   PROVE  runs[q].scheduledFor < schedules[t].nextRunAt + Interval
      BY <2>1, <2>2, <2>3, <2>4, <2>5, IntervalAssumption, NoneAssumption DEF TypeOK
    <3>2. runs[q].scheduledFor < schedules[t].nextRunAt
      BY <1>e, <2>3, <3>1 DEF LiveSchedule
    <3>3. runs[q].scheduledFor \in Nat
      BY <1>b, <3>1 DEF RowsRelated, RunRows
    <3>4. QED
      BY <2>1, <3>2, <3>3, IntervalAssumption
  <2>6. CASE u # t
    BY <1>e, <2>2, <2>3, <2>6 DEF TypeOK
  <2>7. QED
    BY <2>5, <2>6
<1>4. ASSUME NEW r \in RunIds, NEW new \in RunIds, RetryWorkRun(r, new)
      PROVE  Fires(u)'
  <2>1. runs[r].task \in Tasks
    BY <1>4 DEF RetryWorkRun, MayRetry, RowsRelated
  <2>2. RetriedRun(r).triggeredBy = "retry"
    BY <2>1, RetriedRunType
  <2>3. \A t \in Tasks : /\ Counted(schedules[t]).status = schedules[t].status
                         /\ Counted(schedules[t]).nextRunAt = schedules[t].nextRunAt
    BY <1>a DEF Counted, ScheduleRows
  <2>4. QED
    BY <1>4, <1>e, <2>1, <2>2, <2>3 DEF RetryWorkRun, TypeOK
<1>5. ASSUME NEW t \in Tasks, NEW src \in RunIds \cup {None}, ReviseWorkTask(t, src)
      PROVE  Fires(u)'
  <2>1. schedules' = schedules
    BY <1>5 DEF ReviseWorkTask
  <2>2. \A r \in RunIds : /\ runs'[r].status = runs[r].status
                          /\ runs'[r].task = runs[r].task
                          /\ runs'[r].triggeredBy = runs[r].triggeredBy
                          /\ runs'[r].scheduledFor = runs[r].scheduledFor
    BY <1>5, <1>b DEF ReviseWorkTask, TypeOK, RunRows
  <2>3. QED
    BY <1>e, <2>1, <2>2
<1>6. ASSUME NEW t \in Tasks, NEW to \in {"paused", "enabled"}, MoveWorkSchedule(t, to)
      PROVE  Fires(u)'
  BY <1>6, <1>a, <1>e, ScheduleAfterMove DEF TypeOK, ScheduleRows
<1>7. ASSUME NEW t \in Tasks, CancelWorkTask(t)
      PROVE  Fires(u)'
  <2>1. CanceledSchedule(schedules[t]).status \notin LiveSchedule
    BY <1>a DEF CanceledSchedule, LiveSchedule, ScheduleRows
  <2>2. schedules' = [schedules EXCEPT ![t] = CanceledSchedule(schedules[t])]
    BY <1>7 DEF CancelWorkTask
  <2>3. \A r \in RunIds : /\ runs'[r].status # "absent" => runs[r].status # "absent"
                          /\ runs'[r].task = runs[r].task
                          /\ runs'[r].triggeredBy = runs[r].triggeredBy
                          /\ runs'[r].scheduledFor = runs[r].scheduledFor
    BY <1>7, <1>b DEF CancelWorkTask, RunRows, ActiveRunsOf, RunsOf
  <2>4. QED
    BY <1>e, <2>1, <2>2, <2>3 DEF TypeOK
<1>8. ASSUME NEW t \in Tasks, ArchiveWorkTask(t) \/ RestoreWorkTask(t)
      PROVE  Fires(u)'
  BY <1>8, <1>e DEF ArchiveWorkTask, RestoreWorkTask
<1>10. ASSUME NEW r \in RunIds, NEW to \in ActiveRun \cup TerminalRun, MoveWorkRun(r, to)
       PROVE  Fires(u)'
  <2> DEFINE t == runs[r].task
             run == [runs[r] EXCEPT !.status = to]
  <2>1. t \in Tasks /\ runs[r].status # "absent"
    BY <1>10 DEF MoveWorkRun, RunTransitions, RowsRelated
  <2>2. SettledSchedule(t).status \in LiveSchedule =>
          /\ schedules[t].status \in LiveSchedule
          /\ SettledSchedule(t).nextRunAt = schedules[t].nextRunAt
    BY <2>1, <1>a DEF SettledSchedule, HasSchedule, ScheduleRows, LiveSchedule
  <2>3. /\ run.task = t /\ run.triggeredBy = runs[r].triggeredBy
        /\ run.scheduledFor = runs[r].scheduledFor
    BY <1>b DEF RunRows
  <2>4. /\ runs' = [runs EXCEPT ![r] = run]
        /\ \/ schedules' = [schedules EXCEPT ![t] = SettledSchedule(t)]
           \/ schedules' = schedules
    BY <1>10 DEF MoveWorkRun
  <2> HIDE DEF run
  <2>5. QED
    BY <1>e, <2>1, <2>2, <2>3, <2>4 DEF TypeOK
<1>11. CASE Tick
  BY <1>11, <1>e DEF Tick
<1>12. CASE UNCHANGED vars
  BY <1>12, <1>e DEF vars
<1>13. QED
  BY <1>1, <1>2, <1>3, <1>4, <1>5, <1>6, <1>7, <1>8, <1>10, <1>11, <1>12 DEF Next

\* A schedule that is not over has a trigger time later than all it fired for:
\* it never gets stuck on a trigger time that already has its run.
THEOREM SchedulesMoveOn == Spec => []LiveScheduleWillFire
<1>1. Init => LiveScheduleWillFire
  BY DEF Init, LiveScheduleWillFire, LiveSchedule, NoSchedule
<1>2. QED
  BY <1>1, WillFireStep, TypeCorrect, PTL DEF Spec

-----------------------------------------------------------------------------
(* Work that runs once, and what is final.                                 *)

\* Exclusive is inductive: besides OneShotExclusive it says which schedules can
\* still add a run, and that a canceled schedule leaves no run to settle it.
Exclusive == CanceledScheduleIsDone /\ OnceScheduleIsFresh /\ OneShotExclusive

\* No method adds a run beside a live run of one-shot work, or to closed work.
LEMMA ExclusiveStep ==
  Typed /\ LiveScheduleOfActiveTask /\ Exclusive /\ [Next]_vars => Exclusive'
<1> SUFFICES ASSUME TypeOK, RowsRelated, LiveScheduleOfActiveTask, Exclusive, [Next]_vars
             PROVE  Exclusive'
  BY DEF Typed
<1>a. \A t \in Tasks : tasks[t] \in TaskRows /\ schedules[t] \in ScheduleRows
  BY DEF TypeOK
<1>b. \A r \in RunIds : runs[r] \in RunRows
  BY DEF TypeOK
<1> DEFINE Live(r, t) == runs[r].status \in ActiveRun /\ runs[r].task = t
           Idle(t) == \A r \in RunIds : ~Live(r, t)
           Single(t) == \A r, s \in RunIds : Live(r, t) /\ Live(s, t) => r = s
           Fresh(t) == \A r \in RunIds : ~(runs[r].status # "absent" /\ runs[r].task = t)
           Excl(t) ==
             /\ schedules[t].status = "canceled" => tasks[t].status # "active" /\ Idle(t)
             /\ schedules[t].kind = "scheduled_once" /\ schedules[t].status \in LiveSchedule
                  => Fresh(t)
             /\ schedules[t].kind # "recurring" =>
                  Single(t) /\ (tasks[t].status \in ClosedTask => Idle(t))
<1>c. \A t \in Tasks : Excl(t)
  BY DEF Exclusive, CanceledScheduleIsDone, OnceScheduleIsFresh, OneShotExclusive, ActiveRunsOf,
         RunsOf, ActiveRun
<1>d. (\A t \in Tasks : Excl(t)') => Exclusive'
  BY DEF Exclusive, CanceledScheduleIsDone, OnceScheduleIsFresh, OneShotExclusive, ActiveRunsOf,
         RunsOf, ActiveRun
<1>e. \A t \in Tasks : tasks[t].status = "absent" => schedules[t].status = "absent" /\ Fresh(t)
  BY DEF RowsRelated, HasSchedule
<1>f. \A t \in Tasks : schedules[t].status \in LiveSchedule => tasks[t].status = "active"
  BY DEF LiveScheduleOfActiveTask
<1>g. \A r \in RunIds : runs[r].status \in ActiveRun => runs[r].task \in Tasks
  BY DEF RowsRelated, ActiveRun
<1> SUFFICES ASSUME NEW u \in Tasks PROVE Excl(u)'
  BY <1>d
<1>1. ASSUME NEW t \in Tasks, NEW g \in Triggers, NEW r \in RunIds, CreateImmediateWork(t, g, r)
      PROVE  Excl(u)'
  <2> DEFINE run == [QueuedRun(t, "immediate", None) EXCEPT !.revision = 1]
  <2>1. run.task = t /\ run.status = "queued"
    BY QueuedRunType DEF RunRows
  <2>2. /\ runs' = [runs EXCEPT ![r] = run] /\ schedules' = schedules
        /\ tasks' = [tasks EXCEPT ![t] = [NoTask EXCEPT !.status = "active", !.revision = 1]]
        /\ tasks[t].status = "absent"
    BY <1>1 DEF CreateImmediateWork
  <2>3. tasks'[t].status = "active" /\ \A v \in Tasks \ {t} : tasks'[v] = tasks[v]
    BY <2>2 DEF TypeOK, NoTask
  <2> HIDE DEF run
  <2>4. QED
    BY <1>c, <1>e, <2>1, <2>2, <2>3 DEF TypeOK, ActiveRun, ClosedTask, LiveSchedule
<1>2. ASSUME NEW t \in Tasks, NEW g \in Triggers, NEW at \in 0 .. MaxTime,
             CreateScheduledWork(t, g, at)
      PROVE  Excl(u)'
  <2>1. runs' = runs /\ tasks[t].status = "absent"
    BY <1>2 DEF CreateScheduledWork
  <2>2. Fresh(t)'
    BY <1>e, <2>1
  <2>3. schedules'[t].status = "enabled" /\ tasks'[t].status = "active"
    BY <1>2 DEF CreateScheduledWork, TypeOK, NoTask
  <2>4. \A v \in Tasks \ {t} : schedules'[v] = schedules[v] /\ tasks'[v] = tasks[v]
    BY <1>2 DEF CreateScheduledWork, TypeOK
  <2>5. CASE u = t
    BY <2>2, <2>3, <2>5 DEF ActiveRun
  <2>6. CASE u # t
    BY <1>c, <2>1, <2>4, <2>6
  <2>7. QED
    BY <2>5, <2>6
<1>3. ASSUME NEW t \in Tasks, NEW r \in RunIds, CreateDueWorkRun(t, r)
      PROVE  Excl(u)'
  <2>1. schedules[t].nextRunAt \in Nat
    BY <1>3, <1>a DEF CreateDueWorkRun, IsDue, ScheduleRows
  <2>2. FiredRun(t).task = t /\ FiredRun(t).status = "queued"
    BY <2>1, QueuedRunType DEF FiredRun
  <2>3. /\ schedules' = [schedules EXCEPT ![t] = FiredSchedule(schedules[t])]
        /\ runs' = [runs EXCEPT ![r] = FiredRun(t)] /\ tasks' = tasks
        /\ schedules[t].status = "enabled"
    BY <1>3 DEF CreateDueWorkRun, IsDue
  <2>4. /\ FiredSchedule(schedules[t]).kind = schedules[t].kind
        /\ FiredSchedule(schedules[t]).status \in {"enabled", "completed"}
        /\ FiredSchedule(schedules[t]).status = "enabled" => schedules[t].kind # "scheduled_once"
    BY <1>3, FiredScheduleType DEF CreateDueWorkRun
  <2>5. schedules[t].kind # "recurring" => schedules[t].kind = "scheduled_once"
    BY <1>a, <2>3 DEF RowsRelated, HasSchedule, ScheduleRows, Kinds
  <2>6. tasks[t].status = "active" /\ (schedules[t].kind = "scheduled_once" => Fresh(t))
    BY <1>c, <1>f, <2>3 DEF LiveSchedule
  <2>7. CASE u = t
    <3>1. \A q \in RunIds : Live(q, t)' => q = r \/ Live(q, t)
      BY <2>3 DEF TypeOK
    <3>2. schedules[t].kind # "recurring" => \A q \in RunIds : ~Live(q, t)
      BY <2>5, <2>6 DEF ActiveRun
    <3>3. schedules'[t] = FiredSchedule(schedules[t]) /\ tasks'[t].status = "active"
      BY <2>3, <2>6 DEF TypeOK
    <3>4. QED
      BY <2>4, <2>7, <3>1, <3>2, <3>3 DEF LiveSchedule, ClosedTask
  <2>8. CASE u # t
    <3>1. schedules'[u] = schedules[u] /\ tasks'[u] = tasks[u]
      BY <2>3, <2>8 DEF TypeOK
    <3>2. \A q \in RunIds : runs'[q].task = u => runs'[q] = runs[q]
      BY <2>2, <2>3, <2>8 DEF TypeOK
    <3>3. QED
      BY <1>c, <3>1, <3>2
  <2>9. QED
    BY <2>7, <2>8
<1>4. ASSUME NEW r \in RunIds, NEW new \in RunIds, RetryWorkRun(r, new)
      PROVE  Excl(u)'
  <2>0. runs[r].task \in Tasks
    BY <1>4 DEF RetryWorkRun, MayRetry, RowsRelated
  <2> SUFFICES ASSUME NEW t \in Tasks, t = runs[r].task PROVE Excl(u)'
    BY <2>0
  <2>1. /\ tasks[t].status = "active" /\ runs[r].status = "failed"
        /\ Idle(t) /\ ~Fresh(t) /\ tasks' = tasks
    BY <1>4 DEF RetryWorkRun, MayRetry, ActiveRunsOf, RunsOf, ActiveRun
  <2>2. RetriedRun(r).task = t
    BY <2>1, RetriedRunType
  <2>3. /\ runs' = [runs EXCEPT ![new] = RetriedRun(r)]
        /\ schedules' = [schedules EXCEPT ![t] = Counted(schedules[t])]
    BY <1>4 DEF RetryWorkRun
  <2>4. /\ Counted(schedules[t]).status = schedules[t].status
        /\ Counted(schedules[t]).kind = schedules[t].kind
    BY <2>1, <1>a DEF Counted, ScheduleRows
  <2>5. CASE u = t
    <3>1. \A q \in RunIds : Live(q, t)' => q = new
      BY <2>1, <2>3 DEF TypeOK
    <3>2. /\ schedules'[t].status = schedules[t].status /\ schedules'[t].kind = schedules[t].kind
          /\ tasks'[t].status = "active"
      BY <2>1, <2>3, <2>4 DEF TypeOK
    <3>3. QED
      BY <1>c, <2>1, <2>5, <3>1, <3>2 DEF ClosedTask
  <2>6. CASE u # t
    <3>1. schedules'[u] = schedules[u] /\ tasks'[u] = tasks[u]
      BY <2>1, <2>3, <2>6 DEF TypeOK
    <3>2. \A q \in RunIds : runs'[q].task = u => runs'[q] = runs[q]
      BY <2>2, <2>3, <2>6 DEF TypeOK
    <3>3. QED
      BY <1>c, <3>1, <3>2
  <2>7. QED
    BY <2>5, <2>6
<1>5. ASSUME NEW t \in Tasks, NEW src \in RunIds \cup {None}, ReviseWorkTask(t, src)
      PROVE  Excl(u)'
  <2>1. schedules' = schedules /\ tasks'[u].status = tasks[u].status
    BY <1>5, <1>a DEF ReviseWorkTask, TypeOK, TaskRows
  <2>2. \A r \in RunIds : runs'[r].status = runs[r].status /\ runs'[r].task = runs[r].task
    BY <1>5, <1>b DEF ReviseWorkTask, TypeOK, RunRows
  <2>3. QED
    BY <1>c, <2>1, <2>2
<1>6. ASSUME NEW t \in Tasks, NEW to \in {"paused", "enabled"}, MoveWorkSchedule(t, to)
      PROVE  Excl(u)'
  <2>1. /\ schedules[t].status \in LiveSchedule /\ tasks' = tasks /\ runs' = runs
        /\ schedules'[t].status = to /\ schedules'[t].kind = schedules[t].kind
        /\ \A v \in Tasks \ {t} : schedules'[v] = schedules[v]
    BY <1>6, <1>a, ScheduleAfterMove DEF TypeOK, ScheduleRows
  <2>2. QED
    BY <1>c, <2>1 DEF LiveSchedule
<1>7. ASSUME NEW t \in Tasks, CancelWorkTask(t)
      PROVE  Excl(u)'
  <2>1. \A r \in RunIds : /\ Live(r, u)' => Live(r, u)
                          /\ ~Live(r, t)'
                          /\ runs'[r].status # "absent" => runs[r].status # "absent"
                          /\ runs'[r].task = runs[r].task
    BY <1>7, <1>b DEF CancelWorkTask, RunRows, ActiveRunsOf, RunsOf, ActiveRun
  <2>2. /\ schedules'[t].status \notin LiveSchedule /\ tasks'[t].status # "active"
        /\ \A v \in Tasks \ {t} : schedules'[v] = schedules[v] /\ tasks'[v] = tasks[v]
    BY <1>7, <1>a DEF CancelWorkTask, CanceledSchedule, LiveSchedule, ScheduleRows, TaskRows, TypeOK
  <2>3. QED
    BY <1>c, <2>1, <2>2
<1>8. ASSUME NEW t \in Tasks, ArchiveWorkTask(t) \/ RestoreWorkTask(t)
      PROVE  Excl(u)'
  <2>1. /\ tasks[t].status \in ClosedTask /\ tasks'[t].status \in ClosedTask
        /\ \A v \in Tasks \ {t} : tasks'[v] = tasks[v]
    BY <1>8, <1>a DEF ArchiveWorkTask, RestoreWorkTask, ClosedTask, RowsRelated, TaskRows, TypeOK
  <2>2. schedules' = schedules /\ runs' = runs
    BY <1>8 DEF ArchiveWorkTask, RestoreWorkTask
  <2>3. QED
    BY <1>c, <2>1, <2>2 DEF ClosedTask
<1>10. ASSUME NEW r \in RunIds, NEW to \in ActiveRun \cup TerminalRun, MoveWorkRun(r, to)
       PROVE  Excl(u)'
  <2>0. runs[r].status \in ActiveRun
    BY <1>10 DEF MoveWorkRun, RunTransitions, ActiveRun
  <2> SUFFICES ASSUME NEW t \in Tasks, t = runs[r].task PROVE Excl(u)'
    BY <1>g, <2>0
  <2> DEFINE run == [runs[r] EXCEPT !.status = to]
  <2>1. Live(r, t)
    BY <2>0
  <2>2. /\ SettledSchedule(t).status \in {schedules[t].status, "completed"}
        /\ SettledSchedule(t).kind = schedules[t].kind
    BY <2>1, <1>a DEF SettledSchedule, HasSchedule, ScheduleRows
  <2>3. run.task = t /\ run.status = to
    BY <1>b DEF RunRows
  <2>4. /\ runs' = [runs EXCEPT ![r] = run]
        /\ \/ /\ to \in TerminalRun
              /\ tasks' = [tasks EXCEPT ![t] = SettledTask(t, to)]
              /\ schedules' = [schedules EXCEPT ![t] = SettledSchedule(t)]
           \/ UNCHANGED <<tasks, schedules>>
    BY <1>10 DEF MoveWorkRun
  <2> HIDE DEF run
  <2>5. schedules[t].status # "canceled" /\ ~Fresh(t)
    BY <1>c, <2>1 DEF ActiveRun
  <2>6. schedules'[t].status \in {schedules[t].status, "completed"}
        /\ schedules'[t].kind = schedules[t].kind
    BY <2>1, <2>2, <2>4 DEF TypeOK
  <2>7. \A q \in RunIds \ {r} : runs'[q] = runs[q]
    BY <2>4 DEF TypeOK
  <2>8. CASE u = t
    <3>1. schedules[t].kind # "recurring" =>
            Single(t)' /\ (tasks'[t].status \in ClosedTask => Idle(t)')
      <4>1. SUFFICES ASSUME schedules[t].kind # "recurring"
                     PROVE  Single(t)' /\ (tasks'[t].status \in ClosedTask => Idle(t)')
        OBVIOUS
      <4>2. \A q \in RunIds : Live(q, t) => q = r
        BY <1>c, <2>1, <4>1
      <4>3. \A q \in RunIds : Live(q, t)' => q = r
        BY <2>7, <4>2
      <4>4. tasks[t].status \notin ClosedTask
        BY <1>c, <2>1, <4>1
      <4>5. CASE to \in TerminalRun
        BY <2>3, <2>4, <4>3, <4>5 DEF TypeOK, TerminalRun, ActiveRun
      <4>6. CASE to \notin TerminalRun
        BY <2>4, <4>3, <4>4, <4>6
      <4>7. QED
        BY <4>5, <4>6
    <3>2. QED
      BY <2>5, <2>6, <2>8, <3>1, <1>c DEF LiveSchedule
  <2>9. CASE u # t
    <3>1. schedules'[u] = schedules[u] /\ tasks'[u] = tasks[u]
      BY <2>1, <2>4, <2>9 DEF TypeOK
    <3>2. \A q \in RunIds : runs'[q].task = u => runs'[q] = runs[q]
      BY <2>3, <2>4, <2>9 DEF TypeOK
    <3>3. QED
      BY <1>c, <3>1, <3>2
  <2>10. QED
    BY <2>8, <2>9
<1>11. CASE Tick
  BY <1>11, <1>c DEF Tick
<1>12. CASE UNCHANGED vars
  BY <1>12, <1>c DEF vars
<1>13. QED
  BY <1>1, <1>2, <1>3, <1>4, <1>5, <1>6, <1>7, <1>8, <1>10, <1>11, <1>12 DEF Next

\* What one-shot work and canceled schedules keep over every sequence of calls.
THEOREM ExclusiveInvariant == Spec => []Exclusive
<1>1. Init => Exclusive
  BY DEF Init, Exclusive, CanceledScheduleIsDone, OnceScheduleIsFresh, OneShotExclusive,
         LiveSchedule, ActiveRunsOf, RunsOf, ActiveRun, ClosedTask, NoSchedule, NoRun, NoTask
<1>2. QED
  BY <1>1, ExclusiveStep, TypeCorrect, SchedulesServeActiveTasks, PTL DEF Spec

\* One-shot work has at most one run that is not over, and none once its task
\* is completed, canceled or archived.
THEOREM OneShotWorkIsExclusive == Spec => []OneShotExclusive
<1>1. Exclusive => OneShotExclusive
  BY DEF Exclusive
<1>2. QED
  BY <1>1, ExclusiveInvariant, PTL

-----------------------------------------------------------------------------
(* What is final.                                                          *)

\* The last status of a run is its last: no step of any method gives a done,
\* failed or canceled run another status.
THEOREM TerminalRunsStay == Spec => TerminalRunIsFinal
<1> DEFINE Stay == \A r \in RunIds : runs[r].status \in TerminalRun => runs'[r].status = runs[r].status
<1>1. TypeOK /\ [Next]_vars => Stay
  <2> SUFFICES ASSUME TypeOK, [Next]_vars, NEW q \in RunIds, runs[q].status \in TerminalRun
               PROVE  runs'[q].status = runs[q].status
    OBVIOUS
  <2>a. \A r \in RunIds : runs[r] \in RunRows
    BY DEF TypeOK
  <2>b. runs[q].status # "absent" /\ runs[q].status \notin ActiveRun
    BY DEF TerminalRun, ActiveRun
  <2>1. ASSUME NEW t \in Tasks, NEW g \in Triggers, NEW r \in RunIds, CreateImmediateWork(t, g, r)
        PROVE  runs'[q] = runs[q]
    BY <2>1, <2>b DEF CreateImmediateWork, TypeOK
  <2>2. ASSUME NEW t \in Tasks, NEW r \in RunIds, CreateDueWorkRun(t, r)
        PROVE  runs'[q] = runs[q]
    BY <2>2, <2>b DEF CreateDueWorkRun, TypeOK
  <2>3. ASSUME NEW r \in RunIds, NEW new \in RunIds, RetryWorkRun(r, new)
        PROVE  runs'[q] = runs[q]
    BY <2>3, <2>b DEF RetryWorkRun, TypeOK
  <2>4. ASSUME NEW t \in Tasks, NEW src \in RunIds \cup {None}, ReviseWorkTask(t, src)
        PROVE  runs'[q].status = runs[q].status
    BY <2>4, <2>a DEF ReviseWorkTask, TypeOK, RunRows
  <2>5. ASSUME NEW t \in Tasks, CancelWorkTask(t)
        PROVE  runs'[q] = runs[q]
    BY <2>5, <2>b DEF CancelWorkTask, ActiveRunsOf
  <2>6. ASSUME NEW r \in RunIds, NEW to \in ActiveRun \cup TerminalRun, MoveWorkRun(r, to)
        PROVE  runs'[q] = runs[q]
    <3>1. runs[r].status \in ActiveRun
      BY <2>6 DEF MoveWorkRun, RunTransitions, ActiveRun
    <3>2. QED
      BY <2>6, <2>b, <3>1 DEF MoveWorkRun, TypeOK
  <2>7. CASE UNCHANGED runs
    BY <2>7
  <2>8. QED
    BY <2>1, <2>2, <2>3, <2>4, <2>5, <2>6, <2>7
       DEF Next, CreateScheduledWork, MoveWorkSchedule, ArchiveWorkTask, RestoreWorkTask, Tick, vars
<1>2. QED
  BY <1>1, TypeInvariant, PTL DEF Spec, TerminalRunIsFinal

\* A completed or canceled schedule keeps that status, whatever still happens to
\* the runs it fired.
THEOREM EndedSchedulesStay == Spec => EndedScheduleIsFinal
<1> DEFINE Stay == \A t \in Tasks : schedules[t].status \in {"completed", "canceled"} =>
                     schedules'[t].status = schedules[t].status
<1>1. Typed /\ Exclusive /\ [Next]_vars => Stay
  <2> SUFFICES ASSUME TypeOK, RowsRelated, CanceledScheduleIsDone, [Next]_vars, NEW u \in Tasks,
                      schedules[u].status \in {"completed", "canceled"}
               PROVE  schedules'[u].status = schedules[u].status
    BY DEF Typed, Exclusive
  <2>a. \A t \in Tasks : schedules[t] \in ScheduleRows
    BY DEF TypeOK
  <2>1. ASSUME NEW t \in Tasks, NEW g \in Triggers, NEW at \in 0 .. MaxTime,
               CreateScheduledWork(t, g, at)
        PROVE  schedules'[u] = schedules[u]
    BY <2>1 DEF CreateScheduledWork, RowsRelated, HasSchedule, TypeOK
  <2>2. ASSUME NEW t \in Tasks, NEW r \in RunIds, CreateDueWorkRun(t, r)
        PROVE  schedules'[u] = schedules[u]
    BY <2>2 DEF CreateDueWorkRun, IsDue, TypeOK
  <2>3. ASSUME NEW r \in RunIds, NEW new \in RunIds, RetryWorkRun(r, new)
        PROVE  schedules'[u].status = schedules[u].status
    BY <2>3, <2>a DEF RetryWorkRun, Counted, TypeOK, ScheduleRows
  <2>4. ASSUME NEW t \in Tasks, NEW to \in {"paused", "enabled"}, MoveWorkSchedule(t, to)
        PROVE  schedules'[u] = schedules[u]
    BY <2>4, ScheduleAfterMove DEF LiveSchedule, TypeOK
  <2>5. ASSUME NEW t \in Tasks, CancelWorkTask(t)
        PROVE  schedules'[u] = schedules[u]
    BY <2>5 DEF CancelWorkTask, CanceledSchedule, LiveSchedule, TypeOK
  <2>6. ASSUME NEW r \in RunIds, NEW to \in ActiveRun \cup TerminalRun, MoveWorkRun(r, to)
        PROVE  schedules'[u].status = schedules[u].status
    <3>1. runs[r].status \in ActiveRun
      BY <2>6 DEF MoveWorkRun, RunTransitions, ActiveRun
    <3>2. runs[r].task \in Tasks /\ schedules[runs[r].task].status # "canceled"
      BY <3>1 DEF RowsRelated, CanceledScheduleIsDone, ActiveRunsOf, RunsOf, ActiveRun
    <3>3. SettledSchedule(runs[r].task).status \in {schedules[runs[r].task].status, "completed"}
      BY <3>2, <2>a DEF SettledSchedule, HasSchedule, ScheduleRows
    <3>4. QED
      BY <2>6, <3>2, <3>3 DEF MoveWorkRun, TypeOK
  <2>7. CASE UNCHANGED schedules
    BY <2>7
  <2>8. QED
    BY <2>1, <2>2, <2>3, <2>4, <2>5, <2>6, <2>7
       DEF Next, CreateImmediateWork, ReviseWorkTask, ArchiveWorkTask, RestoreWorkTask, Tick, vars
<1>2. QED
  BY <1>1, TypeCorrect, ExclusiveInvariant, PTL DEF Spec, EndedScheduleIsFinal

\* One-shot work that is over is over: its task never becomes active again.
THEOREM ClosedOneShotWorkStays == Spec => ClosedOneShotStaysClosed
<1> DEFINE Stay == \A t \in Tasks : tasks[t].status \in ClosedTask /\ schedules[t].kind # "recurring"
                     => tasks'[t].status \in ClosedTask
<1>1. Typed /\ Exclusive /\ [Next]_vars => Stay
  <2> SUFFICES ASSUME TypeOK, RowsRelated, OneShotExclusive, [Next]_vars, NEW u \in Tasks,
                      tasks[u].status \in ClosedTask, schedules[u].kind # "recurring"
               PROVE  tasks'[u].status \in ClosedTask
    BY DEF Typed, Exclusive
  <2>a. \A t \in Tasks : tasks[t] \in TaskRows
    BY DEF TypeOK
  <2>1. ASSUME NEW t \in Tasks, NEW g \in Triggers, NEW r \in RunIds, CreateImmediateWork(t, g, r)
        PROVE  tasks'[u] = tasks[u]
    BY <2>1 DEF CreateImmediateWork, ClosedTask, TypeOK
  <2>2. ASSUME NEW t \in Tasks, NEW g \in Triggers, NEW at \in 0 .. MaxTime,
               CreateScheduledWork(t, g, at)
        PROVE  tasks'[u] = tasks[u]
    BY <2>2 DEF CreateScheduledWork, ClosedTask, TypeOK
  <2>3. ASSUME NEW t \in Tasks, NEW src \in RunIds \cup {None}, ReviseWorkTask(t, src)
        PROVE  tasks'[u] = tasks[u]
    BY <2>3 DEF ReviseWorkTask, MayRevise, ClosedTask, TypeOK
  <2>4. ASSUME NEW t \in Tasks, NEW to \in {"paused", "enabled"}, MoveWorkSchedule(t, to)
        PROVE  tasks'[u] = tasks[u]
    BY <2>4, ScheduleAfterMove
  <2>5. ASSUME NEW t \in Tasks, CancelWorkTask(t) \/ ArchiveWorkTask(t) \/ RestoreWorkTask(t)
        PROVE  tasks'[u].status \in ClosedTask
    BY <2>5, <2>a
       DEF CancelWorkTask, ArchiveWorkTask, RestoreWorkTask, ClosedTask, RowsRelated, TypeOK, TaskRows
  <2>6. ASSUME NEW r \in RunIds, NEW to \in ActiveRun \cup TerminalRun, MoveWorkRun(r, to)
        PROVE  tasks'[u] = tasks[u]
    <3>1. runs[r].status \in ActiveRun
      BY <2>6 DEF MoveWorkRun, RunTransitions, ActiveRun
    <3>2. runs[r].task # u
      BY <3>1 DEF OneShotExclusive, ActiveRunsOf, RunsOf, ActiveRun
    <3>3. QED
      BY <2>6, <3>2 DEF MoveWorkRun, TypeOK
  <2>7. CASE UNCHANGED tasks
    BY <2>7
  <2>8. QED
    BY <2>1, <2>2, <2>3, <2>4, <2>5, <2>6, <2>7
       DEF Next, CreateDueWorkRun, RetryWorkRun, Tick, vars
<1>2. QED
  BY <1>1, TypeCorrect, ExclusiveInvariant, PTL DEF Spec, ClosedOneShotStaysClosed

-----------------------------------------------------------------------------
(* Counting runs.                                                          *)

\* Counting is inductive: a live schedule has a firing left because the counter
\* createDueWorkRun compares with maxRuns is never below the firings there were.
Counting == RunCountIsExact /\ LiveScheduleHasBudget /\ TriggerBudget

\* The runs of a task are finitely many, so that they can be counted.
LEMMA RunsFinite ==
  ASSUME NEW t
  PROVE  /\ IsFiniteSet(RunsOf(t)) /\ IsFiniteSet(FiredRuns(t))
         /\ Cardinality(RunsOf(t)) \in Nat /\ Cardinality(FiredRuns(t)) \in Nat
         /\ Cardinality(FiredRuns(t)) <= Cardinality(RunsOf(t))
<1>1. RunsOf(t) \subseteq RunIds /\ FiredRuns(t) \subseteq RunsOf(t)
  BY DEF RunsOf, FiredRuns
<1>2. IsFiniteSet(RunsOf(t))
  BY <1>1, FS_Subset, RunIdsAssumption
<1>3. QED
  BY <1>1, <1>2, FS_Subset, FS_CardinalityType

\* A run that is inserted is one more run of its task and of no other.
LEMMA RunInserted ==
  ASSUME TypeOK, NEW t, NEW r \in RunIds, NEW run, runs[r].status = "absent",
         runs' = [runs EXCEPT ![r] = run], run.status # "absent", run.task = t
  PROVE  /\ Cardinality(RunsOf(t)') = Cardinality(RunsOf(t)) + 1
         /\ run.triggeredBy \in {"schedule", "recurrence"} =>
              Cardinality(FiredRuns(t)') = Cardinality(FiredRuns(t)) + 1
         /\ run.triggeredBy \notin {"schedule", "recurrence"} => FiredRuns(t)' = FiredRuns(t)
         /\ \A u : u # t => RunsOf(u)' = RunsOf(u) /\ FiredRuns(u)' = FiredRuns(u)
<1>1. /\ runs'[r] = run /\ \A q \in RunIds \ {r} : runs'[q] = runs[q]
  BY DEF TypeOK
<1>2. RunsOf(t)' = RunsOf(t) \cup {r} /\ r \notin RunsOf(t)
  BY <1>1 DEF RunsOf
<1>3. run.triggeredBy \in {"schedule", "recurrence"} =>
        FiredRuns(t)' = FiredRuns(t) \cup {r} /\ r \notin FiredRuns(t)
  BY <1>1 DEF RunsOf, FiredRuns
<1>4. run.triggeredBy \notin {"schedule", "recurrence"} => FiredRuns(t)' = FiredRuns(t)
  BY <1>1 DEF RunsOf, FiredRuns
<1>5. \A u : u # t => RunsOf(u)' = RunsOf(u)
  BY <1>1 DEF RunsOf
<1>6. \A u : u # t => FiredRuns(u)' = FiredRuns(u)
  BY <1>1, <1>5 DEF RunsOf, FiredRuns
<1>7. IsFiniteSet(RunsOf(t)) /\ IsFiniteSet(FiredRuns(t))
  BY RunsFinite
<1>8. Cardinality(RunsOf(t) \cup {r}) = Cardinality(RunsOf(t)) + 1
  BY <1>2, <1>7, FS_AddElement
<1>9. r \notin FiredRuns(t) => Cardinality(FiredRuns(t) \cup {r}) = Cardinality(FiredRuns(t)) + 1
  BY <1>7, FS_AddElement
<1>10. QED
  BY <1>2, <1>3, <1>4, <1>5, <1>6, <1>8, <1>9

\* Steps that only move runs from one status to another count the same runs.
LEMMA RunsKept ==
  ASSUME \A r \in RunIds : /\ (runs'[r].status = "absent") <=> (runs[r].status = "absent")
                           /\ runs'[r].task = runs[r].task
                           /\ runs'[r].triggeredBy = runs[r].triggeredBy
  PROVE  \A u : RunsOf(u)' = RunsOf(u) /\ FiredRuns(u)' = FiredRuns(u)
<1>1. \A u : RunsOf(u)' = RunsOf(u)
  BY DEF RunsOf
<1>2. QED
  BY <1>1 DEF FiredRuns, RunsOf

\* Every method that inserts a run counts it once, and no other changes the count.
LEMMA CountingStep == Typed /\ Counting /\ [Next]_vars => Counting'
<1> SUFFICES ASSUME TypeOK, RowsRelated, Counting, [Next]_vars PROVE Counting'
  BY DEF Typed
<1>a. \A t \in Tasks : tasks[t] \in TaskRows /\ schedules[t] \in ScheduleRows
  BY DEF TypeOK
<1>b. \A r \in RunIds : runs[r] \in RunRows
  BY DEF TypeOK
<1> DEFINE Count(s, n, fired) ==
      /\ s.status # "absent" => s.runCount = n
      /\ s.status \in LiveSchedule /\ s.maxRuns # None => fired < s.maxRuns
      /\ s.maxRuns # None => fired <= s.maxRuns
<1>c. \A t \in Tasks : Count(schedules[t], Cardinality(RunsOf(t)), Cardinality(FiredRuns(t)))
  BY DEF Counting, RunCountIsExact, LiveScheduleHasBudget, TriggerBudget, HasSchedule
<1>d. (\A t \in Tasks : Count(schedules[t], Cardinality(RunsOf(t)), Cardinality(FiredRuns(t)))')
        => Counting'
  BY DEF Counting, RunCountIsExact, LiveScheduleHasBudget, TriggerBudget, HasSchedule
<1> SUFFICES ASSUME NEW u \in Tasks
             PROVE  Count(schedules'[u], Cardinality(RunsOf(u)'), Cardinality(FiredRuns(u)'))
  BY <1>d
<1> DEFINE Goal == Count(schedules'[u], Cardinality(RunsOf(u)'), Cardinality(FiredRuns(u)'))
<1>1. ASSUME NEW t \in Tasks, NEW g \in Triggers, NEW r \in RunIds, CreateImmediateWork(t, g, r)
      PROVE  Goal
  <2> DEFINE run == [QueuedRun(t, "immediate", None) EXCEPT !.revision = 1]
  <2>1. run.task = t /\ run.status = "queued" /\ run.triggeredBy = "immediate"
    BY QueuedRunType DEF RunRows
  <2>2. /\ runs[r].status = "absent" /\ runs' = [runs EXCEPT ![r] = run]
        /\ schedules' = schedules /\ schedules[t].status = "absent"
    BY <1>1 DEF CreateImmediateWork, RowsRelated, HasSchedule
  <2> HIDE DEF run
  <2>3. FiredRuns(u)' = FiredRuns(u) /\ (u # t => RunsOf(u)' = RunsOf(u))
    BY <2>1, <2>2, RunInserted
  <2>4. QED
    BY <1>c, <2>2, <2>3 DEF LiveSchedule
<1>2. ASSUME NEW t \in Tasks, NEW g \in Triggers, NEW at \in 0 .. MaxTime,
             CreateScheduledWork(t, g, at)
      PROVE  Goal
  <2>1. runs' = runs /\ tasks[t].status = "absent"
    BY <1>2 DEF CreateScheduledWork
  <2>2. RunsOf(u)' = RunsOf(u) /\ FiredRuns(u)' = FiredRuns(u)
    BY <2>1, RunsKept
  <2>3. CASE u = t
    <3>1. RunsOf(u) = {} /\ FiredRuns(u) = {}
      BY <2>1, <2>3 DEF RowsRelated, RunsOf, FiredRuns
    <3>2. Cardinality(RunsOf(u)) = 0 /\ Cardinality(FiredRuns(u)) = 0
      BY <3>1, FS_EmptySet
    <3>3. schedules'[u].runCount = 0 /\ schedules'[u].maxRuns = g.maxRuns
      BY <1>2, <2>3 DEF CreateScheduledWork, TypeOK
    <3>4. g.maxRuns # None => g.maxRuns \in Nat \ {0}
      BY TriggersAssumption
    <3>5. QED
      BY <2>2, <3>2, <3>3, <3>4
  <2>4. CASE u # t
    <3>1. schedules'[u] = schedules[u]
      BY <1>2, <2>4 DEF CreateScheduledWork, TypeOK
    <3>2. QED
      BY <1>c, <2>2, <3>1
  <2>5. QED
    BY <2>3, <2>4
<1>3. ASSUME NEW t \in Tasks, NEW r \in RunIds, CreateDueWorkRun(t, r)
      PROVE  Goal
  <2>1. schedules[t].nextRunAt \in Nat
    BY <1>3, <1>a DEF CreateDueWorkRun, IsDue, ScheduleRows
  <2>2. /\ FiredRun(t).task = t /\ FiredRun(t).status = "queued"
        /\ FiredRun(t).triggeredBy \in {"schedule", "recurrence"}
    BY <2>1, QueuedRunType DEF FiredRun
  <2>3. /\ schedules' = [schedules EXCEPT ![t] = FiredSchedule(schedules[t])]
        /\ runs' = [runs EXCEPT ![r] = FiredRun(t)] /\ runs[r].status = "absent"
        /\ schedules[t].status = "enabled"
    BY <1>3 DEF CreateDueWorkRun, IsDue
  <2>4. CASE u = t
    <3>1. /\ Cardinality(RunsOf(t)') = Cardinality(RunsOf(t)) + 1
          /\ Cardinality(FiredRuns(t)') = Cardinality(FiredRuns(t)) + 1
      BY <2>2, <2>3, RunInserted
    <3>2. /\ schedules'[t].runCount = schedules[t].runCount + 1
          /\ schedules'[t].maxRuns = schedules[t].maxRuns
          /\ schedules'[t].status \in {"enabled", "completed"}
          /\ schedules'[t].status = "enabled" /\ schedules[t].maxRuns # None
               => schedules[t].runCount + 1 < schedules[t].maxRuns
      BY <1>3, <2>3, FiredScheduleType DEF CreateDueWorkRun, TypeOK
    <3>3. /\ schedules[t].runCount = Cardinality(RunsOf(t))
          /\ schedules[t].maxRuns # None => /\ schedules[t].maxRuns \in Nat
                                            /\ Cardinality(FiredRuns(t)) < schedules[t].maxRuns
      BY <1>a, <1>c, <2>3 DEF LiveSchedule, ScheduleRows
    <3>4. /\ Cardinality(RunsOf(t)) \in Nat /\ Cardinality(FiredRuns(t)) \in Nat
          /\ Cardinality(FiredRuns(t)) <= Cardinality(RunsOf(t))
      BY RunsFinite
    <3>5. QED
      BY <2>4, <3>1, <3>2, <3>3, <3>4 DEF LiveSchedule
  <2>5. CASE u # t
    <3>1. RunsOf(u)' = RunsOf(u) /\ FiredRuns(u)' = FiredRuns(u)
      BY <2>2, <2>3, <2>5, RunInserted
    <3>2. schedules'[u] = schedules[u]
      BY <2>3, <2>5 DEF TypeOK
    <3>3. QED
      BY <1>c, <3>1, <3>2
  <2>6. QED
    BY <2>4, <2>5
<1>4. ASSUME NEW r \in RunIds, NEW new \in RunIds, RetryWorkRun(r, new)
      PROVE  Goal
  <2>1. runs[r].task \in Tasks
    BY <1>4 DEF RetryWorkRun, MayRetry, RowsRelated
  <2> SUFFICES ASSUME NEW t \in Tasks, t = runs[r].task PROVE Goal
    BY <2>1
  <2>2. /\ RetriedRun(r).status = "queued" /\ RetriedRun(r).triggeredBy = "retry"
        /\ RetriedRun(r).task = t
    BY DEF RetriedRun, QueuedRun
  <2>3. /\ runs' = [runs EXCEPT ![new] = RetriedRun(r)] /\ runs[new].status = "absent"
        /\ schedules' = [schedules EXCEPT ![t] = Counted(schedules[t])]
    BY <1>4 DEF RetryWorkRun
  <2>4. CASE u = t
    <3>1. Cardinality(RunsOf(t)') = Cardinality(RunsOf(t)) + 1 /\ FiredRuns(t)' = FiredRuns(t)
      BY <2>2, <2>3, RunInserted
    <3>2. /\ schedules'[t].status = schedules[t].status
          /\ schedules'[t].maxRuns = schedules[t].maxRuns
          /\ schedules[t].status # "absent" => schedules'[t].runCount = schedules[t].runCount + 1
      BY <1>a, <2>3 DEF Counted, TypeOK, ScheduleRows
    <3>3. QED
      BY <1>c, <2>4, <3>1, <3>2
  <2>5. CASE u # t
    <3>1. RunsOf(u)' = RunsOf(u) /\ FiredRuns(u)' = FiredRuns(u)
      BY <2>2, <2>3, <2>5, RunInserted
    <3>2. schedules'[u] = schedules[u]
      BY <2>3, <2>5 DEF TypeOK
    <3>3. QED
      BY <1>c, <3>1, <3>2
  <2>6. QED
    BY <2>4, <2>5
<1>5. ASSUME NEW t \in Tasks, NEW src \in RunIds \cup {None}, ReviseWorkTask(t, src)
      PROVE  Goal
  <2>1. RunsOf(u)' = RunsOf(u) /\ FiredRuns(u)' = FiredRuns(u)
    <3>1. \A r \in RunIds : /\ runs'[r].status = runs[r].status
                            /\ runs'[r].task = runs[r].task
                            /\ runs'[r].triggeredBy = runs[r].triggeredBy
      BY <1>5, <1>b DEF ReviseWorkTask, TypeOK, RunRows
    <3>2. QED
      BY <3>1, RunsKept
  <2>2. schedules' = schedules
    BY <1>5 DEF ReviseWorkTask
  <2>3. QED
    BY <1>c, <2>1, <2>2
<1>6. ASSUME NEW t \in Tasks, NEW to \in {"paused", "enabled"}, MoveWorkSchedule(t, to)
      PROVE  Goal
  <2>1. RunsOf(u)' = RunsOf(u) /\ FiredRuns(u)' = FiredRuns(u)
    BY <1>6, RunsKept DEF MoveWorkSchedule
  <2>2. /\ schedules'[u].maxRuns = schedules[u].maxRuns
        /\ schedules'[u].runCount = schedules[u].runCount
        /\ schedules'[u].status # "absent" => schedules[u].status # "absent"
        /\ schedules'[u].status \in LiveSchedule => schedules[u].status \in LiveSchedule
    BY <1>6, <1>a, ScheduleAfterMove DEF TypeOK, ScheduleRows, LiveSchedule
  <2>3. QED
    BY <1>c, <2>1, <2>2
<1>7. ASSUME NEW t \in Tasks, CancelWorkTask(t)
      PROVE  Goal
  <2>1. RunsOf(u)' = RunsOf(u) /\ FiredRuns(u)' = FiredRuns(u)
    <3>1. \A r \in RunIds : /\ (runs'[r].status = "absent") <=> (runs[r].status = "absent")
                            /\ runs'[r].task = runs[r].task
                            /\ runs'[r].triggeredBy = runs[r].triggeredBy
      BY <1>7, <1>b DEF CancelWorkTask, RunRows, ActiveRunsOf, RunsOf
    <3>2. QED
      BY <3>1, RunsKept
  <2>2. /\ schedules'[u].maxRuns = schedules[u].maxRuns
        /\ schedules'[u].runCount = schedules[u].runCount
        /\ schedules'[u].status # "absent" => schedules[u].status # "absent"
        /\ schedules'[u].status \in LiveSchedule => schedules[u].status \in LiveSchedule
    BY <1>7, <1>a DEF CancelWorkTask, CanceledSchedule, TypeOK, ScheduleRows, LiveSchedule
  <2>3. QED
    BY <1>c, <2>1, <2>2
<1>8. CASE UNCHANGED <<schedules, runs>>
  <2>1. RunsOf(u)' = RunsOf(u) /\ FiredRuns(u)' = FiredRuns(u)
    BY <1>8, RunsKept
  <2>2. QED
    BY <1>8, <1>c, <2>1
<1>10. ASSUME NEW r \in RunIds, NEW to \in ActiveRun \cup TerminalRun, MoveWorkRun(r, to)
       PROVE  Goal
  <2>1. RunsOf(u)' = RunsOf(u) /\ FiredRuns(u)' = FiredRuns(u)
    <3>1. runs[r].status # "absent" /\ to # "absent"
      BY <1>10 DEF MoveWorkRun, RunTransitions, ActiveRun, TerminalRun
    <3>2. \A q \in RunIds : /\ (runs'[q].status = "absent") <=> (runs[q].status = "absent")
                            /\ runs'[q].task = runs[q].task
                            /\ runs'[q].triggeredBy = runs[q].triggeredBy
      BY <1>10, <1>b, <3>1 DEF MoveWorkRun, RunRows, TypeOK
    <3>3. QED
      BY <3>2, RunsKept
  <2>2. runs[r].task \in Tasks
    BY <1>10 DEF MoveWorkRun, RunTransitions, RowsRelated
  <2> SUFFICES ASSUME NEW t \in Tasks, t = runs[r].task PROVE Goal
    BY <2>2
  <2>3. \/ schedules' = [schedules EXCEPT ![t] = SettledSchedule(t)]
        \/ schedules' = schedules
    BY <1>10 DEF MoveWorkRun
  <2>4. HasSchedule(t) => RunCount(t) = Cardinality(RunsOf(t))
    BY <1>c, RunsFinite DEF RunCount, HasSchedule
  <2>5. /\ SettledSchedule(t).maxRuns = schedules[t].maxRuns
        /\ SettledSchedule(t).status # "absent" =>
             /\ schedules[t].status # "absent"
             /\ SettledSchedule(t).runCount = Cardinality(RunsOf(t))
        /\ SettledSchedule(t).status \in LiveSchedule => schedules[t].status \in LiveSchedule
    BY <1>a, <2>4 DEF SettledSchedule, HasSchedule, ScheduleRows, LiveSchedule
  <2>6. CASE u = t /\ schedules' = [schedules EXCEPT ![t] = SettledSchedule(t)]
    <3>1. schedules'[u] = SettledSchedule(t)
      BY <2>6 DEF TypeOK
    <3>2. QED
      BY <1>c, <2>1, <2>5, <2>6, <3>1
  <2>7. CASE u # t \/ schedules' = schedules
    <3>1. schedules'[u] = schedules[u]
      BY <2>3, <2>7 DEF TypeOK
    <3>2. QED
      BY <1>c, <2>1, <3>1
  <2>8. QED
    BY <2>3, <2>6, <2>7
<1>11. QED
  BY <1>1, <1>2, <1>3, <1>4, <1>5, <1>6, <1>7, <1>8, <1>10
     DEF Next, ArchiveWorkTask, RestoreWorkTask, Tick, vars

\* The counter is exact and the budgets hold over every sequence of calls.
THEOREM CountingInvariant == Spec => []Counting
<1>1. Init => Counting
  <2> SUFFICES ASSUME Init PROVE Counting
    OBVIOUS
  <2>1. \A t : RunsOf(t) = {}
    BY DEF Init, RunsOf, NoRun
  <2>2. \A t : Cardinality(FiredRuns(t)) = 0
    BY <2>1, FS_EmptySet DEF FiredRuns
  <2>3. QED
    BY <2>2 DEF Init, Counting, RunCountIsExact, LiveScheduleHasBudget, TriggerBudget, HasSchedule,
                NoSchedule, LiveSchedule
<1>2. QED
  BY <1>1, CountingStep, TypeCorrect, PTL DEF Spec

\* The counter of a schedule is the number of runs of its task.
THEOREM RunCountsAreExact == Spec => []RunCountIsExact
<1>1. Counting => RunCountIsExact
  BY DEF Counting
<1>2. QED
  BY <1>1, CountingInvariant, PTL

\* No schedule fires more often than its budget, whatever is retried in between.
THEOREM BudgetsHold == Spec => []TriggerBudget
<1>1. Counting => TriggerBudget
  BY DEF Counting
<1>2. QED
  BY <1>1, CountingInvariant, PTL

=============================================================================
