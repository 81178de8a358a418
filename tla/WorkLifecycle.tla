---------------------------- MODULE WorkLifecycle ----------------------------
(***************************************************************************)
(* The Work service (src/src/work/work-service.ts) as it behaves when its  *)
(* operations do not overlap: one atomic action per public method that     *)
(* writes, over the three tables the methods relate.                       *)
(*                                                                         *)
(*   tasks      work_tasks        what has to be done, and whether it is   *)
(*                                still active                             *)
(*   schedules  work_schedules    the trigger of a task (at most one per   *)
(*                                task: createWork is the only INSERT)     *)
(*   runs       work_runs         the execution attempts of a task         *)
(*   now        the clock the service reads                                *)
(*                                                                         *)
(* A method that throws, or returns early without writing, changes nothing *)
(* and so is no step.  requireActiveRuntimeMember asks the company         *)
(* directory, which is not part of this state: an action here is the call  *)
(* for which the directory said yes.  Texts, reasons, evidence, assignees, *)
(* events and timestamps no method reads back are left out.                *)
(*                                                                         *)
(* WorkStatements runs the same operations one SQL statement at a time.    *)
(***************************************************************************)
EXTENDS Integers, FiniteSets, WorkRunStatus

CONSTANTS
  Tasks,        \* WorkTask ids
  RunIds,       \* WorkRun ids, a finite supply
  Triggers,     \* the triggers createWork is called with
  Interval,     \* scheduleRule.intervalMs of the recurring triggers
  MaxTime,      \* bound: the clock stops here
  MaxRevision,  \* bound: a task is revised up to this revision
  None          \* an optional field that is not set

Kinds == {"immediate", "scheduled_once", "recurring"}

\* maxRuns is a positive integer and belongs to a schedule (validateWorkTrigger
\* and the check after it in createWork).
ASSUME TriggersAssumption ==
  Triggers \subseteq
    {g \in [kind : Kinds, maxRuns : (Nat \ {0}) \cup {None}] :
       g.kind = "immediate" => g.maxRuns = None}
ASSUME IntervalAssumption == Interval \in Nat \ {0}
ASSUME BoundsAssumption == MaxTime \in Nat /\ MaxRevision \in Nat
ASSUME NoneAssumption ==
  None \notin Nat /\ None \notin {"completed", "canceled", "schedule", "recurrence"}
ASSUME RunIdsAssumption == IsFiniteSet(RunIds)

VARIABLES tasks, schedules, runs, now

vars == <<tasks, schedules, runs, now>>

-----------------------------------------------------------------------------
(* The rows.                                                               *)

ClosedTask == {"completed", "canceled", "archived"}
LiveSchedule == {"enabled", "paused"}

\* allowedScheduleTransitions: <<from, to>>.
\* Mutant: a completed schedule can be resumed.
ScheduleTransitions_Resumable ==
  {<<"enabled", "paused">>, <<"paused", "enabled">>, <<"completed", "enabled">>}
    \cup (LiveSchedule \X {"canceled", "completed"})

ScheduleTransitions ==
  {<<"enabled", "paused">>, <<"paused", "enabled">>}
    \cup (LiveSchedule \X {"canceled", "completed"})

NoTask == [status |-> "absent", archivedFrom |-> None, revision |-> 0]
NoSchedule ==
  [status |-> "absent", kind |-> "immediate", nextRunAt |-> None,
   runCount |-> 0, maxRuns |-> None]
NoRun ==
  [status |-> "absent", task |-> None, triggeredBy |-> None,
   scheduledFor |-> None, revision |-> 0]

TaskRows ==
  [status : {"absent", "active"} \cup ClosedTask,
   archivedFrom : {None, "completed", "canceled"}, revision : Nat]
ScheduleRows ==
  [status : {"absent", "completed", "canceled"} \cup LiveSchedule, kind : Kinds,
   nextRunAt : Nat \cup {None}, runCount : Nat, maxRuns : (Nat \ {0}) \cup {None}]
RunRows ==
  [status : {"absent"} \cup ActiveRun \cup TerminalRun, task : Tasks \cup {None},
   triggeredBy : {"immediate", "schedule", "recurrence", "retry", None},
   scheduledFor : Nat \cup {None}, revision : Nat]

HasSchedule(t) == schedules[t].status # "absent"
RunsOf(t) == {r \in RunIds : runs[r].status # "absent" /\ runs[r].task = t}
FiredRuns(t) == {r \in RunsOf(t) : runs[r].triggeredBy \in {"schedule", "recurrence"}}
ActiveRunsOf(t) == {r \in RunsOf(t) : runs[r].status \in ActiveRun}

\* The row createWorkRun inserts; scheduledFor of an immediate run is never read.
QueuedRun(t, trigger, at) ==
  [status |-> "queued", task |-> t, triggeredBy |-> trigger,
   scheduledFor |-> at, revision |-> tasks[t].revision]

\* incrementScheduleRunCount: createWorkRun counts every run against the schedule.
\* Mutant: only an enabled schedule counts its runs.
Counted_EnabledOnly(s) == IF s.status = "enabled" THEN [s EXCEPT !.runCount = @ + 1] ELSE s

Counted(s) == IF s.status = "absent" THEN s ELSE [s EXCEPT !.runCount = @ + 1]

-----------------------------------------------------------------------------
(* createWork, one action per kind of trigger.                             *)

CreateImmediateWork(t, g, r) ==
  /\ tasks[t].status = "absent"
  /\ g.kind = "immediate"
  /\ runs[r].status = "absent"
  /\ tasks' = [tasks EXCEPT ![t] = [NoTask EXCEPT !.status = "active", !.revision = 1]]
  /\ runs' = [runs EXCEPT ![r] = [QueuedRun(t, "immediate", None) EXCEPT !.revision = 1]]
  /\ UNCHANGED <<schedules, now>>

\* The first trigger time is the caller's, past or future.
CreateScheduledWork(t, g, at) ==
  /\ tasks[t].status = "absent"
  /\ g.kind # "immediate"
  /\ tasks' = [tasks EXCEPT ![t] = [NoTask EXCEPT !.status = "active", !.revision = 1]]
  /\ schedules' = [schedules EXCEPT ![t] =
       [status |-> "enabled", kind |-> g.kind, nextRunAt |-> at,
        runCount |-> 0, maxRuns |-> g.maxRuns]]
  /\ UNCHANGED <<runs, now>>

-----------------------------------------------------------------------------
(* createDueWorkRun.                                                       *)

IsDue(t) ==
  /\ schedules[t].status = "enabled"
  /\ schedules[t].nextRunAt # None
  /\ schedules[t].nextRunAt <= now

\* A run already stands for this trigger time: the method returns it and
\* leaves the schedule as it is.
AlreadyFired(t) == \E r \in FiredRuns(t) : runs[r].scheduledFor = schedules[t].nextRunAt

FiredRun(t) ==
  QueuedRun(t, IF schedules[t].kind = "recurring" THEN "recurrence" ELSE "schedule",
            schedules[t].nextRunAt)

\* Mutant: the budget is one run too large.
FiredSchedule_OffByOne(s) ==
  LET counted == Counted(s)
      spent == \/ s.kind = "scheduled_once"
               \/ s.maxRuns # None /\ counted.runCount > s.maxRuns
  IN IF spent THEN [counted EXCEPT !.status = "completed", !.nextRunAt = None]
              ELSE [counted EXCEPT !.nextRunAt = @ + Interval]

\* Mutant: the run is inserted and the schedule is not advanced.
FiredSchedule_NotAdvanced(s) == Counted(s)

FiredSchedule(s) ==
  LET counted == Counted(s)
      spent == \/ s.kind = "scheduled_once"
               \/ s.maxRuns # None /\ counted.runCount >= s.maxRuns
  IN IF spent THEN [counted EXCEPT !.status = "completed", !.nextRunAt = None]
              ELSE [counted EXCEPT !.nextRunAt = @ + Interval]

CreateDueWorkRun(t, r) ==
  /\ IsDue(t)
  /\ ~AlreadyFired(t)
  /\ runs[r].status = "absent"
  /\ runs' = [runs EXCEPT ![r] = FiredRun(t)]
  /\ schedules' = [schedules EXCEPT ![t] = FiredSchedule(@)]
  /\ UNCHANGED <<tasks, now>>

-----------------------------------------------------------------------------
(* retryWorkRun: a new queued run beside the failed one.                   *)

\* Mutant: a failed run can be retried beside another run of the task.
MayRetry_Beside(r) ==
  /\ runs[r].status = "failed"
  /\ tasks[runs[r].task].status = "active"

\* Mutant: a failed run of a closed task can be retried.
MayRetry_Closed(r) ==
  /\ runs[r].status = "failed"
  /\ ActiveRunsOf(runs[r].task) = {}

MayRetry(r) ==
  /\ runs[r].status = "failed"
  /\ tasks[runs[r].task].status = "active"
  /\ ActiveRunsOf(runs[r].task) = {}

RetriedRun(r) == QueuedRun(runs[r].task, "retry", runs[r].scheduledFor)

RetryWorkRun(r, new) ==
  /\ MayRetry(r)
  /\ runs[new].status = "absent"
  /\ runs' = [runs EXCEPT ![new] = RetriedRun(r)]
  /\ schedules' = [schedules EXCEPT ![runs[r].task] = Counted(@)]
  /\ UNCHANGED <<tasks, now>>

-----------------------------------------------------------------------------
(* reviseWorkTask: from Chat (src = None) or from a run that is not over.  *)

MayRevise(t, src) ==
  /\ tasks[t].status = "active"
  /\ tasks[t].revision < MaxRevision
  /\ src # None => src \in ActiveRunsOf(t)

ReviseWorkTask(t, src) ==
  /\ MayRevise(t, src)
  /\ tasks' = [tasks EXCEPT ![t].revision = @ + 1]
  /\ runs' = IF src = None THEN runs
             ELSE [runs EXCEPT ![src].revision = tasks[t].revision + 1]
  /\ UNCHANGED <<schedules, now>>

-----------------------------------------------------------------------------
(* moveWorkSchedule.  schedule.pause and schedule.resume are its callers;   *)
(* schedule.cancel goes through cancelWorkTask.                            *)

TaskAfterScheduleMove(t, to) ==
  IF to = "canceled" THEN [tasks[t] EXCEPT !.status = "canceled"] ELSE tasks[t]

MoveWorkSchedule(t, to) ==
  /\ <<schedules[t].status, to>> \in ScheduleTransitions
  /\ schedules' = [schedules EXCEPT ![t].status = to]
  /\ tasks' = [tasks EXCEPT ![t] = TaskAfterScheduleMove(t, to)]
  /\ UNCHANGED <<runs, now>>

-----------------------------------------------------------------------------
(* cancelWorkTask, archiveWorkTask, restoreWorkTask.                       *)

\* Mutant: a paused schedule survives the cancellation of its task.
CanceledSchedule_KeepsPaused(s) ==
  IF s.status = "enabled" THEN [s EXCEPT !.status = "canceled", !.nextRunAt = None] ELSE s

CanceledSchedule(s) ==
  IF s.status \in LiveSchedule THEN [s EXCEPT !.status = "canceled", !.nextRunAt = None]
                               ELSE s

MayCancel(t) == tasks[t].status \in {"active", "completed", "canceled"}

\* Mutant: canceling a task also cancels the runs that already ended.
CancelWorkTask_AllRuns(t) ==
  /\ MayCancel(t)
  /\ tasks' = [tasks EXCEPT ![t].status = "canceled"]
  /\ schedules' = [schedules EXCEPT ![t] = CanceledSchedule(@)]
  /\ runs' = [r \in RunIds |-> IF r \in RunsOf(t)
                               THEN [runs[r] EXCEPT !.status = "canceled"]
                               ELSE runs[r]]
  /\ UNCHANGED now

CancelWorkTask(t) ==
  /\ MayCancel(t)
  /\ tasks' = [tasks EXCEPT ![t].status = "canceled"]
  /\ schedules' = [schedules EXCEPT ![t] = CanceledSchedule(@)]
  /\ runs' = [r \in RunIds |-> IF r \in ActiveRunsOf(t)
                               THEN [runs[r] EXCEPT !.status = "canceled"]
                               ELSE runs[r]]
  /\ UNCHANGED now

\* Mutant: the status to restore is not remembered.
ArchiveWorkTask_Forgets(t) ==
  /\ tasks[t].status \in {"completed", "canceled"}
  /\ tasks' = [tasks EXCEPT ![t].status = "archived"]
  /\ UNCHANGED <<schedules, runs, now>>

ArchiveWorkTask(t) ==
  /\ tasks[t].status \in {"completed", "canceled"}
  /\ tasks' = [tasks EXCEPT ![t].status = "archived",
                            ![t].archivedFrom = tasks[t].status]
  /\ UNCHANGED <<schedules, runs, now>>

RestoreWorkTask(t) ==
  /\ tasks[t].status = "archived"
  /\ tasks' = [tasks EXCEPT ![t].status = tasks[t].archivedFrom]
  /\ UNCHANGED <<schedules, runs, now>>

-----------------------------------------------------------------------------
(* moveWorkRun: a terminal status also settles the task and its schedule.  *)

\* isOneShotWork.  Only the run createWork inserts carries its task's createdAt.
OneShot(t) ==
  IF HasSchedule(t) THEN schedules[t].kind = "scheduled_once"
  ELSE \E r \in RunsOf(t) : runs[r].triggeredBy = "immediate"

\* scheduleRunCount: the larger of the counter and the runs there are.
RunCount(t) ==
  LET n == Cardinality(RunsOf(t))
  IN IF schedules[t].runCount > n THEN schedules[t].runCount ELSE n

\* finalRunShouldCloseWork.
ClosesWork(t) ==
  \/ OneShot(t)
  \/ schedules[t].maxRuns # None /\ RunCount(t) >= schedules[t].maxRuns

TaskStatusAfter(to) ==
  CASE to = "done" -> "completed" [] to = "canceled" -> "canceled" [] OTHER -> "active"

SettledTask(t, to) ==
  IF ClosesWork(t) THEN [tasks[t] EXCEPT !.status = TaskStatusAfter(to)] ELSE tasks[t]

SettledSchedule(t) ==
  LET counted == [schedules[t] EXCEPT !.runCount = RunCount(t)]
  IN IF ~HasSchedule(t) THEN schedules[t]
     ELSE IF ClosesWork(t) THEN [counted EXCEPT !.status = "completed", !.nextRunAt = None]
     ELSE counted

MoveWorkRun(r, to) ==
  LET t == runs[r].task
  IN /\ <<runs[r].status, to>> \in RunTransitions
     /\ runs' = [runs EXCEPT ![r].status = to]
     /\ IF to \in TerminalRun
        THEN /\ tasks' = [tasks EXCEPT ![t] = SettledTask(t, to)]
             /\ schedules' = [schedules EXCEPT ![t] = SettledSchedule(t)]
        ELSE UNCHANGED <<tasks, schedules>>
     /\ UNCHANGED now

-----------------------------------------------------------------------------
Init ==
  /\ tasks = [t \in Tasks |-> NoTask]
  /\ schedules = [t \in Tasks |-> NoSchedule]
  /\ runs = [r \in RunIds |-> NoRun]
  /\ now = 0

Tick == now < MaxTime /\ now' = now + 1 /\ UNCHANGED <<tasks, schedules, runs>>

Next ==
  \/ \E t \in Tasks, g \in Triggers, r \in RunIds : CreateImmediateWork(t, g, r)
  \/ \E t \in Tasks, g \in Triggers, at \in 0 .. MaxTime : CreateScheduledWork(t, g, at)
  \/ \E t \in Tasks, r \in RunIds : CreateDueWorkRun(t, r)
  \/ \E r, new \in RunIds : RetryWorkRun(r, new)
  \/ \E t \in Tasks, src \in RunIds \cup {None} : ReviseWorkTask(t, src)
  \/ \E t \in Tasks, to \in {"paused", "enabled"} : MoveWorkSchedule(t, to)
  \/ \E t \in Tasks : CancelWorkTask(t)
  \/ \E t \in Tasks : ArchiveWorkTask(t)
  \/ \E t \in Tasks : RestoreWorkTask(t)
  \/ \E r \in RunIds, to \in ActiveRun \cup TerminalRun : MoveWorkRun(r, to)
  \/ Tick

Spec == Init /\ [][Next]_vars
-----------------------------------------------------------------------------
(* What the service promises as long as its operations do not overlap.     *)

\* Every row has the columns of its table; in particular an archived task
\* remembers the status it is restored to.
TypeOK ==
  /\ tasks \in [Tasks -> TaskRows]
  /\ schedules \in [Tasks -> ScheduleRows]
  /\ runs \in [RunIds -> RunRows]
  /\ now \in 0 .. MaxTime

\* A schedule that can still fire, now or once it is resumed, belongs to an
\* active task: cancelWorkTask ends the task's schedule with it and the final
\* run that closes a task completes it, so createDueWorkRun never queues work
\* for a task that is over although it does not look at the task's status.
LiveScheduleOfActiveTask ==
  \A t \in Tasks : schedules[t].status \in LiveSchedule => tasks[t].status = "active"

\* A schedule that is not over has a next trigger time, and that time is later
\* than every time it already fired for.  Were it not, createDueWorkRun would
\* find the old run, return it and never advance the schedule again.
LiveScheduleWillFire ==
  \A t \in Tasks : schedules[t].status \in LiveSchedule =>
     /\ schedules[t].nextRunAt # None
     /\ \A r \in FiredRuns(t) : runs[r].scheduledFor < schedules[t].nextRunAt

\* The counter every budget decision reads is the number of runs there are.
RunCountIsExact ==
  \A t \in Tasks : HasSchedule(t) => schedules[t].runCount = Cardinality(RunsOf(t))

\* A schedule fires at most maxRuns times, whatever is retried in between.
TriggerBudget ==
  \A t \in Tasks : schedules[t].maxRuns # None =>
     Cardinality(FiredRuns(t)) <= schedules[t].maxRuns

\* Work that runs once has one run in progress at a time, and none once its
\* task is completed, canceled or archived: retryWorkRun may add runs, but
\* never beside a live one and never to a closed task.
OneShotExclusive ==
  \A t \in Tasks : schedules[t].kind # "recurring" =>
     /\ \A r, s \in ActiveRunsOf(t) : r = s
     /\ tasks[t].status \in ClosedTask => ActiveRunsOf(t) = {}

\* done, failed and canceled are the last status of a run: a retry is a new
\* run, and canceling a task leaves the runs that already ended alone.
TerminalRunIsFinal ==
  [][\A r \in RunIds : runs[r].status \in TerminalRun =>
       runs'[r].status = runs[r].status]_vars

\* completed and canceled are the last status of a schedule: no pause, resume,
\* cancellation or late run brings it back.
EndedScheduleIsFinal ==
  [][\A t \in Tasks : schedules[t].status \in {"completed", "canceled"} =>
       schedules'[t].status = schedules[t].status]_vars

\* Work that runs once and was completed, canceled or archived never becomes
\* active again; restoring it leads back to the status it was archived from.
ClosedOneShotStaysClosed ==
  [][\A t \in Tasks :
       tasks[t].status \in ClosedTask /\ schedules[t].kind # "recurring"
         => tasks'[t].status \in ClosedTask]_vars

-----------------------------------------------------------------------------
(* What the proofs of these properties rest on (WorkLifecycle_proofs).     *)

\* The rows refer to each other: an archived task knows where it came from, a
\* schedule and a run have a task, a fired run has its trigger time.
RowsRelated ==
  /\ \A t \in Tasks : tasks[t].status = "archived" => tasks[t].archivedFrom # None
  /\ \A t \in Tasks : HasSchedule(t) =>
       tasks[t].status # "absent" /\ schedules[t].kind # "immediate"
  /\ \A r \in RunIds : runs[r].status # "absent" =>
       /\ runs[r].task \in Tasks
       /\ tasks[runs[r].task].status # "absent"
  /\ \A r \in RunIds : runs[r].triggeredBy \in {"schedule", "recurrence"} =>
       runs[r].scheduledFor # None

\* A schedule is canceled only together with its task and all the task's runs.
CanceledScheduleIsDone ==
  \A t \in Tasks : schedules[t].status = "canceled" =>
    /\ tasks[t].status # "active"
    /\ ActiveRunsOf(t) = {}

\* A once-only schedule that is not over has no run yet.
OnceScheduleIsFresh ==
  \A t \in Tasks :
    schedules[t].kind = "scheduled_once" /\ schedules[t].status \in LiveSchedule
      => RunsOf(t) = {}

\* A schedule that is not over has a firing left.
LiveScheduleHasBudget ==
  \A t \in Tasks :
    schedules[t].status \in LiveSchedule /\ schedules[t].maxRuns # None
      => Cardinality(FiredRuns(t)) < schedules[t].maxRuns

-----------------------------------------------------------------------------
(* What the documents say and the service does not do for work with a      *)
(* bounded number of runs (checked as violations).                         *)

\* docs/product/tasks.md: "Active Work must be completed or canceled before
\* archive": an archived task has no run that is still going to be executed.
ArchivedTaskIsIdle ==
  \A t \in Tasks : tasks[t].status = "archived" => ActiveRunsOf(t) = {}

\* docs/product/work-system.md: a bounded schedule "becomes `completed` when its
\* trigger budget is consumed": a completed recurring schedule fired maxRuns times.
CompletedScheduleSpentItsBudget ==
  \A t \in Tasks :
     schedules[t].status = "completed" /\ schedules[t].kind = "recurring"
       => Cardinality(FiredRuns(t)) = schedules[t].maxRuns
=============================================================================
