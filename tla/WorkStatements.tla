---------------------------- MODULE WorkStatements ----------------------------
(***************************************************************************)
(* The operations of the Work service as PostgreSQL sees them              *)
(* (src/src/work/work-service.ts over postgres-work-repository.ts).        *)
(*                                                                         *)
(* Every call opens a repository of its own: it reads the tables one       *)
(* SELECT after the other into a snapshot, decides on the snapshot alone,  *)
(* and queues statements that run one by one, each in a transaction of its *)
(* own.  Nothing joins the reads to the writes, so calls interleave at     *)
(* every statement; an UPDATE writes the columns of the row the call read. *)
(*                                                                         *)
(* What a call decides is WorkLifecycle evaluated on its snapshot,         *)
(* Snap(c)!...; this module adds only the reading and the writing.         *)
(***************************************************************************)
EXTENDS Integers, Sequences, FiniteSets, SequencesExt

CONSTANTS
  Tasks, RunIds, Triggers, Interval, MaxTime, MaxRevision, None,
  Callers,     \* calls that are under way at the same time
  Schedulers,  \* the callers that are the control plane's tick loop
  MaxCalls,    \* bound: this many calls are made
  Crashes      \* whether the process may die and lose the queued statements

\* One loop ticks, and skips a tick while it is running.
ASSUME CallersAssumption ==
  /\ Schedulers \subseteq Callers /\ \A c, d \in Schedulers : c = d
  /\ Crashes \in BOOLEAN /\ MaxCalls \in Nat

\* What WorkLifecycle assumes; a task begins with revision 1.
ASSUME TriggersAssumption ==
  Triggers \subseteq
    [kind : {"immediate", "scheduled_once", "recurring"}, maxRuns : (Nat \ {0}) \cup {None}]
ASSUME BoundsAssumption ==
  Interval \in Nat \ {0} /\ MaxTime \in Nat /\ MaxRevision \in Nat \ {0}
ASSUME NoneAssumption == None \notin Nat /\ None \notin {"completed", "canceled"}

\* Ids are numbers taken in order, so runs are listed in the order of their ids.
ASSUME RunIdsAssumption == RunIds \subseteq Nat /\ IsFiniteSet(RunIds)

VARIABLES
  db,       \* the tables: [tasks, schedules, runs, revisions]
  snap,     \* snap[c]: the rows caller c has read
  at,       \* at[c]: the time caller c took when it began
  pc,       \* pc[c]: how far caller c has got
  queue,    \* queue[c]: the statements caller c has still to run
  calls,    \* how many calls have begun
  now

vars == <<db, snap, at, pc, queue, calls, now>>

\* The service as caller c sees it, and as the tables are.
Snap(c) == INSTANCE WorkLifecycle
  WITH tasks <- snap[c].tasks, schedules <- snap[c].schedules, runs <- snap[c].runs, now <- at[c]
Tables == INSTANCE WorkLifecycle
  WITH tasks <- db.tasks, schedules <- db.schedules, runs <- db.runs

-----------------------------------------------------------------------------
(* The statements.                                                         *)

Statement(do, id, row) == [do |-> do, id |-> id, row |-> row]

\* What the repository's methods queue, each with the row its caller holds.
InsertSchedule(t, row) == Statement("insertSchedule", t, row)
UpdateTask(t, row) == Statement("updateTask", t, row)
UpdateSchedule(t, row) == Statement("updateSchedule", t, row)
UpdateRun(r, status) == Statement("updateRun", r, status)

\* reviseWorkTask: UNIQUE (work_task_id, revision).
\* postgres-schema.ts: CHECK (status <> 'enabled' OR next_run_at IS NOT NULL).
Rejected(s, tables) ==
  \/ s.do = "revise" /\ <<s.id, s.row.revision>> \in tables.revisions
  \/ s.do = "updateSchedule" /\ s.row.status = "enabled" /\ s.row.nextRunAt = None

\* reviseWorkTask is one statement over three tables.
\* Mutant: the revision row is not part of it.
Revised_NoHistory(tables, t, row) ==
  [tables EXCEPT !.tasks[t].revision = row.revision,
                 !.runs = [r \in RunIds |-> IF r = row.source
                             THEN [@[r] EXCEPT !.revision = row.revision] ELSE @[r]]]

Revised(tables, t, row) ==
  [tables EXCEPT !.tasks[t].revision = row.revision,
                 !.runs = [r \in RunIds |-> IF r = row.source
                             THEN [@[r] EXCEPT !.revision = row.revision] ELSE @[r]],
                 !.revisions = @ \cup {<<t, row.revision>>}]

\* updateWorkRun leaves task_revision, triggered_by and scheduled_for alone;
\* the UPDATE of run_count finds no row for a task without schedule.
Applied(tables, s) ==
  CASE s.do \in {"insertTask", "updateTask"} -> [tables EXCEPT !.tasks[s.id] = s.row]
    [] s.do \in {"insertSchedule", "updateSchedule"} -> [tables EXCEPT !.schedules[s.id] = s.row]
    [] s.do = "insertRevision" -> [tables EXCEPT !.revisions = @ \cup {<<s.id, s.row>>}]
    [] s.do = "insertRun" -> [tables EXCEPT !.runs[s.id] = s.row]
    [] s.do = "countRun" -> IF tables.schedules[s.id].status = "absent" THEN tables
                            ELSE [tables EXCEPT !.schedules[s.id].runCount = @ + 1]
    [] s.do = "updateRun" -> [tables EXCEPT !.runs[s.id].status = s.row]
    [] s.do = "revise" -> Revised(tables, s.id, s.row)

\* createWorkRun queues the increment of the schedule before the INSERT.
\* Mutant: the increment is left to the callers, and retryWorkRun has none.
CreateWorkRun_Uncounted(r, row) == <<Statement("insertRun", r, row)>>

CreateWorkRun(r, row) ==
  <<Statement("countRun", row.task, None), Statement("insertRun", r, row)>>

-----------------------------------------------------------------------------
(* WorkRepository.open: one SELECT per table.  Revisions and events are    *)
(* read too; no decision depends on them.                                  *)

ReadTables(c) ==
  \/ /\ pc[c] = "idle"
     /\ calls < MaxCalls
     /\ calls' = calls + 1
     /\ snap' = [snap EXCEPT ![c].tasks = db.tasks]
     /\ at' = [at EXCEPT ![c] = now]
     /\ pc' = [pc EXCEPT ![c] = "tasksRead"]
     /\ UNCHANGED <<db, queue, now>>
  \/ /\ pc[c] = "tasksRead"
     /\ snap' = [snap EXCEPT ![c].schedules = db.schedules]
     /\ pc' = [pc EXCEPT ![c] = "schedulesRead"]
     /\ UNCHANGED <<db, at, queue, calls, now>>
  \/ /\ pc[c] = "schedulesRead"
     /\ snap' = [snap EXCEPT ![c].runs = db.runs]
     /\ pc' = [pc EXCEPT ![c] = "read"]
     /\ UNCHANGED <<db, at, queue, calls, now>>

NoTables ==
  [tasks |-> [t \in Tasks |-> Tables!NoTask],
   schedules |-> [t \in Tasks |-> Tables!NoSchedule],
   runs |-> [r \in RunIds |-> Tables!NoRun],
   revisions |-> {}]

\* Every method ends here: with statements to run, or without (an early return,
\* a guard that throws, a member the directory does not know).
Queue(c, statements) ==
  /\ pc[c] = "read"
  /\ queue' = [queue EXCEPT ![c] = statements]
  /\ snap' = [snap EXCEPT ![c] = NoTables]
  /\ at' = [at EXCEPT ![c] = 0]
  /\ pc' = [pc EXCEPT ![c] = IF statements = <<>> THEN "idle" ELSE "writing"]
  /\ UNCHANGED <<db, calls, now>>

GiveUp(c) == Queue(c, <<>>)

\* createId: ids are never taken twice.
Queued(do, id) ==
  \E c \in Callers : \E i \in DOMAIN queue[c] : queue[c][i].do = do /\ queue[c][i].id = id
UsedRun(r) == db.runs[r].status # "absent" \/ Queued("insertRun", r)
FreshRun(r) == ~UsedRun(r) /\ \A q \in RunIds : q < r => UsedRun(q)
FreshTask(t) == db.tasks[t].status = "absent" /\ ~Queued("insertTask", t)

-----------------------------------------------------------------------------
(* The methods: what each decides on its snapshot.                         *)

\* A task inserted between two SELECTs is missing beside its schedule or run.
SeesTask(c, t) == snap[c].tasks[t].status # "absent"

NewTask == [status |-> "active", archivedFrom |-> None, revision |-> 1]

InsertTask(t) == <<Statement("insertTask", t, NewTask), Statement("insertRevision", t, 1)>>

CreateImmediateWork(c, t, g, r) ==
  /\ FreshTask(t) /\ FreshRun(r)
  /\ g.kind = "immediate"
  /\ Queue(c, InsertTask(t) \o
       CreateWorkRun(r, [Snap(c)!QueuedRun(t, "immediate", None) EXCEPT !.revision = 1]))

CreateScheduledWork(c, t, g, first) ==
  /\ FreshTask(t)
  /\ g.kind # "immediate"
  /\ Queue(c, InsertTask(t) \o
       <<InsertSchedule(t,
           [status |-> "enabled", kind |-> g.kind, nextRunAt |-> first,
            runCount |-> 0, maxRuns |-> g.maxRuns])>>)

\* Mutant: no look for a run that already stands for this trigger time.
CreateDueWorkRun_NoLook(c, t, r) ==
  /\ c \in Schedulers
  /\ Snap(c)!IsDue(t)
  /\ SeesTask(c, t)
  /\ FreshRun(r)
  /\ Queue(c, CreateWorkRun(r, Snap(c)!FiredRun(t)) \o
       <<UpdateSchedule(t, Snap(c)!FiredSchedule(snap[c].schedules[t]))>>)

CreateDueWorkRun(c, t, r) ==
  /\ c \in Schedulers
  /\ Snap(c)!IsDue(t)
  /\ SeesTask(c, t)
  /\ ~Snap(c)!AlreadyFired(t)
  /\ FreshRun(r)
  /\ Queue(c, CreateWorkRun(r, Snap(c)!FiredRun(t)) \o
       <<UpdateSchedule(t, Snap(c)!FiredSchedule(snap[c].schedules[t]))>>)

RetryWorkRun(c, r, new) ==
  /\ Snap(c)!MayRetry(r)
  /\ FreshRun(new)
  /\ Queue(c, CreateWorkRun(new, Snap(c)!RetriedRun(r)) \o
       <<UpdateTask(snap[c].runs[r].task, snap[c].tasks[snap[c].runs[r].task])>>)

ReviseWorkTask(c, t, src) ==
  /\ Snap(c)!MayRevise(t, src)
  /\ Queue(c, <<Statement("revise", t,
                  [revision |-> snap[c].tasks[t].revision + 1, source |-> src])>>)

MoveWorkSchedule(c, t, to) ==
  /\ <<snap[c].schedules[t].status, to>> \in Snap(c)!ScheduleTransitions
  /\ Queue(c, <<UpdateSchedule(t, [snap[c].schedules[t] EXCEPT !.status = to])>>)

\* The one sequence that lists the runs of S in order.
InOrder(S) ==
  {seq \in [1 .. Cardinality(S) -> S] : \A i, j \in DOMAIN seq : i < j => seq[i] < seq[j]}

\* The task first, then its schedule, then its runs.
CancelWorkTask(c, t) ==
  LET schedule == snap[c].schedules[t]
  IN /\ Snap(c)!MayCancel(t)
     /\ \E active \in InOrder(Snap(c)!ActiveRunsOf(t)) :
          Queue(c, <<UpdateTask(t, [snap[c].tasks[t] EXCEPT !.status = "canceled"])>>
            \o (IF schedule.status \in Snap(c)!LiveSchedule
                THEN <<UpdateSchedule(t, Snap(c)!CanceledSchedule(schedule))>>
                ELSE <<>>)
            \o [i \in DOMAIN active |-> UpdateRun(active[i], "canceled")])

ArchiveWorkTask(c, t) ==
  LET task == snap[c].tasks[t]
  IN /\ task.status \in {"completed", "canceled"}
     /\ Queue(c, <<UpdateTask(t,
                     [task EXCEPT !.status = "archived", !.archivedFrom = task.status])>>)

RestoreWorkTask(c, t) ==
  LET task == snap[c].tasks[t]
  IN /\ task.status = "archived"
     /\ Queue(c, <<UpdateTask(t, [task EXCEPT !.status = task.archivedFrom])>>)

MoveWorkRun(c, r, to) ==
  LET t == snap[c].runs[r].task
  IN /\ <<snap[c].runs[r].status, to>> \in Snap(c)!RunTransitions
     /\ Queue(c, <<UpdateRun(r, to)>> \o
          IF to \notin Snap(c)!TerminalRun \/ ~SeesTask(c, t) THEN <<>>
          ELSE <<UpdateTask(t, Snap(c)!SettledTask(t, to))>> \o
            IF Snap(c)!HasSchedule(t)
            THEN <<UpdateSchedule(t, Snap(c)!SettledSchedule(t))>>
            ELSE <<>>)

-----------------------------------------------------------------------------
\* The next statement of the chain; a rejected one skips the rest.
Execute(c) ==
  LET s == Head(queue[c])
      rest == IF Rejected(s, db) THEN <<>> ELSE Tail(queue[c])
  IN /\ pc[c] = "writing"
     /\ db' = IF Rejected(s, db) THEN db ELSE Applied(db, s)
     /\ queue' = [queue EXCEPT ![c] = rest]
     /\ pc' = [pc EXCEPT ![c] = IF rest = <<>> THEN "idle" ELSE "writing"]
     /\ UNCHANGED <<snap, at, calls, now>>

\* The process dies; what was not executed is lost.
Crash ==
  /\ Crashes
  /\ queue' = [c \in Callers |-> <<>>]
  /\ pc' = [c \in Callers |-> "idle"]
  /\ snap' = [c \in Callers |-> NoTables]
  /\ at' = [c \in Callers |-> 0]
  /\ UNCHANGED <<db, calls, now>>

Tick == now < MaxTime /\ now' = now + 1 /\ UNCHANGED <<db, snap, at, pc, queue, calls>>

Init ==
  /\ db = NoTables
  /\ snap = [c \in Callers |-> NoTables]
  /\ at = [c \in Callers |-> 0]
  /\ pc = [c \in Callers |-> "idle"]
  /\ queue = [c \in Callers |-> <<>>]
  /\ calls = 0
  /\ now = 0

Decide(c) ==
  \/ \E t \in Tasks, g \in Triggers, r \in RunIds : CreateImmediateWork(c, t, g, r)
  \/ \E t \in Tasks, g \in Triggers, first \in 0 .. MaxTime : CreateScheduledWork(c, t, g, first)
  \/ \E t \in Tasks, r \in RunIds : CreateDueWorkRun(c, t, r)
  \/ \E r, new \in RunIds : RetryWorkRun(c, r, new)
  \/ \E t \in Tasks, src \in RunIds \cup {None} : ReviseWorkTask(c, t, src)
  \/ \E t \in Tasks, to \in {"paused", "enabled"} : MoveWorkSchedule(c, t, to)
  \/ \E t \in Tasks : CancelWorkTask(c, t)
  \/ \E t \in Tasks : ArchiveWorkTask(c, t)
  \/ \E t \in Tasks : RestoreWorkTask(c, t)
  \/ \E r \in RunIds, to \in Snap(c)!ActiveRun \cup Snap(c)!TerminalRun : MoveWorkRun(c, r, to)
  \/ GiveUp(c)

Next ==
  \/ \E c \in Callers : ReadTables(c)
  \/ \E c \in Callers : pc[c] = "read" /\ Decide(c)
  \/ \E c \in Callers : Execute(c)
  \/ Crash
  \/ Tick

Spec == Init /\ [][Next]_vars
-----------------------------------------------------------------------------
(* One call at a time: the statements add up to the atomic methods.        *)

\* The tables once the statements of the call under way have run.
WhenDone == FoldLeft(Applied, db, queue[CHOOSE c \in Callers : TRUE])

Lifecycle == INSTANCE WorkLifecycle
  WITH tasks <- WhenDone.tasks, schedules <- WhenDone.schedules, runs <- WhenDone.runs

\* With one caller and no crash, every method has the effect WorkLifecycle gives
\* it in one step: the reads, the whole-row updates and the separate increment
\* of run_count lose and repeat nothing.
ImplementsLifecycle == Lifecycle!Spec

-----------------------------------------------------------------------------
(* Calls that overlap, and crashes: what still holds.                      *)

\* Rows, snapshots and queues have their types.
TypeOK ==
  /\ Tables!TypeOK
  /\ db.revisions \subseteq Tasks \X (1 .. MaxRevision)
  /\ \A c \in Callers : Snap(c)!TypeOK
  /\ pc \in [Callers -> {"idle", "tasksRead", "schedulesRead", "read", "writing"}]
  /\ \A c \in Callers : (queue[c] # <<>>) <=> (pc[c] = "writing")

\* A trigger time has one run at most.  Stale rows may take nextRunAt back to a
\* time that already fired, and a crash may leave it there; createDueWorkRun
\* then finds the run of that time instead of queueing it again.
OneRunPerTriggerTime ==
  \A t \in Tasks : \A r, s \in Tables!FiredRuns(t) :
    db.runs[r].scheduledFor = db.runs[s].scheduledFor => r = s

\* A schedule fires at most maxRuns times, although both its counter and its
\* status can be taken back by a row read before the last firing.
TriggerBudget == Tables!TriggerBudget

\* The objective a run is executed against is a revision that was confirmed: it
\* has its row in work_task_revisions, whichever calls and crashes came between.
RunRevisionWasConfirmed ==
  \A r \in RunIds : db.runs[r].status # "absent" =>
    <<db.runs[r].task, db.runs[r].revision>> \in db.revisions

-----------------------------------------------------------------------------
(* What the documents say and overlapping calls do not keep.               *)

\* docs/product/work-system.md: "Canceling a Task or active WorkRun first makes
\* `canceled` authoritative": a canceled run stays canceled.
CanceledRunStaysCanceled ==
  [][\A r \in RunIds : db.runs[r].status = "canceled" => db'.runs[r].status = "canceled"]_vars

\* docs/product/work-system.md: "Future WorkRuns snapshot the latest confirmed
\* Task revision": once no call is under way, what the next run will copy from
\* its active task is the last revision.
TaskHoldsLatestRevision ==
  (\A c \in Callers : pc[c] = "idle") =>
    \A t \in Tasks : \A n \in 1 .. MaxRevision :
      db.tasks[t].status = "active" /\ <<t, n>> \in db.revisions => n <= db.tasks[t].revision
=============================================================================
