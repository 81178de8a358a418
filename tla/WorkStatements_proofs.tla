------------------------- MODULE WorkStatements_proofs -------------------------
(***************************************************************************)
(* Proofs about WorkStatements: what overlapping calls of the Work service *)
(* and crashes cannot break, for any number of callers, tasks and runs.    *)
(***************************************************************************)
EXTENDS WorkStatements, FiniteSetTheorems, FunctionTheorems, SequenceTheorems, TLAPS

-----------------------------------------------------------------------------
(* The shapes of the variables.                                            *)

Kinds == {"immediate", "scheduled_once", "recurring"}
FiredBy == {"schedule", "recurrence"}
Live == {"enabled", "paused"}
RunStates == {"queued", "in_progress", "blocked", "done", "failed", "canceled"}

TaskRows ==
  [status : {"absent", "active", "completed", "canceled", "archived"},
   archivedFrom : {None, "completed", "canceled"}, revision : Nat]
ScheduleRows ==
  [status : {"absent", "completed", "canceled", "enabled", "paused"}, kind : Kinds,
   nextRunAt : Nat \cup {None}, runCount : Nat, maxRuns : (Nat \ {0}) \cup {None}]
RunRows ==
  [status : {"absent"} \cup RunStates, task : Tasks \cup {None},
   triggeredBy : {"immediate", "schedule", "recurrence", "retry", None},
   scheduledFor : Nat \cup {None}, revision : Nat]

Rows ==
  [tasks : [Tasks -> TaskRows], schedules : [Tasks -> ScheduleRows],
   runs : [RunIds -> RunRows], revisions : SUBSET (Tasks \X (1 .. MaxRevision))]

Statements ==
  [do : {"insertTask", "updateTask"}, id : Tasks, row : TaskRows]
    \cup [do : {"insertSchedule", "updateSchedule"}, id : Tasks, row : ScheduleRows]
    \cup [do : {"insertRevision"}, id : Tasks, row : {1}]
    \cup [do : {"countRun"}, id : Tasks, row : {None}]
    \cup [do : {"insertRun"}, id : RunIds, row : RunRows]
    \cup [do : {"updateRun"}, id : RunIds, row : RunStates]
    \cup [do : {"revise"}, id : Tasks,
          row : [revision : 1 .. MaxRevision, source : RunIds \cup {None}]]

Typed ==
  /\ db \in Rows
  /\ snap \in [Callers -> Rows]
  /\ at \in [Callers -> 0 .. MaxTime]
  /\ pc \in [Callers -> {"idle", "tasksRead", "schedulesRead", "read", "writing"}]
  /\ queue \in [Callers -> Seq(Statements)]
  /\ \A c \in Callers : queue[c] # <<>> <=> pc[c] = "writing"
  /\ now \in 0 .. MaxTime

-----------------------------------------------------------------------------
(* What a row may refer to.  Tables only grow in this respect (Grows), so  *)
(* a row somebody has read, or is about to write, goes on to fit.          *)

Known(d, t) == d.tasks[t].status # "absent"
Confirmed(d, t, n) == <<t, n>> \in d.revisions
Stands(d, r) == d.runs[r].status # "absent"

TaskFits(d, t, row) ==
  /\ row.status = "archived" => row.archivedFrom # None
  /\ row.status # "absent" => Known(d, t) /\ (row.revision = 1 \/ Confirmed(d, t, row.revision))

\* The revision a task begins with is written before its schedule and its runs.
ScheduleFits(d, t, row) ==
  IF row.status = "absent" THEN row.maxRuns = None ELSE Confirmed(d, t, 1)

RunFits(d, row) ==
  row.status # "absent" =>
    /\ row.task \in Tasks
    /\ Confirmed(d, row.task, 1)
    /\ Confirmed(d, row.task, row.revision)
    /\ row.triggeredBy \in FiredBy => row.scheduledFor # None

\* All rows of the tables in "from" fit the tables in d.
RowsFit(d, from) ==
  /\ \A t \in Tasks : TaskFits(d, t, from.tasks[t])
  /\ \A t \in Tasks : ScheduleFits(d, t, from.schedules[t])
  /\ \A r \in RunIds : RunFits(d, from.runs[r])

\* What no statement changes of a run.
SameRun(a, b) ==
  a.task = b.task /\ a.triggeredBy = b.triggeredBy /\ a.scheduledFor = b.scheduledFor

RunsStand(d, from) ==
  \A r \in RunIds : Stands(from, r) => Stands(d, r) /\ SameRun(from.runs[r], d.runs[r])

TablesFit(d) ==
  /\ RowsFit(d, d)
  /\ \A t \in Tasks : Confirmed(d, t, 1) => Known(d, t)

\* What the i-th statement of a queue needs is in the tables or comes before it.
Before(q, i, do, id) == \E j \in 1 .. i - 1 : q[j].do = do /\ q[j].id = id

StatementFits(d, q, i) ==
  LET do == q[i].do
      id == q[i].id
      row == q[i].row
  IN /\ do = "insertTask" => row = NewTask
     /\ do = "updateTask" => row.status # "absent" /\ TaskFits(d, id, row)
     /\ do = "insertRevision" => Known(d, id) \/ Before(q, i, "insertTask", id)
     /\ do = "insertSchedule" =>
          /\ row.status = "enabled"
          /\ Confirmed(d, id, 1) \/ Before(q, i, "insertRevision", id)
     /\ do = "updateSchedule" => row.status # "absent" /\ Confirmed(d, id, 1)
     /\ do = "insertRun" =>
          /\ ~Stands(d, id) /\ row.status = "queued"
          /\ \/ RunFits(d, row)
             \/ /\ row.triggeredBy = "immediate" /\ row.revision = 1 /\ row.task \in Tasks
                /\ Before(q, i, "insertRevision", row.task)
     /\ do = "updateRun" => Stands(d, id)
     /\ do = "revise" =>
          /\ Known(d, id)
          /\ row.source # None => Stands(d, row.source) /\ d.runs[row.source].task = id

QueueFits(d, q) == \A i \in DOMAIN q : StatementFits(d, q, i)

\* An id is taken once.
Inserts(q, i, r) == q[i].do = "insertRun" /\ q[i].id = r
InsertsOnce ==
  \A b, c \in Callers : \A i \in DOMAIN queue[b], j \in DOMAIN queue[c] : \A r \in RunIds :
    Inserts(queue[b], i, r) /\ Inserts(queue[c], j, r) => b = c /\ i = j

-----------------------------------------------------------------------------
(* Trigger times.                                                          *)

Fired(row) == row.status # "absent" /\ row.triggeredBy \in FiredBy
SameFiring(a, b) == a.task = b.task /\ a.scheduledFor = b.scheduledFor
Fires(q, i) == q[i].do = "insertRun" /\ q[i].row.triggeredBy \in FiredBy

\* The caller that decides to fire saw every firing there is.
FiringsFit ==
  /\ \A r, s \in RunIds :
       Fired(db.runs[r]) /\ Fired(db.runs[s]) /\ SameFiring(db.runs[r], db.runs[s]) => r = s
  /\ \A c \in Callers : \A i \in DOMAIN queue[c] : Fires(queue[c], i) =>
       /\ c \in Schedulers
       /\ \A j \in DOMAIN queue[c] : Fires(queue[c], j) => i = j
       /\ \A r \in RunIds : ~(Fired(db.runs[r]) /\ SameFiring(db.runs[r], queue[c][i].row))
  /\ \A c \in Schedulers : pc[c] = "read" =>
       \A r \in RunIds : Fired(db.runs[r]) =>
         Fired(snap[c].runs[r]) /\ SameRun(snap[c].runs[r], db.runs[r])

\* The k-th trigger time of a schedule, counted from 0, and the rows that keep to
\* them: a row that was read earlier is behind with its counter and with its next
\* trigger time alike.
Time(plan, k) == plan.first + k * Interval
InBudget(plan, k) == plan.maxRuns = None \/ k < plan.maxRuns
OnTime(plan, time, k) == time = Time(plan, k) /\ InBudget(plan, k)

ScheduleOnPlan(plan, row) ==
  row.status # "absent" =>
    /\ row.maxRuns = plan.maxRuns
    /\ row.status \in Live => \E k \in Nat : OnTime(plan, row.nextRunAt, k) /\ k <= row.runCount

RunOnPlan(plan, row) == \E k \in Nat : OnTime(plan, row.scheduledFor, k)

Plans == [Tasks -> [first : Nat, maxRuns : (Nat \ {0}) \cup {None}]]

PlanFits(plan) ==
  /\ \A t \in Tasks : ScheduleOnPlan(plan[t], db.schedules[t])
  /\ \A c \in Callers, t \in Tasks : ScheduleOnPlan(plan[t], snap[c].schedules[t])
  /\ \A r \in RunIds : Fired(db.runs[r]) => RunOnPlan(plan[db.runs[r].task], db.runs[r])
  /\ \A c \in Callers : \A i \in DOMAIN queue[c] :
       /\ queue[c][i].do \in {"insertSchedule", "updateSchedule"} =>
            ScheduleOnPlan(plan[queue[c][i].id], queue[c][i].row)
       /\ Fires(queue[c], i) =>
            RunOnPlan(plan[queue[c][i].row.task], queue[c][i].row)

BudgetFits == \E plan \in Plans : PlanFits(plan)

IInv ==
  /\ Typed
  /\ TablesFit(db)
  /\ \A c \in Callers : RowsFit(db, snap[c]) /\ RunsStand(db, snap[c])
  /\ \A c \in Callers : QueueFits(db, queue[c])
  /\ InsertsOnce
  /\ FiringsFit
  /\ BudgetFits

-----------------------------------------------------------------------------
(* The rows the methods write.                                             *)

Raises(row, s) ==
  /\ row.runCount >= s.runCount /\ row.maxRuns = s.maxRuns
  /\ row.status = s.status /\ row.nextRunAt = s.nextRunAt

\* A row whose counter was raised keeps to its plan.
LEMMA RaisedOnPlan ==
  ASSUME NEW plan, NEW s \in ScheduleRows, NEW row \in ScheduleRows, Raises(row, s),
         ScheduleOnPlan(plan, s)
  PROVE  ScheduleOnPlan(plan, row)
<1> SUFFICES ASSUME row.status # "absent" PROVE ScheduleOnPlan(plan, row)
  BY DEF ScheduleOnPlan
<1>1. row.maxRuns = plan.maxRuns
  BY DEF ScheduleOnPlan, Raises
<1>2. ASSUME row.status \in Live
      PROVE  \E k \in Nat : OnTime(plan, row.nextRunAt, k) /\ k <= row.runCount
  <2>1. PICK k \in Nat : OnTime(plan, s.nextRunAt, k) /\ k <= s.runCount
    BY <1>2 DEF ScheduleOnPlan, Raises
  <2>2. OnTime(plan, row.nextRunAt, k)
    BY <2>1 DEF Raises
  <2>3. k <= row.runCount
    BY <2>1 DEF Raises, ScheduleRows
  <2> QED BY <2>2, <2>3
<1> QED BY <1>1, <1>2 DEF ScheduleOnPlan

\* Interval later is the next trigger time.
LEMMA NextTime ==
  ASSUME NEW plan, plan.first \in Nat, NEW k \in Nat
  PROVE  Time(plan, k) + Interval = Time(plan, k + 1)
<1>1. Interval \in Nat
  BY BoundsAssumption
<1>2. (k + 1) * Interval = k * Interval + Interval
  BY <1>1
<1>3. k * Interval \in Nat
  BY <1>1
<1> QED BY <1>1, <1>2, <1>3 DEF Time

\* incrementScheduleRunCount.
LEMMA CountedRow ==
  ASSUME NEW c, NEW s \in ScheduleRows, s.status # "absent"
  PROVE  /\ Snap(c)!Counted(s) = [s EXCEPT !.runCount = s.runCount + 1]
         /\ Snap(c)!Counted(s) \in ScheduleRows
  BY DEF Snap!Counted, ScheduleRows

\* createDueWorkRun: the advanced schedule keeps to the plan, one trigger time further.
LEMMA FiredScheduleRow ==
  ASSUME NEW c, NEW s \in ScheduleRows, s.status = "enabled", s.nextRunAt # None
  PROVE  /\ Snap(c)!FiredSchedule(s) \in ScheduleRows
         /\ Snap(c)!FiredSchedule(s).status # "absent"
         /\ \A plan : plan.first \in Nat /\ ScheduleOnPlan(plan, s) =>
              ScheduleOnPlan(plan, Snap(c)!FiredSchedule(s))
<1> DEFINE counted == Snap(c)!Counted(s)
           spent == s.kind = "scheduled_once" \/ (s.maxRuns # None /\ counted.runCount >= s.maxRuns)
           over == [counted EXCEPT !.status = "completed"]
           row == Snap(c)!FiredSchedule(s)
<1>1. /\ counted \in ScheduleRows /\ counted.status = "enabled" /\ counted.kind = s.kind
      /\ counted.nextRunAt = s.nextRunAt /\ counted.maxRuns = s.maxRuns
      /\ counted.runCount = s.runCount + 1
  BY CountedRow DEF ScheduleRows
<1>2. over \in ScheduleRows /\ over.status = "completed"
  BY <1>1 DEF ScheduleRows, Live
<1>3. row = IF spent THEN [over EXCEPT !.nextRunAt = None]
                     ELSE [counted EXCEPT !.nextRunAt = @ + Interval]
  BY Zenon DEF Snap!FiredSchedule
<1>4. s.nextRunAt \in Nat /\ Interval \in Nat
  BY BoundsAssumption DEF ScheduleRows
<1> HIDE DEF counted, over, row
<1>5. CASE spent
  <2>1. row \in ScheduleRows /\ row.status = "completed" /\ row.maxRuns = over.maxRuns
    BY <1>2, <1>3, <1>5 DEF ScheduleRows
  <2>2. over.maxRuns = s.maxRuns
    BY <1>1 DEF over, ScheduleRows
  <2> QED BY <1>2, <2>1, <2>2 DEF row, ScheduleOnPlan, Live
<1>6. CASE ~spent
  <2>1. /\ row \in ScheduleRows /\ row.status = "enabled" /\ row.maxRuns = s.maxRuns
        /\ row.nextRunAt = s.nextRunAt + Interval /\ row.runCount = s.runCount + 1
    BY <1>1, <1>3, <1>4, <1>6 DEF ScheduleRows
  <2>2. ASSUME NEW plan, plan.first \in Nat, ScheduleOnPlan(plan, s)
        PROVE  ScheduleOnPlan(plan, row)
    <3>1. /\ s.maxRuns = plan.maxRuns
          /\ \E k \in Nat : OnTime(plan, s.nextRunAt, k) /\ k <= s.runCount
      BY <2>2 DEF ScheduleOnPlan, Live
    <3>2. PICK k \in Nat : OnTime(plan, s.nextRunAt, k) /\ k <= s.runCount
      BY <3>1
    <3>3. row.nextRunAt = Time(plan, k + 1)
      BY <2>1, <2>2, <3>2, NextTime DEF OnTime
    <3>4. k + 1 <= row.runCount
      BY <2>1, <3>2 DEF ScheduleRows
    <3>5. s.maxRuns = None \/ s.runCount + 1 < s.maxRuns
      BY <1>1, <1>6 DEF ScheduleRows
    <3>6. InBudget(plan, k + 1)
      BY <2>1, <3>1, <3>2, <3>4, <3>5 DEF InBudget, ScheduleRows
    <3> QED BY <2>1, <3>1, <3>3, <3>4, <3>6 DEF ScheduleOnPlan, OnTime
  <2> QED BY <2>1, <2>2 DEF row
<1> QED BY <1>5, <1>6

\* cancelWorkTask: the canceled schedule keeps to the plan.
LEMMA CanceledScheduleRow ==
  ASSUME NEW c, NEW s \in ScheduleRows, s.status # "absent"
  PROVE  /\ Snap(c)!CanceledSchedule(s) \in ScheduleRows
         /\ Snap(c)!CanceledSchedule(s).status # "absent"
         /\ \A plan : ScheduleOnPlan(plan, s) => ScheduleOnPlan(plan, Snap(c)!CanceledSchedule(s))
<1> DEFINE over == [s EXCEPT !.status = "canceled"]
           row == Snap(c)!CanceledSchedule(s)
<1>1. over \in ScheduleRows /\ over.status = "canceled" /\ over.maxRuns = s.maxRuns
  BY DEF ScheduleRows
<1>2. row = IF s.status \in Live THEN [over EXCEPT !.nextRunAt = None] ELSE s
  BY Zenon DEF Snap!CanceledSchedule, Snap!LiveSchedule, Live
<1> HIDE DEF over, row
<1>3. CASE s.status \in Live
  <2>1. row \in ScheduleRows /\ row.status = "canceled" /\ row.maxRuns = s.maxRuns
    BY <1>1, <1>2, <1>3 DEF ScheduleRows
  <2> QED BY <2>1 DEF row, ScheduleOnPlan, Live
<1>4. CASE s.status \notin Live
  BY <1>2, <1>4 DEF row
<1> QED BY <1>3, <1>4

\* The instance brings its own copy of Cardinality.
LEMMA SnapCardinality ==
  ASSUME NEW c, NEW S
  PROVE  Snap(c)!Cardinality(S) = Cardinality(S)
  BY Zenon DEF Snap!Cardinality, Cardinality

\* scheduleRunCount is never below the counter of the row.
LEMMA RunCountType ==
  ASSUME Typed, NEW c \in Callers, NEW t \in Tasks
  PROVE  Snap(c)!RunCount(t) \in Nat /\ Snap(c)!RunCount(t) >= snap[c].schedules[t].runCount
<1>1. IsFiniteSet(Snap(c)!RunsOf(t))
  BY RunIdsAssumption, FS_Subset DEF Snap!RunsOf
<1>2. Cardinality(Snap(c)!RunsOf(t)) \in Nat
  BY <1>1, FS_CardinalityType
<1>3. snap[c].schedules[t] \in ScheduleRows
  BY DEF Typed, Rows
<1>4. snap[c].schedules[t].runCount \in Nat
  BY <1>3 DEF ScheduleRows
<1> QED BY <1>2, <1>4, SnapCardinality DEF Snap!RunCount

\* moveWorkRun: the settled schedule keeps to the plan.
LEMMA SettledScheduleRow ==
  ASSUME Typed, NEW c \in Callers, NEW t \in Tasks, snap[c].schedules[t].status # "absent"
  PROVE  /\ Snap(c)!SettledSchedule(t) \in ScheduleRows
         /\ Snap(c)!SettledSchedule(t).status # "absent"
         /\ \A plan : ScheduleOnPlan(plan, snap[c].schedules[t]) =>
              ScheduleOnPlan(plan, Snap(c)!SettledSchedule(t))
<1> DEFINE s == snap[c].schedules[t]
           n == Snap(c)!RunCount(t)
           counted == [s EXCEPT !.runCount = n]
           over == [counted EXCEPT !.status = "completed"]
           row == Snap(c)!SettledSchedule(t)
<1>1. s \in ScheduleRows
  BY DEF Typed, Rows
<1>2. n \in Nat /\ n >= s.runCount
  BY RunCountType
<1>3. row = IF Snap(c)!ClosesWork(t) THEN [over EXCEPT !.nextRunAt = None] ELSE counted
  BY Zenon DEF Snap!SettledSchedule, Snap!HasSchedule
<1> HIDE DEF n, row
<1>4. counted \in ScheduleRows /\ Raises(counted, s)
  BY <1>1, <1>2 DEF ScheduleRows, Raises
<1> HIDE DEF counted
<1>5. over \in ScheduleRows /\ over.status = "completed" /\ over.maxRuns = s.maxRuns
  BY <1>4 DEF ScheduleRows, Raises
<1> HIDE DEF over
<1>6. CASE Snap(c)!ClosesWork(t)
  <2>1. row \in ScheduleRows /\ row.status = "completed" /\ row.maxRuns = s.maxRuns
    BY <1>3, <1>5, <1>6 DEF ScheduleRows
  <2> QED BY <2>1 DEF row, ScheduleOnPlan, Live
<1>7. CASE ~Snap(c)!ClosesWork(t)
  <2>1. row = counted
    BY <1>3, <1>7
  <2>2. \A plan : ScheduleOnPlan(plan, s) => ScheduleOnPlan(plan, counted)
    BY <1>1, <1>4, RaisedOnPlan
  <2>3. counted.status # "absent"
    BY <1>4 DEF Raises
  <2> QED BY <1>4, <2>1, <2>2, <2>3 DEF row
<1> QED BY <1>6, <1>7

\* A row that somebody read, with another status.
LEMMA MovedTaskRow ==
  ASSUME NEW d, NEW t, NEW s \in TaskRows, TaskFits(d, t, s), s.status # "absent",
         NEW status \in {"active", "completed", "canceled"}
  PROVE  LET row == [s EXCEPT !.status = status]
         IN row \in TaskRows /\ row.status # "absent" /\ TaskFits(d, t, row)
  BY DEF TaskRows, TaskFits

\* archiveWorkTask remembers the status it leaves.
LEMMA ArchivedTaskRow ==
  ASSUME NEW d, NEW t, NEW s \in TaskRows, TaskFits(d, t, s),
         s.status \in {"completed", "canceled"}
  PROVE  LET row == [s EXCEPT !.status = "archived", !.archivedFrom = s.status]
         IN row \in TaskRows /\ row.status # "absent" /\ TaskFits(d, t, row)
<1> DEFINE closed == [s EXCEPT !.status = "archived"]
           row == [closed EXCEPT !.archivedFrom = s.status]
<1>1. /\ closed \in TaskRows /\ closed.status = "archived" /\ closed.revision = s.revision
  BY DEF TaskRows
<1> HIDE DEF closed
<1>2. /\ row \in TaskRows /\ row.status = "archived" /\ row.revision = s.revision
      /\ row.archivedFrom = s.status
  BY <1>1 DEF TaskRows
<1>3. row = [s EXCEPT !.status = "archived", !.archivedFrom = s.status]
  BY Zenon DEF closed
<1> HIDE DEF row
<1>4. TaskFits(d, t, row)
  BY <1>2, NoneAssumption DEF TaskFits
<1> QED BY <1>2, <1>3, <1>4

\* moveWorkRun: the settled task refers to what the task referred to.
LEMMA SettledTaskRow ==
  ASSUME NEW c, NEW d, NEW t \in Tasks, NEW to \in {"done", "failed", "canceled"},
         snap[c].tasks[t] \in TaskRows, TaskFits(d, t, snap[c].tasks[t]),
         snap[c].tasks[t].status # "absent"
  PROVE  LET row == Snap(c)!SettledTask(t, to)
         IN row \in TaskRows /\ row.status # "absent" /\ TaskFits(d, t, row)
<1>1. Snap(c)!TaskStatusAfter(to) \in {"active", "completed", "canceled"}
  BY DEF Snap!TaskStatusAfter
<1> QED BY <1>1, MovedTaskRow, Zenon DEF Snap!SettledTask

-----------------------------------------------------------------------------
(* What a statement does to the tables, column by column.                  *)

Grows(d, e) ==
  /\ d.revisions \subseteq e.revisions
  /\ \A t \in Tasks : Known(d, t) => Known(e, t)
  /\ RunsStand(e, d)

\* The statements, one kind at a time.
LEMMA StatementTypes ==
  ASSUME NEW s \in Statements
  PROVE  /\ s.do \in {"insertTask", "updateTask", "insertSchedule", "updateSchedule",
                      "insertRevision", "countRun", "insertRun", "updateRun", "revise"}
         /\ s.do \in {"insertTask", "updateTask"} => s.id \in Tasks /\ s.row \in TaskRows
         /\ s.do \in {"insertSchedule", "updateSchedule"} =>
              s.id \in Tasks /\ s.row \in ScheduleRows
         /\ s.do = "insertRevision" => s.id \in Tasks /\ s.row = 1
         /\ s.do = "countRun" => s.id \in Tasks
         /\ s.do = "insertRun" => s.id \in RunIds /\ s.row \in RunRows
         /\ s.do = "updateRun" => s.id \in RunIds /\ s.row \in RunStates
         /\ s.do = "revise" =>
              /\ s.id \in Tasks
              /\ s.row \in [revision : 1 .. MaxRevision, source : RunIds \cup {None}]
  BY DEF Statements

\* insertTask and updateTask.
LEMMA TaskEffect ==
  ASSUME NEW d \in Rows, NEW s \in Statements, s.do \in {"insertTask", "updateTask"}
  PROVE  LET e == Applied(d, s)
         IN /\ e = [d EXCEPT !.tasks = [d.tasks EXCEPT ![s.id] = s.row]]
            /\ e.tasks = [d.tasks EXCEPT ![s.id] = s.row] /\ e.schedules = d.schedules
            /\ e.runs = d.runs /\ e.revisions = d.revisions
            /\ e \in Rows
<1>1. s.id \in Tasks /\ s.row \in TaskRows
  BY StatementTypes
<1>2. Applied(d, s) = [d EXCEPT !.tasks = [d.tasks EXCEPT ![s.id] = s.row]]
  BY Zenon DEF Applied
<1>3. [d.tasks EXCEPT ![s.id] = s.row] \in [Tasks -> TaskRows]
  BY <1>1 DEF Rows
<1> DEFINE ts == [d.tasks EXCEPT ![s.id] = s.row]
<1> HIDE DEF ts
<1> QED BY <1>2, <1>3 DEF Rows, ts

\* insertSchedule and updateSchedule.
LEMMA ScheduleEffect ==
  ASSUME NEW d \in Rows, NEW s \in Statements, s.do \in {"insertSchedule", "updateSchedule"}
  PROVE  LET e == Applied(d, s)
         IN /\ e.schedules = [d.schedules EXCEPT ![s.id] = s.row] /\ e.tasks = d.tasks
            /\ e.runs = d.runs /\ e.revisions = d.revisions
            /\ e \in Rows
<1>1. s.id \in Tasks /\ s.row \in ScheduleRows
  BY StatementTypes
<1> DEFINE rows == [d.schedules EXCEPT ![s.id] = s.row]
<1>2. Applied(d, s) = [d EXCEPT !.schedules = rows]
  BY Zenon DEF Applied
<1>3. rows \in [Tasks -> ScheduleRows]
  BY <1>1 DEF Rows
<1> HIDE DEF rows
<1> QED BY <1>2, <1>3 DEF Rows, rows

\* insertRevision.
LEMMA RevisionEffect ==
  ASSUME NEW d \in Rows, NEW s \in Statements, s.do = "insertRevision"
  PROVE  LET e == Applied(d, s)
         IN /\ e.revisions = d.revisions \cup {<<s.id, 1>>} /\ e.tasks = d.tasks
            /\ e.schedules = d.schedules /\ e.runs = d.runs
            /\ e \in Rows
<1>1. s.id \in Tasks /\ s.row = 1
  BY StatementTypes
<1> DEFINE rows == d.revisions \cup {<<s.id, 1>>}
<1>2. Applied(d, s) = [d EXCEPT !.revisions = rows]
  BY <1>1, Zenon DEF Applied
<1>3. rows \in SUBSET (Tasks \X (1 .. MaxRevision))
  BY <1>1, BoundsAssumption DEF Rows
<1> HIDE DEF rows
<1> QED BY <1>2, <1>3 DEF Rows, rows

\* countRun: it raises counters, and writes no other column.
LEMMA CountEffect ==
  ASSUME NEW d \in Rows, NEW s \in Statements, s.do = "countRun"
  PROVE  LET e == Applied(d, s)
         IN /\ e.tasks = d.tasks /\ e.runs = d.runs /\ e.revisions = d.revisions
            /\ e \in Rows
            /\ \A t \in Tasks : Raises(e.schedules[t], d.schedules[t])
<1>1. s.id \in Tasks /\ d.schedules[s.id] \in ScheduleRows
  BY StatementTypes DEF Rows
<1>2. \A t \in Tasks : Raises(d.schedules[t], d.schedules[t])
  BY DEF Raises, Rows, ScheduleRows
<1>3. CASE d.schedules[s.id].status = "absent"
  <2>1. Applied(d, s) = d
    BY <1>3, Zenon DEF Applied
  <2> QED BY <1>2, <2>1
<1>4. CASE d.schedules[s.id].status # "absent"
  <2> DEFINE row == [d.schedules[s.id] EXCEPT !.runCount = @ + 1]
             rows == [d.schedules EXCEPT ![s.id] = row]
  <2>1. Applied(d, s) = [d EXCEPT !.schedules = rows]
    BY <1>4, Zenon DEF Applied
  <2>2. row \in ScheduleRows /\ Raises(row, d.schedules[s.id])
    BY <1>1 DEF ScheduleRows, Raises
  <2> HIDE DEF row
  <2>3. rows \in [Tasks -> ScheduleRows] /\ \A t \in Tasks : Raises(rows[t], d.schedules[t])
    BY <1>1, <1>2, <2>2 DEF Rows
  <2> HIDE DEF rows
  <2> QED BY <2>1, <2>3 DEF Rows
<1> QED BY <1>3, <1>4

\* insertRun.
LEMMA InsertRunEffect ==
  ASSUME NEW d \in Rows, NEW s \in Statements, s.do = "insertRun"
  PROVE  LET e == Applied(d, s)
         IN /\ e.runs = [d.runs EXCEPT ![s.id] = s.row] /\ e.tasks = d.tasks
            /\ e.schedules = d.schedules /\ e.revisions = d.revisions
            /\ e \in Rows
<1>1. s.id \in RunIds /\ s.row \in RunRows
  BY StatementTypes
<1> DEFINE rows == [d.runs EXCEPT ![s.id] = s.row]
<1>2. Applied(d, s) = [d EXCEPT !.runs = rows]
  BY Zenon DEF Applied
<1>3. rows \in [RunIds -> RunRows]
  BY <1>1 DEF Rows
<1> HIDE DEF rows
<1> QED BY <1>2, <1>3 DEF Rows, rows

\* The columns of a run that a statement other than INSERT leaves alone.
SameRow(a, b) == SameRun(a, b) /\ (a.status = "absent" <=> b.status = "absent")

\* updateRun: of the run, its status only.
LEMMA UpdateRunEffect ==
  ASSUME NEW d \in Rows, NEW s \in Statements, s.do = "updateRun", Stands(d, s.id)
  PROVE  LET e == Applied(d, s)
         IN /\ e.tasks = d.tasks /\ e.schedules = d.schedules /\ e.revisions = d.revisions
            /\ e \in Rows
            /\ \A r \in RunIds :
                 SameRow(e.runs[r], d.runs[r]) /\ e.runs[r].revision = d.runs[r].revision
<1>1. s.id \in RunIds /\ s.row \in RunStates /\ d.runs[s.id] \in RunRows
  BY StatementTypes DEF Rows
<1> DEFINE row == [d.runs[s.id] EXCEPT !.status = s.row]
           rows == [d.runs EXCEPT ![s.id] = row]
<1>2. Applied(d, s) = [d EXCEPT !.runs = rows]
  BY Zenon DEF Applied
<1>3. /\ row \in RunRows /\ SameRow(row, d.runs[s.id])
      /\ row.revision = d.runs[s.id].revision
  BY <1>1 DEF RunRows, SameRow, SameRun, Stands, RunStates
<1> HIDE DEF row
<1>4. /\ rows \in [RunIds -> RunRows]
      /\ \A r \in RunIds : SameRow(rows[r], d.runs[r]) /\ rows[r].revision = d.runs[r].revision
  BY <1>1, <1>3 DEF Rows, SameRow, SameRun
<1> HIDE DEF rows
<1> QED BY <1>2, <1>4 DEF Rows

\* revise: one task, one run and one revision.
LEMMA ReviseEffect ==
  ASSUME NEW d \in Rows, NEW s \in Statements, s.do = "revise"
  PROVE  LET e == Applied(d, s)
         IN /\ e.schedules = d.schedules
            /\ e.revisions = d.revisions \cup {<<s.id, s.row.revision>>}
            /\ e \in Rows
            /\ \A t \in Tasks :
                 /\ e.tasks[t].status = d.tasks[t].status
                 /\ e.tasks[t].archivedFrom = d.tasks[t].archivedFrom
                 /\ e.tasks[t].revision =
                      IF t = s.id THEN s.row.revision ELSE d.tasks[t].revision
            /\ \A r \in RunIds :
                 /\ SameRow(e.runs[r], d.runs[r])
                 /\ e.runs[r].revision =
                      IF r = s.row.source THEN s.row.revision ELSE d.runs[r].revision
<1> DEFINE n == s.row.revision
           task == [d.tasks[s.id] EXCEPT !.revision = n]
           ts == [d.tasks EXCEPT ![s.id] = task]
           rs == [r \in RunIds |-> IF r = s.row.source
                    THEN [d.runs[r] EXCEPT !.revision = n] ELSE d.runs[r]]
           vs == d.revisions \cup {<<s.id, n>>}
           d1 == [d EXCEPT !.tasks = ts]
           d2 == [d1 EXCEPT !.runs = rs]
           d3 == [d2 EXCEPT !.revisions = vs]
<1>1. s.id \in Tasks /\ n \in 1 .. MaxRevision
  BY StatementTypes
<1>2. /\ ts \in [Tasks -> TaskRows]
      /\ \A t \in Tasks :
           /\ ts[t].status = d.tasks[t].status
           /\ ts[t].archivedFrom = d.tasks[t].archivedFrom
           /\ ts[t].revision = IF t = s.id THEN n ELSE d.tasks[t].revision
  <2>1. /\ task \in TaskRows /\ task.status = d.tasks[s.id].status
        /\ task.archivedFrom = d.tasks[s.id].archivedFrom /\ task.revision = n
    BY <1>1 DEF Rows, TaskRows
  <2> HIDE DEF task
  <2> QED BY <1>1, <2>1 DEF Rows
<1>3. /\ rs \in [RunIds -> RunRows]
      /\ \A r \in RunIds :
           /\ SameRow(rs[r], d.runs[r])
           /\ rs[r].revision = IF r = s.row.source THEN n ELSE d.runs[r].revision
  <2>1. ASSUME NEW r \in RunIds
        PROVE  /\ rs[r] \in RunRows /\ SameRow(rs[r], d.runs[r])
               /\ rs[r].revision = IF r = s.row.source THEN n ELSE d.runs[r].revision
    <3>1. d.runs[r] \in RunRows
      BY DEF Rows
    <3>2. n \in Nat
      BY <1>1, BoundsAssumption
    <3>3. rs[r] = IF r = s.row.source THEN [d.runs[r] EXCEPT !.revision = n] ELSE d.runs[r]
      OBVIOUS
    <3> HIDE DEF rs
    <3> QED BY <3>1, <3>2, <3>3 DEF RunRows, SameRow, SameRun
  <2> QED BY <2>1
<1>4. vs \in SUBSET (Tasks \X (1 .. MaxRevision))
  BY <1>1 DEF Rows
<1>5. Applied(d, s) = Revised(d, s.id, s.row)
  BY Zenon DEF Applied
<1> HIDE DEF ts, rs, vs
<1>6. /\ d1.runs = d.runs /\ d1.revisions = d.revisions /\ d1.tasks = ts
      /\ d1.schedules = d.schedules
      /\ d1 \in [tasks : [Tasks -> TaskRows], schedules : [Tasks -> ScheduleRows],
                 runs : [RunIds -> RunRows], revisions : SUBSET (Tasks \X (1 .. MaxRevision))]
  BY <1>2 DEF Rows
<1> HIDE DEF d1
<1>7. /\ d2.runs = rs /\ d2.revisions = d.revisions /\ d2.tasks = ts
      /\ d2.schedules = d.schedules
      /\ d2 \in [tasks : [Tasks -> TaskRows], schedules : [Tasks -> ScheduleRows],
                 runs : [RunIds -> RunRows], revisions : SUBSET (Tasks \X (1 .. MaxRevision))]
  BY <1>3, <1>6
<1> HIDE DEF d2
<1>8. /\ d3.runs = rs /\ d3.revisions = vs /\ d3.tasks = ts
      /\ d3.schedules = d.schedules /\ d3 \in Rows
  BY <1>4, <1>7 DEF Rows
<1> HIDE DEF d3
<1>9. Revised(d, s.id, s.row) = d3
  <2>1. Revised(d, s.id, s.row) =
          [d EXCEPT !.tasks = ts,
                    !.runs = [r \in RunIds |-> IF r = s.row.source
                                THEN [@[r] EXCEPT !.revision = n] ELSE @[r]],
                    !.revisions = @ \cup {<<s.id, n>>}]
    BY Zenon DEF Revised, ts
  <2>2. d3 = [d EXCEPT !.tasks = ts, !.runs = rs, !.revisions = vs]
    BY Zenon DEF d3, d2, d1
  <2> QED BY <1>6, <1>7, <2>1, <2>2, Zenon DEF d3, d2, d1, rs, vs
<1> QED BY <1>2, <1>3, <1>5, <1>8, <1>9 DEF vs

-----------------------------------------------------------------------------
(* What fits goes on to fit.                                               *)

\* A row of a task that fits.
LEMMA TaskGoesOn ==
  ASSUME NEW d, NEW e, Grows(d, e), NEW t \in Tasks, NEW row, TaskFits(d, t, row)
  PROVE  TaskFits(e, t, row)
  BY DEF Grows, TaskFits, Confirmed

\* A row of a schedule that fits.
LEMMA ScheduleGoesOn ==
  ASSUME NEW d, NEW e, Grows(d, e), NEW t, NEW row, ScheduleFits(d, t, row)
  PROVE  ScheduleFits(e, t, row)
  BY DEF Grows, ScheduleFits, Confirmed

\* A row of a run that fits.
LEMMA RunGoesOn ==
  ASSUME NEW d, NEW e, Grows(d, e), NEW row, RunFits(d, row)
  PROVE  RunFits(e, row)
  BY DEF Grows, RunFits, Confirmed

\* All that somebody has read.
LEMMA RowsGoOn ==
  ASSUME NEW d, NEW e, Grows(d, e), NEW from, RowsFit(d, from), RunsStand(d, from)
  PROVE  RowsFit(e, from) /\ RunsStand(e, from)
<1>1. RowsFit(e, from)
  BY TaskGoesOn, ScheduleGoesOn, RunGoesOn DEF RowsFit
<1>2. RunsStand(e, from)
  BY DEF Grows, RunsStand, SameRun
<1> QED BY <1>1, <1>2

\* A statement somebody has queued, unless another one takes its run id.
LEMMA StatementGoesOn ==
  ASSUME NEW d, NEW e, Grows(d, e), NEW q \in Seq(Statements), NEW i \in DOMAIN q,
         StatementFits(d, q, i), q[i].do = "insertRun" => ~Stands(e, q[i].id)
  PROVE  StatementFits(e, q, i)
<1> DEFINE do == q[i].do
           id == q[i].id
           row == q[i].row
<1>1. q[i] \in Statements
  OBVIOUS
<1>2. do = "updateTask" => id \in Tasks
  BY <1>1, StatementTypes
<1>3. do = "updateTask" => TaskFits(e, id, row)
  BY <1>2, TaskGoesOn DEF StatementFits
<1>4. do \in {"insertSchedule", "updateSchedule"} /\ Confirmed(d, id, 1) => Confirmed(e, id, 1)
  BY DEF Grows, Confirmed
<1>5. do \in {"insertRevision", "revise"} /\ Known(d, id) => Known(e, id)
  <2>1. do \in {"insertRevision", "revise"} => id \in Tasks
    BY <1>1, StatementTypes
  <2> QED BY <2>1 DEF Grows
<1>6. do = "insertRun" /\ RunFits(d, row) => RunFits(e, row)
  BY RunGoesOn
<1>7. do = "updateRun" => Stands(e, id)
  <2>1. do = "updateRun" => id \in RunIds
    BY <1>1, StatementTypes
  <2> QED BY <2>1 DEF StatementFits, Grows, RunsStand
<1>8. do = "revise" /\ row.source # None =>
        Stands(e, row.source) /\ e.runs[row.source].task = id
  <2> SUFFICES ASSUME do = "revise", row.source # None
               PROVE  Stands(e, row.source) /\ e.runs[row.source].task = id
    OBVIOUS
  <2>1. row \in [revision : 1 .. MaxRevision, source : RunIds \cup {None}]
    BY <1>1, StatementTypes
  <2>2. row.source \in RunIds
    BY <2>1
  <2>3. Stands(d, row.source) /\ d.runs[row.source].task = id
    BY DEF StatementFits
  <2> QED BY <2>2, <2>3 DEF Grows, RunsStand, SameRun
<1> HIDE DEF do, id, row
<1> QED BY <1>3, <1>4, <1>5, <1>6, <1>7, <1>8 DEF StatementFits, do, id, row

\* Tables whose runs are the same hold every run.
LEMMA RunsStandAsTheyAre ==
  ASSUME NEW d, NEW e, \A r \in RunIds : SameRow(e.runs[r], d.runs[r])
  PROVE  RunsStand(e, d)
  BY DEF RunsStand, Stands, SameRow, SameRun

\* The next statement leaves tables that fit, and takes nothing back.
LEMMA ApplyTask ==
  ASSUME NEW d \in Rows, TablesFit(d), NEW q \in Seq(Statements), q # <<>>,
         StatementFits(d, q, 1), q[1].do \in {"insertTask", "updateTask"}
  PROVE  LET e == Applied(d, q[1]) IN TablesFit(e) /\ Grows(d, e)
<1> DEFINE s == q[1]
           e == Applied(d, s)
<1>1. s \in Statements /\ s.id \in Tasks
  BY StatementTypes
<1>2. /\ e.tasks = [d.tasks EXCEPT ![s.id] = s.row] /\ e.schedules = d.schedules
      /\ e.runs = d.runs /\ e.revisions = d.revisions /\ e \in Rows
  BY <1>1, TaskEffect
<1>3. d.tasks \in [Tasks -> TaskRows] /\ s.row \in TaskRows
  BY <1>1, StatementTypes DEF Rows
<1>4. s.row.status # "absent"
  BY DEF StatementFits, NewTask
<1> HIDE DEF e
<1>5. Grows(d, e)
  <2>1. RunsStand(e, d)
    BY <1>2 DEF RunsStand, Stands, SameRun
  <2> QED BY <1>2, <1>3, <1>4, <2>1 DEF Grows, Known
<1>6. TaskFits(e, s.id, s.row)
  <2>1. CASE s.do = "updateTask"
    BY <1>1, <1>5, <2>1, TaskGoesOn DEF StatementFits
  <2>2. CASE s.do = "insertTask"
    <3>1. s.row = NewTask
      BY <2>2 DEF StatementFits
    <3> QED BY <1>1, <1>2, <1>3, <3>1 DEF TaskFits, NewTask, Known
  <2> QED BY <2>1, <2>2
<1>7. RowsFit(d, d)
  BY DEF TablesFit
<1>8. \A t \in Tasks : TaskFits(e, t, e.tasks[t])
  BY <1>2, <1>3, <1>5, <1>6, <1>7, TaskGoesOn DEF RowsFit
<1>9. RowsFit(e, e)
  BY <1>2, <1>5, <1>7, <1>8, ScheduleGoesOn, RunGoesOn DEF RowsFit
<1>10. \A t \in Tasks : Confirmed(e, t, 1) => Known(e, t)
  BY <1>2, <1>5 DEF TablesFit, Grows, Confirmed
<1> QED BY <1>5, <1>9, <1>10 DEF TablesFit, e

\* The same of the statements about a schedule.
LEMMA ApplySchedule ==
  ASSUME NEW d \in Rows, TablesFit(d), NEW q \in Seq(Statements), q # <<>>,
         StatementFits(d, q, 1), q[1].do \in {"insertSchedule", "updateSchedule"}
  PROVE  LET e == Applied(d, q[1]) IN TablesFit(e) /\ Grows(d, e)
<1> DEFINE s == q[1]
           e == Applied(d, s)
<1>1. s \in Statements /\ s.id \in Tasks
  BY StatementTypes
<1>2. /\ e.schedules = [d.schedules EXCEPT ![s.id] = s.row] /\ e.tasks = d.tasks
      /\ e.runs = d.runs /\ e.revisions = d.revisions /\ e \in Rows
  BY <1>1, ScheduleEffect
<1>3. d.schedules \in [Tasks -> ScheduleRows]
  BY DEF Rows
<1>4. ScheduleFits(d, s.id, s.row)
  <2>1. ~Before(q, 1, "insertRevision", s.id)
    BY DEF Before
  <2> QED BY <2>1 DEF StatementFits, ScheduleFits
<1> HIDE DEF e
<1>5. Grows(d, e)
  BY <1>2 DEF Grows, Known, RunsStand, Stands, SameRun
<1>6. RowsFit(d, d)
  BY DEF TablesFit
<1>7. \A t \in Tasks : ScheduleFits(e, t, e.schedules[t])
  BY <1>1, <1>2, <1>3, <1>4, <1>5, <1>6, ScheduleGoesOn DEF RowsFit
<1>8. RowsFit(e, e)
  BY <1>2, <1>5, <1>6, <1>7, TaskGoesOn, RunGoesOn DEF RowsFit
<1>9. \A t \in Tasks : Confirmed(e, t, 1) => Known(e, t)
  BY <1>2, <1>5 DEF TablesFit, Grows, Confirmed
<1> QED BY <1>5, <1>8, <1>9 DEF TablesFit, e

\* The same of the first revision.
LEMMA ApplyRevision ==
  ASSUME NEW d \in Rows, TablesFit(d), NEW q \in Seq(Statements), q # <<>>,
         StatementFits(d, q, 1), q[1].do = "insertRevision"
  PROVE  LET e == Applied(d, q[1]) IN TablesFit(e) /\ Grows(d, e)
<1> DEFINE s == q[1]
           e == Applied(d, s)
<1>1. s \in Statements /\ s.id \in Tasks
  BY StatementTypes
<1>2. /\ e.revisions = d.revisions \cup {<<s.id, 1>>} /\ e.tasks = d.tasks
      /\ e.schedules = d.schedules /\ e.runs = d.runs /\ e \in Rows
  BY <1>1, RevisionEffect
<1>3. Known(d, s.id)
  <2>1. ~Before(q, 1, "insertTask", s.id)
    BY DEF Before
  <2> QED BY <2>1 DEF StatementFits
<1> HIDE DEF e
<1>4. Grows(d, e)
  BY <1>2 DEF Grows, Known, RunsStand, Stands, SameRun
<1>5. RowsFit(d, d)
  BY DEF TablesFit
<1>6. RowsFit(e, e)
  BY <1>2, <1>4, <1>5, TaskGoesOn, ScheduleGoesOn, RunGoesOn DEF RowsFit
<1>7. \A t \in Tasks : Confirmed(e, t, 1) => Known(e, t)
  BY <1>2, <1>3 DEF TablesFit, Confirmed, Known
<1> QED BY <1>4, <1>6, <1>7 DEF TablesFit, e

\* The same of the increment.
LEMMA ApplyCount ==
  ASSUME NEW d \in Rows, TablesFit(d), NEW s \in Statements, s.do = "countRun"
  PROVE  LET e == Applied(d, s) IN TablesFit(e) /\ Grows(d, e)
<1> DEFINE e == Applied(d, s)
<1>1. /\ e.tasks = d.tasks /\ e.runs = d.runs /\ e.revisions = d.revisions
      /\ \A t \in Tasks : Raises(e.schedules[t], d.schedules[t])
  BY CountEffect
<1> HIDE DEF e
<1>2. Grows(d, e)
  BY <1>1 DEF Grows, Known, RunsStand, Stands, SameRun
<1>3. RowsFit(d, d)
  BY DEF TablesFit
<1>4. \A t \in Tasks : ScheduleFits(e, t, e.schedules[t])
  BY <1>1, <1>3 DEF RowsFit, ScheduleFits, Raises, Confirmed
<1>5. RowsFit(e, e)
  BY <1>1, <1>2, <1>3, <1>4, TaskGoesOn, RunGoesOn DEF RowsFit
<1>6. \A t \in Tasks : Confirmed(e, t, 1) => Known(e, t)
  BY <1>1 DEF TablesFit, Confirmed, Known
<1> QED BY <1>2, <1>5, <1>6 DEF TablesFit, e

\* The same of a new run.
LEMMA ApplyInsertRun ==
  ASSUME NEW d \in Rows, TablesFit(d), NEW q \in Seq(Statements), q # <<>>,
         StatementFits(d, q, 1), q[1].do = "insertRun"
  PROVE  LET e == Applied(d, q[1]) IN TablesFit(e) /\ Grows(d, e)
<1> DEFINE s == q[1]
           e == Applied(d, s)
<1>1. s \in Statements /\ s.id \in RunIds
  BY StatementTypes
<1>2. /\ e.runs = [d.runs EXCEPT ![s.id] = s.row] /\ e.tasks = d.tasks
      /\ e.schedules = d.schedules /\ e.revisions = d.revisions /\ e \in Rows
  BY <1>1, InsertRunEffect
<1>3. d.runs \in [RunIds -> RunRows]
  BY DEF Rows
<1>4. ~Stands(d, s.id) /\ RunFits(d, s.row)
  <2>1. ~Before(q, 1, "insertRevision", s.row.task)
    BY DEF Before
  <2> QED BY <2>1 DEF StatementFits
<1> HIDE DEF e
<1>5. Grows(d, e)
  <2>1. RunsStand(e, d)
    BY <1>2, <1>3, <1>4 DEF RunsStand, Stands, SameRun
  <2> QED BY <1>2, <2>1 DEF Grows, Known
<1>6. RowsFit(d, d)
  BY DEF TablesFit
<1>7. \A r \in RunIds : RunFits(e, e.runs[r])
  BY <1>1, <1>2, <1>3, <1>4, <1>5, <1>6, RunGoesOn DEF RowsFit
<1>8. RowsFit(e, e)
  BY <1>2, <1>5, <1>6, <1>7, TaskGoesOn, ScheduleGoesOn DEF RowsFit
<1>9. \A t \in Tasks : Confirmed(e, t, 1) => Known(e, t)
  BY <1>2, <1>5 DEF TablesFit, Grows, Confirmed
<1> QED BY <1>5, <1>8, <1>9 DEF TablesFit, e

\* The same of the status of a run.
LEMMA ApplyUpdateRun ==
  ASSUME NEW d \in Rows, TablesFit(d), NEW s \in Statements, s.do = "updateRun", Stands(d, s.id)
  PROVE  LET e == Applied(d, s) IN TablesFit(e) /\ Grows(d, e)
<1> DEFINE e == Applied(d, s)
<1>1. /\ e.tasks = d.tasks /\ e.schedules = d.schedules /\ e.revisions = d.revisions
      /\ \A r \in RunIds :
           SameRow(e.runs[r], d.runs[r]) /\ e.runs[r].revision = d.runs[r].revision
  BY UpdateRunEffect
<1> HIDE DEF e
<1>2. Grows(d, e)
  BY <1>1, RunsStandAsTheyAre DEF Grows, Known
<1>3. RowsFit(d, d)
  BY DEF TablesFit
<1>4. \A r \in RunIds : RunFits(e, e.runs[r])
  BY <1>1, <1>3 DEF RowsFit, RunFits, SameRow, SameRun, Confirmed
<1>5. RowsFit(e, e)
  BY <1>1, <1>2, <1>3, <1>4, TaskGoesOn, ScheduleGoesOn DEF RowsFit
<1>6. \A t \in Tasks : Confirmed(e, t, 1) => Known(e, t)
  BY <1>1 DEF TablesFit, Confirmed, Known
<1> QED BY <1>2, <1>5, <1>6 DEF TablesFit, e

\* The same of a revision.
LEMMA ApplyRevise ==
  ASSUME NEW d \in Rows, TablesFit(d), NEW q \in Seq(Statements), q # <<>>,
         StatementFits(d, q, 1), q[1].do = "revise"
  PROVE  LET e == Applied(d, q[1]) IN TablesFit(e) /\ Grows(d, e)
<1> DEFINE s == q[1]
           n == s.row.revision
           e == Applied(d, s)
<1>1. s \in Statements /\ s.id \in Tasks
  BY StatementTypes
<1>2. /\ e.schedules = d.schedules
      /\ e.revisions = d.revisions \cup {<<s.id, n>>}
      /\ \A t \in Tasks :
           /\ e.tasks[t].status = d.tasks[t].status
           /\ e.tasks[t].archivedFrom = d.tasks[t].archivedFrom
           /\ e.tasks[t].revision = IF t = s.id THEN n ELSE d.tasks[t].revision
      /\ \A r \in RunIds :
           /\ SameRow(e.runs[r], d.runs[r])
           /\ e.runs[r].revision = IF r = s.row.source THEN n ELSE d.runs[r].revision
  BY <1>1, ReviseEffect
<1> HIDE DEF e
<1>3. Grows(d, e)
  BY <1>2, RunsStandAsTheyAre DEF Grows, Known
<1>4. RowsFit(d, d) /\ Known(d, s.id)
  BY DEF TablesFit, StatementFits
<1>5. Confirmed(e, s.id, n)
  BY <1>2 DEF Confirmed
<1>6. \A t \in Tasks : TaskFits(e, t, e.tasks[t])
  BY <1>2, <1>3, <1>4, <1>5 DEF RowsFit, TaskFits, Grows, Confirmed
<1>7. ASSUME NEW r \in RunIds PROVE RunFits(e, e.runs[r])
  <2>1. CASE e.runs[r].status = "absent"
    BY <2>1 DEF RunFits
  <2>2. CASE e.runs[r].status # "absent"
    <3>1. d.runs[r].status # "absent" /\ SameRun(e.runs[r], d.runs[r])
      BY <1>2, <2>2 DEF SameRow
    <3>2. RunFits(d, d.runs[r])
      BY <1>4 DEF RowsFit
    <3>3. r = s.row.source => d.runs[r].task = s.id
      <4>1. None \notin RunIds
        BY NoneAssumption, RunIdsAssumption
      <4> QED BY <4>1 DEF StatementFits
    <3>4. Confirmed(e, e.runs[r].task, e.runs[r].revision)
      BY <1>2, <1>5, <3>1, <3>2, <3>3 DEF RunFits, SameRun, Confirmed
    <3> QED BY <1>3, <3>1, <3>2, <3>4 DEF RunFits, SameRun, Grows, Confirmed
  <2> QED BY <2>1, <2>2
<1>8. RowsFit(e, e)
  BY <1>2, <1>3, <1>4, <1>6, <1>7, ScheduleGoesOn DEF RowsFit
<1>9. \A t \in Tasks : Confirmed(e, t, 1) => Known(e, t)
  BY <1>2, <1>4 DEF TablesFit, Confirmed, Known
<1> QED BY <1>3, <1>8, <1>9 DEF TablesFit, e

\* Whichever statement is next.
LEMMA ApplyFits ==
  ASSUME NEW d \in Rows, TablesFit(d), NEW q \in Seq(Statements), q # <<>>,
         StatementFits(d, q, 1)
  PROVE  LET e == Applied(d, q[1]) IN e \in Rows /\ TablesFit(e) /\ Grows(d, e)
<1>1. q[1] \in Statements
  OBVIOUS
<1>2. q[1].do = "updateRun" => Stands(d, q[1].id)
  BY DEF StatementFits
<1>3. Applied(d, q[1]) \in Rows
  BY <1>1, <1>2, StatementTypes, TaskEffect, ScheduleEffect, RevisionEffect, CountEffect,
     InsertRunEffect, UpdateRunEffect, ReviseEffect
<1>4. LET e == Applied(d, q[1]) IN TablesFit(e) /\ Grows(d, e)
  BY <1>1, <1>2, StatementTypes, ApplyTask, ApplySchedule, ApplyRevision, ApplyCount,
     ApplyInsertRun, ApplyUpdateRun, ApplyRevise
<1> QED BY <1>3, <1>4

\* A statement brings a run into being, or leaves all but status and revision as it was.
LEMMA RunsAfter ==
  ASSUME NEW d \in Rows, NEW s \in Statements, s.do = "updateRun" => Stands(d, s.id),
         NEW r \in RunIds
  PROVE  LET e == Applied(d, s)
         IN \/ SameRow(e.runs[r], d.runs[r])
            \/ s.do = "insertRun" /\ r = s.id /\ e.runs[r] = s.row
<1> DEFINE e == Applied(d, s)
<1>1. SameRow(d.runs[r], d.runs[r])
  BY DEF SameRow, SameRun
<1>2. CASE s.do = "insertRun"
  <2>1. e.runs = [d.runs EXCEPT ![s.id] = s.row] /\ d.runs \in [RunIds -> RunRows]
    BY <1>2, InsertRunEffect DEF Rows
  <2> HIDE DEF e
  <2>2. e.runs[r] = IF r = s.id THEN s.row ELSE d.runs[r]
    BY <2>1
  <2>3. SameRow(e.runs[r], d.runs[r]) \/ (r = s.id /\ e.runs[r] = s.row)
    BY <1>1, <1>2, <2>2
  <2> QED BY <1>2, <2>3 DEF e
<1>3. CASE s.do = "updateRun"
  BY <1>3, UpdateRunEffect
<1>4. CASE s.do = "revise"
  BY <1>4, ReviseEffect
<1>5. CASE s.do \notin {"insertRun", "updateRun", "revise"}
  <2>1. e.runs = d.runs
    BY <1>5, StatementTypes, TaskEffect, ScheduleEffect, RevisionEffect, CountEffect
  <2> QED BY <1>1, <2>1
<1> QED BY <1>2, <1>3, <1>4, <1>5

\* A schedule after a statement: the row that was queued, or the old one with a counter raised.
LEMMA SchedulesAfter ==
  ASSUME NEW d \in Rows, NEW s \in Statements, s.do = "updateRun" => Stands(d, s.id),
         NEW t \in Tasks
  PROVE  LET e == Applied(d, s)
         IN \/ Raises(e.schedules[t], d.schedules[t])
            \/ /\ s.do \in {"insertSchedule", "updateSchedule"}
               /\ t = s.id /\ e.schedules[t] = s.row
<1> DEFINE e == Applied(d, s)
<1>1. Raises(d.schedules[t], d.schedules[t])
  BY DEF Raises, Rows, ScheduleRows
<1>2. CASE s.do \in {"insertSchedule", "updateSchedule"}
  <2>1. /\ e.schedules = [d.schedules EXCEPT ![s.id] = s.row]
        /\ d.schedules \in [Tasks -> ScheduleRows]
    BY <1>2, ScheduleEffect DEF Rows
  <2> QED BY <1>1, <1>2, <2>1, StatementTypes
<1>3. CASE s.do = "countRun"
  BY <1>3, CountEffect
<1>4. CASE s.do \notin {"insertSchedule", "updateSchedule", "countRun"}
  <2>1. e.schedules = d.schedules
    <3>1. CASE s.do \in {"insertTask", "updateTask"}
      BY <3>1, TaskEffect
    <3>2. CASE s.do = "insertRevision"
      BY <3>2, RevisionEffect
    <3>3. CASE s.do = "insertRun"
      BY <3>3, InsertRunEffect
    <3>4. CASE s.do = "updateRun"
      BY <3>4, UpdateRunEffect
    <3>5. CASE s.do = "revise"
      BY <3>5, ReviseEffect
    <3> QED BY <1>4, <3>1, <3>2, <3>3, <3>4, <3>5, StatementTypes
  <2> QED BY <1>1, <2>1
<1> QED BY <1>2, <1>3, <1>4

\* What came before a statement still does, or has just been executed.
LEMMA StatementMovesUp ==
  ASSUME NEW d, NEW e, NEW q \in Seq(Statements), q # <<>>, NEW i \in DOMAIN Tail(q),
         StatementFits(e, q, i + 1),
         q[1].do = "insertTask" => Known(e, q[1].id),
         q[1].do = "insertRevision" => Confirmed(e, q[1].id, 1)
  PROVE  StatementFits(e, Tail(q), i)
<1> DEFINE u == Tail(q)
<1>1. /\ u \in Seq(Statements) /\ Len(u) = Len(q) - 1 /\ i \in 1 .. Len(u)
      /\ \A j \in 1 .. Len(u) : u[j] = q[j + 1]
  BY HeadTailProperties
<1> HIDE DEF u
<1>2. u[i] = q[i + 1]
  BY <1>1
<1>3. ASSUME NEW do, NEW id, Before(q, i + 1, do, id)
      PROVE  Before(u, i, do, id) \/ (q[1].do = do /\ q[1].id = id)
  <2>1. PICK j \in 1 .. (i + 1) - 1 : q[j].do = do /\ q[j].id = id
    BY <1>3 DEF Before
  <2>2. CASE j = 1
    BY <2>1, <2>2
  <2>3. CASE j # 1
    <3>1. j - 1 \in 1 .. i - 1 /\ j - 1 \in 1 .. Len(u) /\ (j - 1) + 1 = j
      BY <1>1, <2>3
    <3>2. u[j - 1] = q[j]
      BY <1>1, <3>1
    <3> QED BY <2>1, <3>1, <3>2 DEF Before
  <2> QED BY <2>2, <2>3
<1> DEFINE s == q[i + 1]
<1>4. s \in Statements
  BY <1>1
<1>5. s.do = "insertRevision" => Known(e, s.id) \/ Before(u, i, "insertTask", s.id)
  BY <1>3 DEF StatementFits
<1>6. s.do = "insertSchedule" => Confirmed(e, s.id, 1) \/ Before(u, i, "insertRevision", s.id)
  BY <1>3 DEF StatementFits
<1>7. s.do = "insertRun" =>
        \/ RunFits(e, s.row)
        \/ /\ s.row.triggeredBy = "immediate" /\ s.row.revision = 1 /\ s.row.task \in Tasks
           /\ Before(u, i, "insertRevision", s.row.task)
  <2>1. ASSUME s.do = "insertRun", s.row.triggeredBy = "immediate", s.row.revision = 1,
               s.row.task \in Tasks, Before(q, i + 1, "insertRevision", s.row.task),
               ~Before(u, i, "insertRevision", s.row.task)
        PROVE  RunFits(e, s.row)
    <3>1. Confirmed(e, s.row.task, 1)
      BY <1>3, <2>1
    <3> QED BY <2>1, <3>1 DEF RunFits, FiredBy
  <2> QED BY <2>1 DEF StatementFits
<1> HIDE DEF s
<1> QED BY <1>2, <1>5, <1>6, <1>7 DEF StatementFits, s, u

-----------------------------------------------------------------------------
(* Execute.                                                                *)

\* Of the queue of a caller the first statement is gone, or all are.
Shifted(c) ==
  \A b \in Callers : \A i \in DOMAIN queue'[b] :
    LET j == IF b = c THEN i + 1 ELSE i
    IN j \in DOMAIN queue[b] /\ queue'[b][i] = queue[b][j]

\* Execute takes the first statement of one queue, and runs it unless it is rejected.
LEMMA ExecuteShifts ==
  ASSUME Typed, NEW c \in Callers, Execute(c)
  PROVE  /\ queue[c] \in Seq(Statements) /\ queue[c] # <<>> /\ queue[c][1] \in Statements
         /\ queue' \in [Callers -> Seq(Statements)]
         /\ \A b \in Callers \ {c} : queue'[b] = queue[b]
         /\ \/ db' = db /\ queue'[c] = <<>>
            \/ db' = Applied(db, queue[c][1]) /\ queue'[c] = Tail(queue[c])
         /\ Shifted(c)
<1> DEFINE q == queue[c]
           rest == IF Rejected(Head(q), db) THEN <<>> ELSE Tail(q)
<1>1. q \in Seq(Statements) /\ q # <<>>
  BY DEF Typed, Execute
<1>2. Head(q) = q[1] /\ q[1] \in Statements /\ Tail(q) \in Seq(Statements)
  BY <1>1
<1>3. queue' = [queue EXCEPT ![c] = rest] /\ queue \in [Callers -> Seq(Statements)]
  BY DEF Typed, Execute
<1>4. rest \in Seq(Statements)
  BY <1>2
<1>5. \/ db' = db /\ rest = <<>>
      \/ db' = Applied(db, q[1]) /\ rest = Tail(q)
  BY <1>2 DEF Execute
<1>6. \A i \in DOMAIN rest : i + 1 \in DOMAIN q /\ rest[i] = q[i + 1]
  BY <1>1, <1>5, HeadTailProperties
<1> HIDE DEF rest
<1>7. /\ queue' \in [Callers -> Seq(Statements)] /\ queue'[c] = rest
      /\ \A b \in Callers \ {c} : queue'[b] = queue[b]
  BY <1>3, <1>4
<1>8. Shifted(c)
  BY <1>6, <1>7 DEF Shifted
<1> QED BY <1>1, <1>2, <1>5, <1>7, <1>8

\* The tables and the rest of the queues after a statement.
LEMMA ExecuteGrows ==
  ASSUME IInv, NEW c \in Callers, Execute(c)
  PROVE  /\ db' \in Rows /\ TablesFit(db') /\ Grows(db, db')
         /\ \A r \in RunIds :
              \/ SameRow(db'.runs[r], db.runs[r])
              \/ Inserts(queue[c], 1, r) /\ db'.runs[r] = queue[c][1].row
         /\ \A t \in Tasks :
              \/ Raises(db'.schedules[t], db.schedules[t])
              \/ /\ queue[c][1].do \in {"insertSchedule", "updateSchedule"}
                 /\ t = queue[c][1].id /\ db'.schedules[t] = queue[c][1].row
<1> DEFINE q == queue[c]
<1>1. /\ q \in Seq(Statements) /\ q # <<>> /\ q[1] \in Statements
      /\ db' = db \/ db' = Applied(db, q[1])
  BY ExecuteShifts DEF IInv
<1>2. db \in Rows /\ TablesFit(db) /\ StatementFits(db, q, 1)
  <2>1. 1 \in DOMAIN q
    BY <1>1
  <2> QED BY <2>1 DEF IInv, Typed, QueueFits
<1>3. q[1].do = "updateRun" => Stands(db, q[1].id)
  BY <1>2 DEF StatementFits
<1> HIDE DEF q
<1>4. CASE db' = db
  <2>1. Grows(db, db)
    BY DEF Grows, RunsStand, SameRun
  <2>2. \A r \in RunIds : SameRow(db.runs[r], db.runs[r])
    BY DEF SameRow, SameRun
  <2>3. \A t \in Tasks : Raises(db.schedules[t], db.schedules[t])
    BY <1>2 DEF Raises, Rows, ScheduleRows
  <2> QED BY <1>2, <1>4, <2>1, <2>2, <2>3
<1>5. CASE db' = Applied(db, q[1])
  <2>1. db' \in Rows /\ TablesFit(db') /\ Grows(db, db')
    BY <1>1, <1>2, <1>5, ApplyFits
  <2>2. ASSUME NEW r \in RunIds
        PROVE  \/ SameRow(db'.runs[r], db.runs[r])
               \/ q[1].do = "insertRun" /\ r = q[1].id /\ db'.runs[r] = q[1].row
    BY <1>1, <1>2, <1>3, <1>5, RunsAfter
  <2>3. ASSUME NEW t \in Tasks
        PROVE  \/ Raises(db'.schedules[t], db.schedules[t])
               \/ /\ q[1].do \in {"insertSchedule", "updateSchedule"}
                  /\ t = q[1].id /\ db'.schedules[t] = q[1].row
    BY <1>1, <1>2, <1>3, <1>5, SchedulesAfter
  <2> QED BY <2>1, <2>2, <2>3 DEF Inserts, q
<1> QED BY <1>1, <1>4, <1>5

\* The statements that are left go on to fit, and take ids nobody else takes.
LEMMA ExecuteQueues ==
  ASSUME IInv, NEW c \in Callers, Execute(c)
  PROVE  InsertsOnce' /\ \A b \in Callers : QueueFits(db', queue'[b])
<1> DEFINE q == queue[c]
<1>1. /\ q \in Seq(Statements) /\ q # <<>> /\ q[1] \in Statements /\ 1 \in DOMAIN q
      /\ \A b \in Callers \ {c} : queue'[b] = queue[b]
      /\ \/ db' = db /\ queue'[c] = <<>>
         \/ db' = Applied(db, q[1]) /\ queue'[c] = Tail(q)
      /\ Shifted(c)
  BY ExecuteShifts DEF IInv
<1>2. /\ db \in Rows /\ Grows(db, db')
      /\ \A r \in RunIds :
           SameRow(db'.runs[r], db.runs[r]) \/ Inserts(q, 1, r)
  BY ExecuteGrows DEF IInv, Typed
<1>3. InsertsOnce
  BY DEF IInv
<1> HIDE DEF q
<1>4. InsertsOnce'
  <2> SUFFICES ASSUME NEW a \in Callers, NEW b \in Callers,
                      NEW i \in DOMAIN queue'[a], NEW j \in DOMAIN queue'[b], NEW r \in RunIds,
                      Inserts(queue'[a], i, r), Inserts(queue'[b], j, r)
               PROVE  a = b /\ i = j
    BY DEF InsertsOnce
  <2> DEFINE k == IF a = c THEN i + 1 ELSE i
             l == IF b = c THEN j + 1 ELSE j
  <2>1. /\ k \in DOMAIN queue[a] /\ l \in DOMAIN queue[b]
        /\ queue'[a][i] = queue[a][k] /\ queue'[b][j] = queue[b][l]
    BY <1>1 DEF Shifted
  <2>2. a = b /\ k = l
    BY <1>3, <2>1 DEF InsertsOnce, Inserts
  <2>3. i \in Int /\ j \in Int
    <3>1. queue'[a] \in Seq(Statements) /\ queue'[b] \in Seq(Statements)
      BY ExecuteShifts DEF IInv
    <3> QED BY <3>1
  <2> QED BY <2>2, <2>3
\* A run that is still to be inserted is not there yet.
<1>5. ASSUME NEW b \in Callers, NEW i \in DOMAIN queue[b], b # c \/ i # 1,
             queue[b][i].do = "insertRun"
      PROVE  ~Stands(db', queue[b][i].id)
  <2>1. queue[b] \in Seq(Statements) /\ queue[b][i] \in Statements
    BY DEF IInv, Typed
  <2>2. queue[b][i].id \in RunIds /\ ~Stands(db, queue[b][i].id)
    BY <1>5, <2>1, StatementTypes DEF IInv, QueueFits, StatementFits
  <2>3. ~Inserts(q, 1, queue[b][i].id)
    BY <1>1, <1>3, <1>5, <2>2 DEF InsertsOnce, Inserts, q
  <2> QED BY <1>2, <2>2, <2>3 DEF SameRow, Stands
<1>6. ASSUME NEW b \in Callers, b # c PROVE QueueFits(db', queue'[b])
  <2>1. queue[b] \in Seq(Statements) /\ QueueFits(db, queue[b])
    BY DEF IInv, Typed
  <2>2. \A i \in DOMAIN queue[b] : StatementFits(db', queue[b], i)
    BY <1>2, <1>5, <1>6, <2>1, StatementGoesOn DEF QueueFits
  <2> QED BY <1>1, <1>6, <2>2 DEF QueueFits
<1>7. QueueFits(db', queue'[c])
  <2>1. CASE queue'[c] = <<>>
    BY <2>1 DEF QueueFits
  <2>2. CASE db' = Applied(db, q[1]) /\ queue'[c] = Tail(q)
    <3>1. QueueFits(db, q) /\ StatementFits(db, q, 1)
      BY <1>1 DEF IInv, QueueFits, q
    <3>2. q[1].do = "insertTask" => Known(db', q[1].id)
      <4> SUFFICES ASSUME q[1].do = "insertTask" PROVE Known(db', q[1].id)
        OBVIOUS
      <4>1. db'.tasks = [db.tasks EXCEPT ![q[1].id] = q[1].row]
        BY <1>1, <1>2, <2>2, TaskEffect
      <4>2. q[1].id \in Tasks /\ db.tasks \in [Tasks -> TaskRows]
        BY <1>1, <1>2, StatementTypes DEF Rows
      <4>3. q[1].row = NewTask
        BY <3>1 DEF StatementFits
      <4> QED BY <4>1, <4>2, <4>3 DEF Known, NewTask
    <3>3. q[1].do = "insertRevision" => Confirmed(db', q[1].id, 1)
      <4> SUFFICES ASSUME q[1].do = "insertRevision" PROVE Confirmed(db', q[1].id, 1)
        OBVIOUS
      <4>1. db'.revisions = db.revisions \cup {<<q[1].id, 1>>}
        BY <1>1, <1>2, <2>2, RevisionEffect
      <4> QED BY <4>1 DEF Confirmed
    <3>4. ASSUME NEW i \in DOMAIN Tail(q) PROVE StatementFits(db', Tail(q), i)
      <4>1. i + 1 \in DOMAIN q /\ i + 1 # 1
        BY <1>1, HeadTailProperties
      <4>2. StatementFits(db', q, i + 1)
        BY <1>1, <1>2, <1>5, <3>1, <4>1, StatementGoesOn DEF QueueFits, q
      <4> QED BY <1>1, <3>2, <3>3, <4>2, StatementMovesUp
    <3> QED BY <2>2, <3>4 DEF QueueFits
  <2> QED BY <1>1, <2>1, <2>2
<1> QED BY <1>4, <1>6, <1>7

\* A firing that is inserted is the only one of its trigger time.
LEMMA ExecuteFirings ==
  ASSUME IInv, NEW c \in Callers, Execute(c)
  PROVE  FiringsFit'
<1> DEFINE q == queue[c]
<1>1. /\ 1 \in DOMAIN q /\ q[1] \in Statements /\ Shifted(c)
  <2>1. q \in Seq(Statements) /\ q # <<>> /\ Shifted(c)
    BY ExecuteShifts DEF IInv
  <2> QED BY <2>1
<1>2. \A r \in RunIds :
        \/ SameRow(db'.runs[r], db.runs[r])
        \/ Inserts(q, 1, r) /\ db'.runs[r] = q[1].row
  BY ExecuteGrows
<1>3. FiringsFit
  BY DEF IInv
<1> HIDE DEF q
\* A firing there is now was there before, or is the statement that was executed.
<1>4. ASSUME NEW r \in RunIds, Fired(db'.runs[r])
      PROVE  \/ Fired(db.runs[r]) /\ SameRun(db'.runs[r], db.runs[r])
             \/ Fires(q, 1) /\ Inserts(q, 1, r) /\ db'.runs[r] = q[1].row
  BY <1>2, <1>4 DEF Fired, Fires, Inserts, SameRow, SameRun
<1>5. ASSUME NEW r \in RunIds, NEW s \in RunIds, Fired(db'.runs[r]), Fired(db'.runs[s]),
             SameFiring(db'.runs[r], db'.runs[s])
      PROVE  r = s
  <2>1. CASE Inserts(q, 1, r) /\ Inserts(q, 1, s)
    BY <2>1 DEF Inserts
  <2>2. CASE ~Inserts(q, 1, r) /\ ~Inserts(q, 1, s)
    BY <1>3, <1>4, <1>5, <2>2 DEF FiringsFit, SameRun, SameFiring
  <2>3. CASE Inserts(q, 1, r) /\ ~Inserts(q, 1, s)
    BY <1>1, <1>2, <1>3, <1>4, <1>5, <2>3 DEF FiringsFit, SameRow, SameRun, SameFiring, Fired, q
  <2>4. CASE ~Inserts(q, 1, r) /\ Inserts(q, 1, s)
    BY <1>1, <1>2, <1>3, <1>4, <1>5, <2>4 DEF FiringsFit, SameRow, SameRun, SameFiring, Fired, q
  <2> QED BY <2>1, <2>2, <2>3, <2>4
<1>6. ASSUME NEW b \in Callers, NEW i \in DOMAIN queue'[b], Fires(queue'[b], i)
      PROVE  /\ b \in Schedulers
             /\ \A j \in DOMAIN queue'[b] : Fires(queue'[b], j) => i = j
             /\ \A r \in RunIds :
                  ~(Fired(db'.runs[r]) /\ SameFiring(db'.runs[r], queue'[b][i].row))
  <2> DEFINE k == IF b = c THEN i + 1 ELSE i
  <2>1. k \in DOMAIN queue[b] /\ queue'[b][i] = queue[b][k] /\ Fires(queue[b], k)
    BY <1>1, <1>6 DEF Shifted, Fires
  <2>2. queue'[b] \in Seq(Statements)
    BY ExecuteShifts DEF IInv
  <2>3. /\ b \in Schedulers
        /\ \A j \in DOMAIN queue[b] : Fires(queue[b], j) => k = j
        /\ \A r \in RunIds : ~(Fired(db.runs[r]) /\ SameFiring(db.runs[r], queue[b][k].row))
    BY <1>3, <2>1 DEF FiringsFit
  <2>4. ASSUME NEW j \in DOMAIN queue'[b], Fires(queue'[b], j) PROVE i = j
    <3> DEFINE l == IF b = c THEN j + 1 ELSE j
    <3>1. l \in DOMAIN queue[b] /\ Fires(queue[b], l)
      BY <1>1, <2>4 DEF Shifted, Fires
    <3>2. k = l
      BY <2>3, <3>1
    <3> QED BY <2>2, <3>2
  <2>5. ~Fires(q, 1)
    <3> SUFFICES ASSUME Fires(q, 1) PROVE FALSE
      OBVIOUS
    <3>1. c \in Schedulers
      BY <1>1, <1>3 DEF FiringsFit, q
    <3>2. b = c
      BY <2>3, <3>1, CallersAssumption
    <3>3. k = 1
      BY <1>1, <2>3, <3>2 DEF q
    <3> QED BY <2>2, <3>2, <3>3
  <2> QED BY <1>4, <2>1, <2>3, <2>4, <2>5 DEF SameFiring, SameRun
<1>7. ASSUME NEW b \in Schedulers, pc'[b] = "read", NEW r \in RunIds, Fired(db'.runs[r])
      PROVE  Fired(snap'[b].runs[r]) /\ SameRun(snap'[b].runs[r], db'.runs[r])
  <2>1. b \in Callers /\ snap' = snap
    BY CallersAssumption DEF Execute
  <2>2. pc[b] = "read" /\ b # c
    <3>1. pc' = [pc EXCEPT ![c] = IF queue'[c] = <<>> THEN "idle" ELSE "writing"]
      BY Zenon, <2>1 DEF Execute, IInv, Typed
    <3> QED BY <1>7, <2>1, <3>1 DEF IInv, Typed
  <2>3. ~Fires(q, 1)
    BY <1>1, <1>3, <2>2, CallersAssumption DEF FiringsFit, q
  <2>4. Fired(db.runs[r]) /\ SameRun(db'.runs[r], db.runs[r])
    BY <1>4, <1>7, <2>3
  <2> QED BY <1>3, <2>1, <2>2, <2>4 DEF FiringsFit, SameRun
<1> QED BY <1>5, <1>6, <1>7 DEF FiringsFit

\* Tables, snapshots and queues stay on the plan.
LEMMA ExecuteBudget ==
  ASSUME IInv, NEW c \in Callers, Execute(c)
  PROVE  BudgetFits'
<1> DEFINE q == queue[c]
<1>1. /\ 1 \in DOMAIN q /\ q[1] \in Statements /\ Shifted(c) /\ snap' = snap
  <2>1. q \in Seq(Statements) /\ q # <<>> /\ Shifted(c)
    BY ExecuteShifts DEF IInv
  <2> QED BY <2>1 DEF Execute
<1>2. /\ \A r \in RunIds :
           \/ SameRow(db'.runs[r], db.runs[r])
           \/ Inserts(q, 1, r) /\ db'.runs[r] = q[1].row
      /\ \A t \in Tasks :
           \/ Raises(db'.schedules[t], db.schedules[t])
           \/ /\ q[1].do \in {"insertSchedule", "updateSchedule"}
              /\ t = q[1].id /\ db'.schedules[t] = q[1].row
      /\ db' \in Rows /\ db \in Rows
  BY ExecuteGrows DEF IInv, Typed
<1>3. PICK plan \in Plans : PlanFits(plan)
  BY DEF IInv, BudgetFits
<1> HIDE DEF q
<1>4. /\ q[1].do \in {"insertSchedule", "updateSchedule"} =>
           ScheduleOnPlan(plan[q[1].id], q[1].row)
      /\ Fires(q, 1) => RunOnPlan(plan[q[1].row.task], q[1].row)
  BY <1>1, <1>3 DEF PlanFits, q
<1>5. ASSUME NEW t \in Tasks PROVE ScheduleOnPlan(plan[t], db'.schedules[t])
  <2>1. ScheduleOnPlan(plan[t], db.schedules[t])
    BY <1>3 DEF PlanFits
  <2>2. db.schedules[t] \in ScheduleRows /\ db'.schedules[t] \in ScheduleRows
    BY <1>2 DEF Rows
  <2>3. CASE Raises(db'.schedules[t], db.schedules[t])
    BY <2>1, <2>2, <2>3, RaisedOnPlan
  <2>4. CASE ~Raises(db'.schedules[t], db.schedules[t])
    BY <1>2, <1>4, <2>4
  <2> QED BY <2>3, <2>4
<1>6. ASSUME NEW r \in RunIds, Fired(db'.runs[r])
      PROVE  RunOnPlan(plan[db'.runs[r].task], db'.runs[r])
  <2>1. CASE SameRow(db'.runs[r], db.runs[r])
    <3>1. Fired(db.runs[r])
      BY <1>6, <2>1 DEF Fired, SameRow, SameRun
    <3> QED BY <1>3, <2>1, <3>1 DEF PlanFits, RunOnPlan, SameRow, SameRun
  <2>2. CASE Inserts(q, 1, r) /\ db'.runs[r] = q[1].row
    BY <1>4, <1>6, <2>2 DEF Fired, Fires, Inserts
  <2> QED BY <1>2, <2>1, <2>2
<1>7. ASSUME NEW b \in Callers, NEW i \in DOMAIN queue'[b]
      PROVE  /\ queue'[b][i].do \in {"insertSchedule", "updateSchedule"} =>
                  ScheduleOnPlan(plan[queue'[b][i].id], queue'[b][i].row)
             /\ Fires(queue'[b], i) =>
                  RunOnPlan(plan[queue'[b][i].row.task], queue'[b][i].row)
  <2> DEFINE k == IF b = c THEN i + 1 ELSE i
  <2>1. k \in DOMAIN queue[b] /\ queue'[b][i] = queue[b][k]
    BY <1>1 DEF Shifted
  <2> QED BY <1>3, <2>1 DEF PlanFits, Fires
<1>8. \A b \in Callers, t \in Tasks : ScheduleOnPlan(plan[t], snap'[b].schedules[t])
  BY <1>1, <1>3 DEF PlanFits
<1>9. PlanFits(plan)'
  BY <1>5, <1>6, <1>7, <1>8 DEF PlanFits
<1> QED BY <1>9 DEF BudgetFits

\* One statement of one caller keeps the invariant.
LEMMA ExecuteFits ==
  ASSUME IInv, NEW c \in Callers, Execute(c)
  PROVE  IInv'
<1>1. Typed'
  <2>1. /\ queue' \in [Callers -> Seq(Statements)]
        /\ \A b \in Callers \ {c} : queue'[b] = queue[b]
    BY ExecuteShifts DEF IInv
  <2>2. pc' = [pc EXCEPT ![c] = IF queue'[c] = <<>> THEN "idle" ELSE "writing"]
    BY Zenon DEF Execute, IInv, Typed
  <2>3. db' \in Rows /\ snap' = snap /\ at' = at /\ now' = now
    BY ExecuteGrows DEF Execute
  <2> QED BY <2>1, <2>2, <2>3 DEF IInv, Typed
<1>2. TablesFit(db')
  BY ExecuteGrows
<1>3. \A b \in Callers : RowsFit(db', snap'[b]) /\ RunsStand(db', snap'[b])
  <2>1. snap' = snap /\ Grows(db, db')
    BY ExecuteGrows DEF Execute
  <2> QED BY <2>1, RowsGoOn DEF IInv
<1> QED BY <1>1, <1>2, <1>3, ExecuteQueues, ExecuteFirings, ExecuteBudget DEF IInv

-----------------------------------------------------------------------------
(* Reading, dying, waiting.                                                *)

\* A step that changes nothing but a snapshot, by rows that fit.
LEMMA SnapshotStep ==
  ASSUME IInv, UNCHANGED <<db, queue>>, Typed',
         \A c \in Callers :
           /\ RowsFit(db, snap'[c]) /\ RunsStand(db, snap'[c])
           /\ \A t \in Tasks :
                \/ snap'[c].schedules[t] \in {snap[c].schedules[t], db.schedules[t]}
                \/ snap'[c].schedules[t].status = "absent",
         \A c \in Schedulers : pc'[c] = "read" =>
           snap'[c].runs = db.runs \/ (pc[c] = "read" /\ snap'[c] = snap[c])
  PROVE  IInv'
<1>1. FiringsFit'
  <2>1. FiringsFit
    BY DEF IInv
  <2>2. \A c \in Schedulers : pc'[c] = "read" =>
          \A r \in RunIds : Fired(db.runs[r]) =>
            Fired(snap'[c].runs[r]) /\ SameRun(snap'[c].runs[r], db.runs[r])
    BY <2>1 DEF FiringsFit, SameRun
  <2> QED BY <2>1, <2>2 DEF FiringsFit
<1>2. BudgetFits'
  <2>1. PICK plan \in Plans : PlanFits(plan)
    BY DEF IInv, BudgetFits
  <2>2. \A c \in Callers, t \in Tasks : ScheduleOnPlan(plan[t], snap'[c].schedules[t])
    BY <2>1 DEF PlanFits, ScheduleOnPlan
  <2>3. PlanFits(plan)'
    BY <2>1, <2>2 DEF PlanFits
  <2> QED BY <2>3 DEF BudgetFits
<1>3. /\ TablesFit(db)' /\ InsertsOnce' /\ \A c \in Callers : QueueFits(db, queue[c])'
  BY DEF IInv, InsertsOnce
<1> QED BY <1>1, <1>2, <1>3 DEF IInv

\* The clock changes nothing that was read or queued.
LEMMA TickFits == ASSUME IInv, Tick PROVE IInv'
<1>1. Typed'
  BY BoundsAssumption DEF IInv, Typed, Tick
<1>2. UNCHANGED <<db, queue, snap, pc>>
  BY DEF Tick
<1>3. \A c \in Callers : RowsFit(db, snap[c]) /\ RunsStand(db, snap[c])
  BY DEF IInv
<1> QED BY <1>1, <1>2, <1>3, SnapshotStep

\* What is read is what stands; nobody fires between the last SELECT and the decision.
LEMMA ReadTablesFits ==
  ASSUME IInv, NEW c \in Callers, ReadTables(c)
  PROVE  IInv'
<1> DEFINE s == snap[c]
<1>1. /\ Typed /\ s \in Rows /\ db \in Rows /\ snap \in [Callers -> Rows]
      /\ RowsFit(db, s) /\ RunsStand(db, s) /\ RowsFit(db, db)
  BY DEF IInv, Typed, TablesFit
<1>2. UNCHANGED <<db, queue>> /\ pc[c] # "writing"
  BY DEF ReadTables
<1>3. PICK new \in Rows :
        /\ snap' = [snap EXCEPT ![c] = new]
        /\ RowsFit(db, new) /\ RunsStand(db, new)
        /\ new.schedules \in {s.schedules, db.schedules}
        /\ pc'[c] = "read" => new.runs = db.runs
  <2>1. CASE pc[c] = "idle"
    <3> DEFINE new == [s EXCEPT !.tasks = db.tasks]
    <3>1. snap' = [snap EXCEPT ![c] = new] /\ pc'[c] = "tasksRead"
      BY <1>1, <2>1 DEF ReadTables, Typed
    <3>2. /\ new \in Rows /\ new.tasks = db.tasks /\ new.schedules = s.schedules
          /\ new.runs = s.runs
      BY <1>1 DEF Rows
    <3> HIDE DEF new
    <3>3. RowsFit(db, new) /\ RunsStand(db, new)
      BY <1>1, <3>2 DEF RowsFit, RunsStand, Stands
    <3> QED BY <3>1, <3>2, <3>3
  <2>2. CASE pc[c] = "tasksRead"
    <3> DEFINE new == [s EXCEPT !.schedules = db.schedules]
    <3>1. snap' = [snap EXCEPT ![c] = new] /\ pc'[c] = "schedulesRead"
      BY <1>1, <2>2 DEF ReadTables, Typed
    <3>2. /\ new \in Rows /\ new.tasks = s.tasks /\ new.schedules = db.schedules
          /\ new.runs = s.runs
      BY <1>1 DEF Rows
    <3> HIDE DEF new
    <3>3. RowsFit(db, new) /\ RunsStand(db, new)
      BY <1>1, <3>2 DEF RowsFit, RunsStand, Stands
    <3> QED BY <3>1, <3>2, <3>3
  <2>3. CASE pc[c] = "schedulesRead"
    <3> DEFINE new == [s EXCEPT !.runs = db.runs]
    <3>1. snap' = [snap EXCEPT ![c] = new]
      BY <1>1, <2>3 DEF ReadTables, Typed
    <3>2. /\ new \in Rows /\ new.tasks = s.tasks /\ new.schedules = s.schedules
          /\ new.runs = db.runs
      BY <1>1 DEF Rows
    <3> HIDE DEF new
    <3>3. RowsFit(db, new) /\ RunsStand(db, new)
      BY <1>1, <3>2 DEF RowsFit, RunsStand, Stands, SameRun
    <3> QED BY <3>1, <3>2, <3>3
  <2> QED BY <2>1, <2>2, <2>3 DEF ReadTables
<1>4. /\ snap' \in [Callers -> Rows] /\ snap'[c] = new
      /\ \A b \in Callers \ {c} : snap'[b] = snap[b]
  BY <1>1, <1>3
<1>5. /\ \A b \in Callers \ {c} : pc'[b] = pc[b]
      /\ pc' \in [Callers -> {"idle", "tasksRead", "schedulesRead", "read", "writing"}]
      /\ pc'[c] # "writing"
  BY <1>1 DEF ReadTables, Typed
<1>6. Typed'
  <2>1. at' \in [Callers -> 0 .. MaxTime] /\ now' = now
    BY <1>1 DEF ReadTables, Typed
  <2> QED BY <1>1, <1>2, <1>4, <1>5, <2>1 DEF Typed
<1>7. ASSUME NEW b \in Callers
      PROVE  /\ RowsFit(db, snap'[b]) /\ RunsStand(db, snap'[b])
             /\ \A t \in Tasks : snap'[b].schedules[t] \in {snap[b].schedules[t], db.schedules[t]}
  BY <1>3, <1>4 DEF IInv
<1>8. ASSUME NEW b \in Schedulers, pc'[b] = "read"
      PROVE  snap'[b].runs = db.runs \/ (pc[b] = "read" /\ snap'[b] = snap[b])
  BY <1>3, <1>4, <1>5, <1>8, CallersAssumption
<1> QED BY <1>2, <1>6, <1>7, <1>8, SnapshotStep

\* Empty tables fit.
LEMMA NoTablesFit ==
  NoTables \in Rows /\ RowsFit(NoTables, NoTables) /\ RunsStand(NoTables, NoTables)
<1>1. NoTables \in Rows
  BY DEF NoTables, Rows, Tables!NoTask, Tables!NoSchedule, Tables!NoRun, TaskRows,
         ScheduleRows, RunRows, Kinds
<1>2. /\ \A t \in Tasks : NoTables.tasks[t] = Tables!NoTask
      /\ \A t \in Tasks : NoTables.schedules[t] = Tables!NoSchedule
      /\ \A r \in RunIds : NoTables.runs[r] = Tables!NoRun
      /\ NoTables.revisions = {}
  BY DEF NoTables
<1> QED BY <1>1, <1>2 DEF RowsFit, RunsStand, TaskFits, ScheduleFits, RunFits, Stands,
             Tables!NoTask, Tables!NoSchedule, Tables!NoRun

\* A caller that holds no rows fits every state of the tables.
LEMMA NothingReadFits ==
  ASSUME NEW d
  PROVE  /\ RowsFit(d, NoTables) /\ RunsStand(d, NoTables)
         /\ \A t \in Tasks : NoTables.schedules[t].status = "absent"
<1>2. /\ \A t \in Tasks : NoTables.tasks[t] = Tables!NoTask
      /\ \A t \in Tasks : NoTables.schedules[t] = Tables!NoSchedule
      /\ \A r \in RunIds : NoTables.runs[r] = Tables!NoRun
  BY DEF NoTables
<1> QED BY <1>2 DEF RowsFit, RunsStand, TaskFits, ScheduleFits, RunFits, Stands,
             Tables!NoTask, Tables!NoSchedule, Tables!NoRun

\* What was queued is lost; what stands keeps to the plan.
LEMMA CrashFits == ASSUME IInv, Crash PROVE IInv'
<1>1. /\ UNCHANGED <<db, now>> /\ queue' = [c \in Callers |-> <<>>]
      /\ pc' = [c \in Callers |-> "idle"] /\ snap' = [c \in Callers |-> NoTables]
      /\ at' = [c \in Callers |-> 0]
  BY DEF Crash
<1>2. Typed'
  <2>1. <<>> \in Seq(Statements) /\ 0 \in 0 .. MaxTime
    BY BoundsAssumption
  <2> QED BY <1>1, <2>1, NoTablesFit DEF IInv, Typed
<1>3. \A c \in Callers : QueueFits(db', queue'[c])
  BY <1>1 DEF QueueFits
<1>4. InsertsOnce'
  BY <1>1 DEF InsertsOnce
<1>5. FiringsFit'
  BY <1>1, CallersAssumption DEF IInv, FiringsFit
<1>6. BudgetFits'
  <2>1. PICK plan \in Plans : PlanFits(plan)
    BY DEF IInv, BudgetFits
  <2>2. \A c \in Callers, t \in Tasks : ScheduleOnPlan(plan[t], snap'[c].schedules[t])
    BY <1>1, NothingReadFits DEF ScheduleOnPlan
  <2>3. \A c \in Callers : DOMAIN queue'[c] = {}
    BY <1>1
  <2>4. PlanFits(plan)'
    BY <1>1, <2>1, <2>2, <2>3 DEF PlanFits
  <2> QED BY <2>4 DEF BudgetFits
<1>7. \A c \in Callers : RowsFit(db', snap'[c]) /\ RunsStand(db', snap'[c])
  BY <1>1, NothingReadFits
<1>8. TablesFit(db')
  BY <1>1 DEF IInv
<1> QED BY <1>2, <1>3, <1>4, <1>5, <1>6, <1>7, <1>8 DEF IInv

\* No row, no statement.
LEMMA InitIInv == Init => IInv
<1> SUFFICES ASSUME Init PROVE IInv
  OBVIOUS
<1>1. /\ db = NoTables /\ now = 0 /\ queue = [c \in Callers |-> <<>>]
      /\ pc = [c \in Callers |-> "idle"] /\ snap = [c \in Callers |-> NoTables]
      /\ at = [c \in Callers |-> 0]
  BY DEF Init
<1>2. /\ \A t \in Tasks : db.schedules[t].status = "absent"
      /\ \A r \in RunIds : db.runs[r].status = "absent"
      /\ db.revisions = {}
  BY <1>1 DEF NoTables, Tables!NoSchedule, Tables!NoRun
<1>3. Typed
  <2>1. <<>> \in Seq(Statements) /\ 0 \in 0 .. MaxTime
    BY BoundsAssumption
  <2> QED BY <1>1, <2>1, NoTablesFit DEF Typed
<1>4. \A c \in Callers : QueueFits(db, queue[c])
  BY <1>1 DEF QueueFits
<1>5. InsertsOnce
  BY <1>1 DEF InsertsOnce
<1>6. FiringsFit
  <2>1. \A r \in RunIds : ~Fired(db.runs[r])
    BY <1>2 DEF Fired
  <2>2. \A c \in Callers : queue[c] = <<>> /\ pc[c] # "read"
    BY <1>1
  <2> QED BY <2>1, <2>2, CallersAssumption DEF FiringsFit
<1>7. BudgetFits
  <2> DEFINE plan == [t \in Tasks |-> [first |-> 0, maxRuns |-> None]]
  <2>1. plan \in Plans
    BY DEF Plans
  <2> HIDE DEF plan
  <2>2. PlanFits(plan)
    BY <1>1, <1>2, NothingReadFits DEF PlanFits, ScheduleOnPlan, Fired
  <2> QED BY <2>1, <2>2 DEF BudgetFits
<1>8. \A c \in Callers : RowsFit(db, snap[c]) /\ RunsStand(db, snap[c])
  BY <1>1, NothingReadFits
<1>9. TablesFit(db)
  BY <1>1, <1>2, NoTablesFit DEF TablesFit, Confirmed
<1> QED BY <1>3, <1>4, <1>5, <1>6, <1>7, <1>8, <1>9 DEF IInv

-----------------------------------------------------------------------------
(* The methods queue statements that fit.                                  *)

QueueOnPlan(plan, q) ==
  \A i \in DOMAIN q :
    /\ q[i].do \in {"insertSchedule", "updateSchedule"} => ScheduleOnPlan(plan[q[i].id], q[i].row)
    /\ Fires(q, i) => RunOnPlan(plan[q[i].row.task], q[i].row)

TakesFreshId(q) ==
  \A i \in DOMAIN q : q[i].do = "insertRun" =>
    /\ ~Queued("insertRun", q[i].id)
    /\ \A j \in DOMAIN q : q[j].do = "insertRun" => i = j

FiresAnew(c, q) ==
  \A i \in DOMAIN q : Fires(q, i) =>
    /\ c \in Schedulers
    /\ \A r \in RunIds : ~(Fired(db.runs[r]) /\ SameFiring(db.runs[r], q[i].row))

\* A decision keeps the invariant when its statements fit, take a free id, fire anew and keep to
\* the plan.
LEMMA QueueStep ==
  ASSUME IInv, NEW c \in Callers, NEW q \in Seq(Statements), Queue(c, q),
         QueueFits(db, q), TakesFreshId(q), FiresAnew(c, q),
         NEW plan \in Plans, PlanFits(plan), QueueOnPlan(plan, q)
  PROVE  IInv'
<1>1. /\ UNCHANGED <<db, now>> /\ pc[c] = "read"
      /\ queue' \in [Callers -> Seq(Statements)] /\ queue'[c] = q
      /\ \A b \in Callers \ {c} : queue'[b] = queue[b]
      /\ snap' = [snap EXCEPT ![c] = NoTables]
      /\ at' = [at EXCEPT ![c] = 0]
      /\ pc' = [pc EXCEPT ![c] = IF q = <<>> THEN "idle" ELSE "writing"]
  BY DEF IInv, Typed, Queue
<1>2. Typed'
  <2>1. 0 \in 0 .. MaxTime
    BY BoundsAssumption
  <2> QED BY <1>1, <2>1, NoTablesFit DEF IInv, Typed
<1>3. \A b \in Callers : snap'[b] = IF b = c THEN NoTables ELSE snap[b]
  BY <1>1 DEF IInv, Typed
<1>4. \A b \in Callers : QueueFits(db', queue'[b])
  BY <1>1 DEF IInv
<1>5. InsertsOnce'
  <2> SUFFICES ASSUME NEW a \in Callers, NEW b \in Callers,
                      NEW i \in DOMAIN queue'[a], NEW j \in DOMAIN queue'[b], NEW r \in RunIds,
                      Inserts(queue'[a], i, r), Inserts(queue'[b], j, r)
               PROVE  a = b /\ i = j
    BY DEF InsertsOnce
  <2>1. CASE a = c /\ b = c
    BY <1>1, <2>1 DEF TakesFreshId, Inserts
  <2>2. CASE a # c /\ b # c
    BY <1>1, <2>2 DEF IInv, InsertsOnce
  <2>3. CASE a = c /\ b # c
    BY <1>1, <2>3 DEF TakesFreshId, Inserts, Queued
  <2>4. CASE a # c /\ b = c
    BY <1>1, <2>4 DEF TakesFreshId, Inserts, Queued
  <2> QED BY <2>1, <2>2, <2>3, <2>4
<1>6. FiringsFit'
  <2>1. FiringsFit
    BY DEF IInv
  <2>2. ASSUME NEW b \in Callers, NEW i \in DOMAIN queue'[b], Fires(queue'[b], i)
        PROVE  /\ b \in Schedulers
               /\ \A j \in DOMAIN queue'[b] : Fires(queue'[b], j) => i = j
               /\ \A r \in RunIds :
                    ~(Fired(db.runs[r]) /\ SameFiring(db.runs[r], queue'[b][i].row))
    <3>1. CASE b = c
      BY <1>1, <2>2, <3>1 DEF FiresAnew, TakesFreshId, Fires
    <3>2. CASE b # c
      BY <1>1, <2>1, <2>2, <3>2 DEF FiringsFit, Fires
    <3> QED BY <3>1, <3>2
  <2>3. \A b \in Schedulers : pc'[b] = "read" => pc[b] = "read" /\ snap'[b] = snap[b]
    BY <1>1, <1>3, CallersAssumption DEF IInv, Typed
  <2> QED BY <1>1, <2>1, <2>2, <2>3 DEF FiringsFit
<1>7. BudgetFits'
  <2>1. ASSUME NEW b \in Callers, NEW t \in Tasks
        PROVE  ScheduleOnPlan(plan[t], snap'[b].schedules[t])
    <3>1. CASE b = c
      BY <1>3, <3>1, NothingReadFits DEF ScheduleOnPlan
    <3>2. CASE b # c
      BY <1>3, <3>2 DEF PlanFits
    <3> QED BY <3>1, <3>2
  <2>2. ASSUME NEW b \in Callers, NEW i \in DOMAIN queue'[b]
        PROVE  /\ queue'[b][i].do \in {"insertSchedule", "updateSchedule"} =>
                    ScheduleOnPlan(plan[queue'[b][i].id], queue'[b][i].row)
               /\ Fires(queue'[b], i) =>
                    RunOnPlan(plan[queue'[b][i].row.task], queue'[b][i].row)
    BY <1>1 DEF PlanFits, QueueOnPlan
  <2>3. PlanFits(plan)'
    BY <1>1, <2>1, <2>2 DEF PlanFits
  <2> QED BY <2>3 DEF BudgetFits
<1>8. \A b \in Callers : RowsFit(db', snap'[b]) /\ RunsStand(db', snap'[b])
  BY <1>1, <1>3, NothingReadFits DEF IInv
<1>9. TablesFit(db')
  BY <1>1 DEF IInv
<1> QED BY <1>2, <1>4, <1>5, <1>6, <1>7, <1>8, <1>9 DEF IInv

\* A call that writes nothing.
LEMMA GiveUpFits == ASSUME IInv, NEW c \in Callers, GiveUp(c) PROVE IInv'
<1>1. PICK plan \in Plans : PlanFits(plan)
  BY DEF IInv, BudgetFits
<1>2. /\ <<>> \in Seq(Statements) /\ QueueFits(db, <<>>) /\ TakesFreshId(<<>>)
      /\ FiresAnew(c, <<>>) /\ QueueOnPlan(plan, <<>>)
  BY DEF QueueFits, TakesFreshId, FiresAnew, QueueOnPlan
<1> QED BY <1>1, <1>2, QueueStep DEF GiveUp

\* What a caller that has read knows.
LEMMA WhatIsRead ==
  ASSUME IInv, NEW c \in Callers
  PROVE  /\ Typed
         /\ \A t \in Tasks :
              /\ snap[c].tasks[t] \in TaskRows /\ TaskFits(db, t, snap[c].tasks[t])
              /\ snap[c].schedules[t] \in ScheduleRows
              /\ snap[c].schedules[t].status # "absent" => Confirmed(db, t, 1)
         /\ \A r \in RunIds :
              /\ snap[c].runs[r] \in RunRows /\ RunFits(db, snap[c].runs[r])
              /\ snap[c].runs[r].status # "absent" =>
                   Stands(db, r) /\ SameRun(snap[c].runs[r], db.runs[r])
         /\ \A plan \in Plans : PlanFits(plan) =>
              \A t \in Tasks : ScheduleOnPlan(plan[t], snap[c].schedules[t])
<1>1. Typed /\ snap[c] \in Rows /\ RowsFit(db, snap[c]) /\ RunsStand(db, snap[c])
  BY DEF IInv, Typed
<1>2. \A t \in Tasks :
        /\ snap[c].tasks[t] \in TaskRows /\ TaskFits(db, t, snap[c].tasks[t])
        /\ snap[c].schedules[t] \in ScheduleRows
        /\ snap[c].schedules[t].status # "absent" => Confirmed(db, t, 1)
  BY <1>1 DEF Rows, RowsFit, ScheduleFits
<1>3. \A r \in RunIds :
        /\ snap[c].runs[r] \in RunRows /\ RunFits(db, snap[c].runs[r])
        /\ snap[c].runs[r].status # "absent" =>
             Stands(db, r) /\ SameRun(snap[c].runs[r], db.runs[r])
  BY <1>1 DEF Rows, RowsFit, RunsStand, Stands
<1>4. \A plan \in Plans : PlanFits(plan) =>
        \A t \in Tasks : ScheduleOnPlan(plan[t], snap[c].schedules[t])
  BY DEF PlanFits
<1> QED BY <1>1, <1>2, <1>3, <1>4

\* A statement that needs none before it, and neither inserts nor fires.
PlainFits(plan, s) ==
  /\ s \in Statements
  /\ s.do \in {"updateTask", "updateSchedule", "updateRun", "revise"}
  /\ s.do = "updateTask" => s.row.status # "absent" /\ TaskFits(db, s.id, s.row)
  /\ s.do = "updateSchedule" =>
       /\ s.row.status # "absent" /\ Confirmed(db, s.id, 1)
       /\ ScheduleOnPlan(plan[s.id], s.row)
  /\ s.do = "updateRun" => Stands(db, s.id)
  /\ s.do = "revise" =>
       /\ Known(db, s.id)
       /\ s.row.source # None => Stands(db, s.row.source) /\ db.runs[s.row.source].task = s.id

PlainQueue(plan, q) == q \in Seq(Statements) /\ \A i \in DOMAIN q : PlainFits(plan, q[i])

\* Neither does it fire nor take an id.
LEMMA PlainStatement ==
  ASSUME NEW plan, NEW q, NEW i \in DOMAIN q, PlainFits(plan, q[i])
  PROVE  /\ StatementFits(db, q, i) /\ q[i].do # "insertRun" /\ ~Fires(q, i)
         /\ q[i].do \in {"insertSchedule", "updateSchedule"} =>
              ScheduleOnPlan(plan[q[i].id], q[i].row)
  BY DEF PlainFits, StatementFits, Fires

\* One plain statement.
LEMMA PlainOne ==
  ASSUME NEW plan, NEW s, PlainFits(plan, s)
  PROVE  PlainQueue(plan, <<s>>)
  BY DEF PlainQueue, PlainFits

\* None.
LEMMA PlainNone == ASSUME NEW plan PROVE PlainQueue(plan, <<>>)
  BY DEF PlainQueue

\* Plain statements after plain statements.
LEMMA PlainConcat ==
  ASSUME NEW plan, NEW p, NEW q, PlainQueue(plan, p), PlainQueue(plan, q)
  PROVE  PlainQueue(plan, p \o q)
<1>1. /\ p \in Seq(Statements) /\ q \in Seq(Statements) /\ p \o q \in Seq(Statements)
      /\ Len(p \o q) = Len(p) + Len(q)
      /\ \A i \in 1 .. Len(p) + Len(q) :
           (p \o q)[i] = IF i <= Len(p) THEN p[i] ELSE q[i - Len(p)]
  BY ConcatProperties DEF PlainQueue
<1>2. ASSUME NEW i \in DOMAIN (p \o q) PROVE PlainFits(plan, (p \o q)[i])
  <2>1. i \in 1 .. Len(p) + Len(q)
    BY <1>1
  <2>2. CASE i <= Len(p)
    BY <1>1, <2>1, <2>2 DEF PlainQueue
  <2>3. CASE ~(i <= Len(p))
    <3>1. i - Len(p) \in DOMAIN q
      BY <1>1, <2>1, <2>3
    <3> QED BY <1>1, <2>1, <2>3, <3>1 DEF PlainQueue
  <2> QED BY <2>2, <2>3
<1> QED BY <1>1, <1>2 DEF PlainQueue

\* A decision that queues plain statements only keeps the invariant.
LEMMA PlainStep ==
  ASSUME IInv, NEW c \in Callers, NEW plan \in Plans, PlanFits(plan),
         NEW q, PlainQueue(plan, q), Queue(c, q)
  PROVE  IInv'
<1>1. /\ QueueFits(db, q) /\ TakesFreshId(q) /\ FiresAnew(c, q) /\ QueueOnPlan(plan, q)
  BY PlainStatement DEF PlainQueue, QueueFits, TakesFreshId, FiresAnew, QueueOnPlan
<1> QED BY <1>1, QueueStep DEF PlainQueue

\* The UPDATE of a task.
LEMMA PlainTask ==
  ASSUME NEW plan, NEW t \in Tasks, NEW row \in TaskRows, row.status # "absent",
         TaskFits(db, t, row)
  PROVE  PlainFits(plan, UpdateTask(t, row))
  BY DEF PlainFits, UpdateTask, Statement, Statements

\* The UPDATE of a schedule.
LEMMA PlainSchedule ==
  ASSUME NEW plan, NEW t \in Tasks, NEW row \in ScheduleRows, row.status # "absent",
         Confirmed(db, t, 1), ScheduleOnPlan(plan[t], row)
  PROVE  PlainFits(plan, UpdateSchedule(t, row))
  BY DEF PlainFits, UpdateSchedule, Statement, Statements

\* The UPDATE of a run.
LEMMA PlainRun ==
  ASSUME NEW plan, NEW r \in RunIds, NEW status \in RunStates, Stands(db, r)
  PROVE  PlainFits(plan, UpdateRun(r, status))
  BY DEF PlainFits, UpdateRun, Statement, Statements

\* reviseWorkTask: the revision and its row are one statement.
LEMMA ReviseWorkTaskFits ==
  ASSUME IInv, NEW c \in Callers, NEW t \in Tasks, NEW src \in RunIds \cup {None},
         ReviseWorkTask(c, t, src)
  PROVE  IInv'
<1> DEFINE n == snap[c].tasks[t].revision + 1
           s == Statement("revise", t, [revision |-> n, source |-> src])
<1>1. PICK plan \in Plans : PlanFits(plan)
  BY DEF IInv, BudgetFits
<1>2. /\ snap[c].tasks[t] \in TaskRows /\ snap[c].tasks[t].status = "active"
      /\ snap[c].tasks[t].revision < MaxRevision
      /\ Known(db, t)
  BY WhatIsRead DEF ReviseWorkTask, Snap!MayRevise, TaskFits
<1>3. n \in 1 .. MaxRevision
  BY <1>2, BoundsAssumption DEF TaskRows
<1>4. src # None => Stands(db, src) /\ db.runs[src].task = t
  <2> SUFFICES ASSUME src # None PROVE Stands(db, src) /\ db.runs[src].task = t
    OBVIOUS
  <2>1. src \in RunIds /\ snap[c].runs[src].status # "absent" /\ snap[c].runs[src].task = t
    BY DEF ReviseWorkTask, Snap!MayRevise, Snap!ActiveRunsOf, Snap!RunsOf
  <2> QED BY <2>1, WhatIsRead DEF SameRun
<1> HIDE DEF n
<1>5. PlainFits(plan, s)
  BY <1>2, <1>3, <1>4 DEF PlainFits, Statement, Statements
<1>6. Queue(c, <<s>>)
  BY DEF ReviseWorkTask, n
<1> HIDE DEF s
<1> QED BY <1>1, <1>5, <1>6, PlainOne, PlainStep

\* moveWorkSchedule: a stale row may become live again, and is behind in both columns.
LEMMA MoveWorkScheduleFits ==
  ASSUME IInv, NEW c \in Callers, NEW t \in Tasks, NEW to \in {"paused", "enabled"},
         MoveWorkSchedule(c, t, to)
  PROVE  IInv'
<1> DEFINE s == snap[c].schedules[t]
           row == [s EXCEPT !.status = to]
<1>1. PICK plan \in Plans : PlanFits(plan)
  BY DEF IInv, BudgetFits
<1>2. s \in ScheduleRows /\ ScheduleOnPlan(plan[t], s)
  BY <1>1, WhatIsRead
<1>3. s.status \in Live
  BY DEF MoveWorkSchedule, Snap!ScheduleTransitions, Snap!LiveSchedule, Live
<1>4. Confirmed(db, t, 1)
  BY <1>3, WhatIsRead DEF Live
<1>5. row \in ScheduleRows /\ row.status \in Live /\ row.status # "absent"
  BY <1>2 DEF ScheduleRows, Live
<1>6. ScheduleOnPlan(plan[t], row)
  <2>1. row.maxRuns = s.maxRuns /\ row.nextRunAt = s.nextRunAt /\ row.runCount = s.runCount
    BY <1>2 DEF ScheduleRows
  <2> HIDE DEF row, s
  <2> QED BY <1>2, <1>3, <2>1 DEF ScheduleOnPlan, Live
<1>7. Queue(c, <<UpdateSchedule(t, row)>>)
  BY DEF MoveWorkSchedule
<1> HIDE DEF row
<1>8. PlainFits(plan, UpdateSchedule(t, row))
  BY <1>4, <1>5, <1>6, PlainSchedule
<1> QED BY <1>1, <1>7, <1>8, PlainOne, PlainStep

\* archiveWorkTask.
LEMMA ArchiveWorkTaskFits ==
  ASSUME IInv, NEW c \in Callers, NEW t \in Tasks, ArchiveWorkTask(c, t)
  PROVE  IInv'
<1> DEFINE s == snap[c].tasks[t]
           row == [s EXCEPT !.status = "archived", !.archivedFrom = s.status]
<1>1. PICK plan \in Plans : PlanFits(plan)
  BY DEF IInv, BudgetFits
<1>2. s \in TaskRows /\ TaskFits(db, t, s) /\ s.status \in {"completed", "canceled"}
  BY WhatIsRead DEF ArchiveWorkTask
<1>3. row \in TaskRows /\ row.status # "absent" /\ TaskFits(db, t, row)
  BY <1>2, ArchivedTaskRow, Zenon
<1>4. Queue(c, <<UpdateTask(t, row)>>)
  BY Zenon DEF ArchiveWorkTask
<1> HIDE DEF row
<1> QED BY <1>1, <1>3, <1>4, PlainTask, PlainOne, PlainStep

\* restoreWorkTask: the status it restores was remembered.
LEMMA RestoreWorkTaskFits ==
  ASSUME IInv, NEW c \in Callers, NEW t \in Tasks, RestoreWorkTask(c, t)
  PROVE  IInv'
<1> DEFINE s == snap[c].tasks[t]
           row == [s EXCEPT !.status = s.archivedFrom]
<1>1. PICK plan \in Plans : PlanFits(plan)
  BY DEF IInv, BudgetFits
<1>2. s \in TaskRows /\ TaskFits(db, t, s) /\ s.status = "archived"
  BY WhatIsRead DEF RestoreWorkTask
<1>3. s.archivedFrom \in {"active", "completed", "canceled"}
  BY <1>2 DEF TaskFits, TaskRows
<1>4. row \in TaskRows /\ row.status # "absent" /\ TaskFits(db, t, row)
  BY <1>2, <1>3, MovedTaskRow, Zenon
<1>5. Queue(c, <<UpdateTask(t, row)>>)
  BY Zenon DEF RestoreWorkTask
<1> HIDE DEF row
<1> QED BY <1>1, <1>4, <1>5, PlainTask, PlainOne, PlainStep

\* cancelWorkTask: the task, its schedule, its runs.
LEMMA CancelWorkTaskFits ==
  ASSUME IInv, NEW c \in Callers, NEW t \in Tasks, CancelWorkTask(c, t)
  PROVE  IInv'
<1> DEFINE s == snap[c].tasks[t]
           schedule == snap[c].schedules[t]
           row == [s EXCEPT !.status = "canceled"]
           runs == Snap(c)!ActiveRunsOf(t)
           first == <<UpdateTask(t, row)>>
           second == IF schedule.status \in Snap(c)!LiveSchedule
                     THEN <<UpdateSchedule(t, Snap(c)!CanceledSchedule(schedule))>>
                     ELSE <<>>
<1>1. PICK plan \in Plans : PlanFits(plan)
  BY DEF IInv, BudgetFits
<1>2. PICK active \in InOrder(runs) :
        Queue(c, first \o second \o [i \in DOMAIN active |-> UpdateRun(active[i], "canceled")])
  BY Zenon DEF CancelWorkTask
<1> DEFINE third == [i \in DOMAIN active |-> UpdateRun(active[i], "canceled")]
<1>3. PlainQueue(plan, first)
  <2>1. s \in TaskRows /\ TaskFits(db, t, s) /\ s.status # "absent"
    BY WhatIsRead DEF CancelWorkTask, Snap!MayCancel
  <2>2. row \in TaskRows /\ row.status # "absent" /\ TaskFits(db, t, row)
    BY <2>1, MovedTaskRow, Zenon
  <2> HIDE DEF row
  <2> QED BY <2>2, PlainTask, PlainOne
<1>4. PlainQueue(plan, second)
  <2>1. CASE schedule.status \in Snap(c)!LiveSchedule
    <3> DEFINE new == Snap(c)!CanceledSchedule(schedule)
    <3>1. /\ schedule \in ScheduleRows /\ schedule.status # "absent"
          /\ Confirmed(db, t, 1) /\ ScheduleOnPlan(plan[t], schedule)
      BY <1>1, <2>1, WhatIsRead DEF Snap!LiveSchedule
    <3>2. new \in ScheduleRows /\ new.status # "absent" /\ ScheduleOnPlan(plan[t], new)
      BY <3>1, CanceledScheduleRow
    <3> HIDE DEF new
    <3>3. PlainQueue(plan, <<UpdateSchedule(t, new)>>)
      BY <3>1, <3>2, PlainSchedule, PlainOne
    <3> QED BY <2>1, <3>3 DEF new
  <2>2. CASE schedule.status \notin Snap(c)!LiveSchedule
    BY <2>2, PlainNone
  <2> QED BY <2>1, <2>2
<1>5. PlainQueue(plan, third)
  <2>1. \A r \in runs : r \in RunIds /\ Stands(db, r)
    BY WhatIsRead DEF Snap!ActiveRunsOf, Snap!RunsOf
  <2>2. IsFiniteSet(runs)
    BY <2>1, RunIdsAssumption, FS_Subset
  <2> HIDE DEF runs
  <2>3. Cardinality(runs) \in Nat /\ active \in [1 .. Cardinality(runs) -> runs]
    BY <1>2, <2>2, FS_CardinalityType DEF InOrder
  <2>4. \A i \in DOMAIN active : PlainFits(plan, UpdateRun(active[i], "canceled"))
    BY <2>1, <2>3, PlainRun DEF RunStates
  <2>5. \A i \in DOMAIN active : UpdateRun(active[i], "canceled") \in Statements
    BY <2>4 DEF PlainFits
  <2>6. third \in Seq(Statements) /\ DOMAIN third = DOMAIN active
    BY <2>3, <2>5
  <2> QED BY <2>4, <2>6 DEF PlainQueue
<1> HIDE DEF first, second, third
<1>6. PlainQueue(plan, first \o second \o third)
  BY <1>3, <1>4, <1>5, PlainConcat
<1> QED BY <1>1, <1>2, <1>6, PlainStep DEF third

\* moveWorkRun: the run, then the task, then the schedule.
LEMMA MoveWorkRunFits ==
  ASSUME IInv, NEW c \in Callers, NEW r \in RunIds,
         NEW to \in Snap(c)!ActiveRun \cup Snap(c)!TerminalRun, MoveWorkRun(c, r, to)
  PROVE  IInv'
<1> DEFINE t == snap[c].runs[r].task
           first == <<UpdateRun(r, to)>>
           settle == <<UpdateTask(t, Snap(c)!SettledTask(t, to))>>
           close == IF Snap(c)!HasSchedule(t)
                    THEN <<UpdateSchedule(t, Snap(c)!SettledSchedule(t))>> ELSE <<>>
           rest == IF to \notin Snap(c)!TerminalRun \/ ~SeesTask(c, t) THEN <<>>
                   ELSE settle \o close
<1>1. PICK plan \in Plans : PlanFits(plan)
  BY DEF IInv, BudgetFits
<1>2. Queue(c, first \o rest)
  BY Zenon DEF MoveWorkRun
<1>3. /\ Stands(db, r) /\ t \in Tasks
  <2>1. snap[c].runs[r].status # "absent"
    BY DEF MoveWorkRun, Snap!RunTransitions
  <2> QED BY <2>1, WhatIsRead DEF RunFits
<1>4. PlainQueue(plan, first)
  <2>1. to \in RunStates
    BY DEF Snap!ActiveRun, Snap!TerminalRun, RunStates
  <2> QED BY <1>3, <2>1, PlainRun, PlainOne
<1>5. ASSUME to \in Snap(c)!TerminalRun, SeesTask(c, t)
      PROVE  PlainQueue(plan, settle)
  <2>1. /\ snap[c].tasks[t] \in TaskRows /\ TaskFits(db, t, snap[c].tasks[t])
        /\ snap[c].tasks[t].status # "absent"
    BY <1>3, <1>5, WhatIsRead DEF SeesTask
  <2> DEFINE row == Snap(c)!SettledTask(t, to)
  <2>2. row \in TaskRows /\ row.status # "absent" /\ TaskFits(db, t, row)
    BY <1>3, <1>5, <2>1, SettledTaskRow DEF Snap!TerminalRun
  <2> HIDE DEF row
  <2>3. PlainQueue(plan, <<UpdateTask(t, row)>>)
    BY <1>3, <2>2, PlainTask, PlainOne
  <2> QED BY <2>3 DEF row
<1>6. PlainQueue(plan, close)
  <2>1. CASE Snap(c)!HasSchedule(t)
    <3> DEFINE row == Snap(c)!SettledSchedule(t)
    <3>1. /\ snap[c].schedules[t].status # "absent" /\ Confirmed(db, t, 1)
          /\ ScheduleOnPlan(plan[t], snap[c].schedules[t])
      BY <1>1, <1>3, <2>1, WhatIsRead DEF Snap!HasSchedule
    <3>2. row \in ScheduleRows /\ row.status # "absent" /\ ScheduleOnPlan(plan[t], row)
      BY <1>3, <3>1, SettledScheduleRow DEF IInv
    <3> HIDE DEF row
    <3>3. PlainQueue(plan, <<UpdateSchedule(t, row)>>)
      BY <1>3, <3>1, <3>2, PlainSchedule, PlainOne
    <3> QED BY <2>1, <3>3 DEF row
  <2>2. CASE ~Snap(c)!HasSchedule(t)
    BY <2>2, PlainNone
  <2> QED BY <2>1, <2>2
<1> HIDE DEF first, settle, close
<1>7. PlainQueue(plan, first \o rest)
  BY <1>4, <1>5, <1>6, PlainNone, PlainConcat
<1> HIDE DEF rest
<1> QED BY <1>1, <1>2, <1>7, PlainStep

-----------------------------------------------------------------------------
(* The methods that insert.                                                *)

\* Sequences that are the same element by element.
LEMMA ConcatIs ==
  ASSUME NEW S, NEW p \in Seq(S), NEW q \in Seq(S), NEW u \in Seq(S),
         Len(u) = Len(p) + Len(q),
         \A i \in 1 .. Len(u) : u[i] = IF i <= Len(p) THEN p[i] ELSE q[i - Len(p)]
  PROVE  p \o q = u
  BY ConcatProperties, SeqEqual

\* createWork of a schedule, createDueWorkRun and retryWorkRun queue three statements.
LEMMA TwoAndOne ==
  ASSUME NEW S, NEW a \in S, NEW b \in S, NEW c \in S
  PROVE  <<a,b>> \o <<c>> = <<a,b,c>>
<1> DEFINE p == <<a, b>>
           q == <<c>>
           u == <<a, b, c>>
<1>1. /\ p \in Seq(S) /\ Len(p) = 2 /\ p[1] = a /\ p[2] = b
      /\ q \in Seq(S) /\ Len(q) = 1 /\ q[1] = c
      /\ u \in Seq(S) /\ Len(u) = 3 /\ u[1] = a /\ u[2] = b /\ u[3] = c
  OBVIOUS
<1> HIDE DEF p, q, u
<1>2. \A i \in 1 .. Len(u) : u[i] = IF i <= Len(p) THEN p[i] ELSE q[i - Len(p)]
  BY <1>1
<1>3. Len(u) = Len(p) + Len(q)
  BY <1>1
<1>4. p \o q = u
  BY <1>1, <1>2, <1>3, ConcatIs
<1> QED BY <1>4 DEF p, q, u

\* createWork of immediate work queues four.
LEMMA TwoAndTwo ==
  ASSUME NEW S, NEW a \in S, NEW b \in S, NEW c \in S, NEW d \in S
  PROVE  <<a,b>> \o <<c,d>> = <<a,b,c,d>>
<1> DEFINE p == <<a, b>>
           q == <<c, d>>
           u == <<a, b, c, d>>
<1>1. /\ p \in Seq(S) /\ Len(p) = 2 /\ p[1] = a /\ p[2] = b
      /\ q \in Seq(S) /\ Len(q) = 2 /\ q[1] = c /\ q[2] = d
      /\ u \in Seq(S) /\ Len(u) = 4 /\ u[1] = a /\ u[2] = b /\ u[3] = c /\ u[4] = d
  OBVIOUS
<1> HIDE DEF p, q, u
<1>2. \A i \in 1 .. Len(u) : u[i] = IF i <= Len(p) THEN p[i] ELSE q[i - Len(p)]
  BY <1>1
<1>3. Len(u) = Len(p) + Len(q)
  BY <1>1
<1>4. p \o q = u
  BY <1>1, <1>2, <1>3, ConcatIs
<1> QED BY <1>4 DEF p, q, u

\* createDueWorkRun: the one loop there is looked for a run of this trigger time and found none,
\* and nobody else fires before it writes.
LEMMA CreateDueWorkRunFits ==
  ASSUME IInv, NEW c \in Callers, pc[c] = "read", NEW t \in Tasks, NEW r \in RunIds,
         CreateDueWorkRun(c, t, r)
  PROVE  IInv'
<1> DEFINE s == snap[c].schedules[t]
           run == Snap(c)!FiredRun(t)
           row == Snap(c)!FiredSchedule(s)
           insert == Statement("insertRun", r, run)
           count == Statement("countRun", run.task, None)
           update == UpdateSchedule(t, row)
           q == <<count, insert, update>>
<1>1. PICK plan \in Plans : PlanFits(plan)
  BY DEF IInv, BudgetFits
<1>2. /\ s \in ScheduleRows /\ s.status = "enabled" /\ s.nextRunAt # None
      /\ ScheduleOnPlan(plan[t], s) /\ Confirmed(db, t, 1)
      /\ c \in Schedulers
  BY <1>1, WhatIsRead DEF CreateDueWorkRun, Snap!IsDue
<1>3. row \in ScheduleRows /\ row.status # "absent" /\ ScheduleOnPlan(plan[t], row)
  BY <1>2, FiredScheduleRow DEF Plans
<1>4. /\ run.status = "queued" /\ run.task = t /\ run.triggeredBy \in FiredBy
      /\ run.scheduledFor = s.nextRunAt /\ run.revision = snap[c].tasks[t].revision
      /\ run \in RunRows
  BY <1>2, WhatIsRead DEF Snap!FiredRun, Snap!QueuedRun, RunRows, TaskRows, ScheduleRows, FiredBy,
     RunStates
<1>5. RunFits(db, run)
  <2>1. snap[c].tasks[t].status # "absent" /\ TaskFits(db, t, snap[c].tasks[t])
    BY WhatIsRead DEF CreateDueWorkRun, SeesTask
  <2> HIDE DEF run
  <2> QED BY <1>2, <1>4, <2>1 DEF RunFits, TaskFits
<1>6. RunOnPlan(plan[t], run)
  <2> HIDE DEF run
  <2> QED BY <1>2, <1>4 DEF ScheduleOnPlan, RunOnPlan, Live
<1>7. \A p \in RunIds : ~(Fired(db.runs[p]) /\ SameFiring(db.runs[p], run))
  <2> SUFFICES ASSUME NEW p \in RunIds, Fired(db.runs[p]), SameFiring(db.runs[p], run)
               PROVE  FALSE
    OBVIOUS
  <2>1. Fired(snap[c].runs[p]) /\ SameRun(snap[c].runs[p], db.runs[p])
    BY <1>2 DEF IInv, FiringsFit
  <2>2. p \in Snap(c)!FiredRuns(t) /\ snap[c].runs[p].scheduledFor = s.nextRunAt
    BY <1>4, <2>1 DEF Snap!FiredRuns, Snap!RunsOf, Fired, FiredBy, SameRun, SameFiring
  <2> QED BY <2>2 DEF CreateDueWorkRun, Snap!AlreadyFired
<1>8. ~Stands(db, r) /\ ~Queued("insertRun", r)
  BY DEF CreateDueWorkRun, FreshRun, UsedRun, Stands
<1>9. Queue(c, <<count, insert>> \o <<update>>)
  BY Zenon DEF CreateDueWorkRun, CreateWorkRun
<1> HIDE DEF run, row
<1>10. /\ count.do = "countRun" /\ count \in Statements
       /\ insert.do = "insertRun" /\ insert.id = r /\ insert.row = run /\ insert \in Statements
       /\ update.do = "updateSchedule" /\ update.id = t /\ update.row = row
       /\ update \in Statements
  BY <1>3, <1>4 DEF Statement, Statements, UpdateSchedule
<1> HIDE DEF count, insert, update
<1>11. /\ q \in Seq(Statements) /\ DOMAIN q = 1 .. 3
       /\ q[1] = count /\ q[2] = insert /\ q[3] = update
       /\ Queue(c, q)
  <2>1. <<count, insert>> \o <<update>> = q
    BY <1>10, TwoAndOne
  <2>2. Queue(c, q)
    BY <1>9, <2>1, Zenon
  <2>3. q \in Seq(Statements) /\ DOMAIN q = 1 .. 3
        /\ q[1] = count /\ q[2] = insert /\ q[3] = update
    BY <1>10
  <2> QED BY <2>2, <2>3
<1> HIDE DEF q
<1>12. QueueFits(db, q)
  BY <1>2, <1>3, <1>4, <1>5, <1>8, <1>10, <1>11 DEF QueueFits, StatementFits
<1>13. TakesFreshId(q)
  BY <1>8, <1>10, <1>11 DEF TakesFreshId
<1>14. FiresAnew(c, q)
  BY <1>2, <1>7, <1>10, <1>11 DEF FiresAnew, Fires
<1>15. QueueOnPlan(plan, q)
  BY <1>3, <1>4, <1>6, <1>10, <1>11 DEF QueueOnPlan, Fires
<1> QED BY <1>1, <1>11, <1>12, <1>13, <1>14, <1>15, QueueStep

\* retryWorkRun: a retry is not a firing.
LEMMA RetryWorkRunFits ==
  ASSUME IInv, NEW c \in Callers, NEW r \in RunIds, NEW new \in RunIds, RetryWorkRun(c, r, new)
  PROVE  IInv'
<1> DEFINE t == snap[c].runs[r].task
           s == snap[c].tasks[t]
           run == Snap(c)!RetriedRun(r)
           insert == Statement("insertRun", new, run)
           count == Statement("countRun", run.task, None)
           update == UpdateTask(t, s)
           q == <<count, insert, update>>
<1>1. PICK plan \in Plans : PlanFits(plan)
  BY DEF IInv, BudgetFits
<1>2. snap[c].runs[r].status # "absent" /\ s.status = "active"
  BY DEF RetryWorkRun, Snap!MayRetry
<1>3. /\ t \in Tasks /\ Confirmed(db, t, 1) /\ snap[c].runs[r] \in RunRows
  BY <1>2, WhatIsRead DEF RunFits
<1>4. s \in TaskRows /\ TaskFits(db, t, s)
  BY <1>3, WhatIsRead
<1>5. /\ run.status = "queued" /\ run.task = t /\ run.triggeredBy = "retry"
      /\ run.revision = s.revision /\ run \in RunRows
  BY <1>3, <1>4 DEF Snap!RetriedRun, Snap!QueuedRun, RunRows, TaskRows, RunStates
<1>6. RunFits(db, run)
  <2> HIDE DEF run
  <2> QED BY <1>2, <1>3, <1>4, <1>5 DEF RunFits, TaskFits, FiredBy
<1>7. ~Stands(db, new) /\ ~Queued("insertRun", new)
  BY DEF RetryWorkRun, FreshRun, UsedRun, Stands
<1>8. Queue(c, <<count, insert>> \o <<update>>)
  BY Zenon DEF RetryWorkRun, CreateWorkRun
<1> HIDE DEF run, s
<1>9. /\ count.do = "countRun" /\ count \in Statements
      /\ insert.do = "insertRun" /\ insert.id = new /\ insert.row = run /\ insert \in Statements
      /\ update.do = "updateTask" /\ update.id = t /\ update.row = s
      /\ update \in Statements
  BY <1>3, <1>4, <1>5 DEF Statement, Statements, UpdateTask
<1> HIDE DEF count, insert, update, t
<1>10. /\ q \in Seq(Statements) /\ DOMAIN q = 1 .. 3
       /\ q[1] = count /\ q[2] = insert /\ q[3] = update
       /\ Queue(c, q)
  <2>1. <<count, insert>> \o <<update>> = q
    BY <1>9, TwoAndOne
  <2>2. Queue(c, q)
    BY <1>8, <2>1, Zenon
  <2>3. q \in Seq(Statements) /\ DOMAIN q = 1 .. 3
        /\ q[1] = count /\ q[2] = insert /\ q[3] = update
    BY <1>9
  <2> QED BY <2>2, <2>3
<1> HIDE DEF q
<1>11. QueueFits(db, q)
  BY <1>2, <1>4, <1>5, <1>6, <1>7, <1>9, <1>10 DEF QueueFits, StatementFits
<1>12. TakesFreshId(q)
  BY <1>7, <1>9, <1>10 DEF TakesFreshId
<1>13. \A i \in DOMAIN q : ~Fires(q, i)
  BY <1>5, <1>9, <1>10 DEF Fires, FiredBy
<1>14. FiresAnew(c, q)
  BY <1>13 DEF FiresAnew
<1>15. QueueOnPlan(plan, q)
  BY <1>9, <1>10, <1>13 DEF QueueOnPlan
<1> QED BY <1>1, <1>10, <1>11, <1>12, <1>14, <1>15, QueueStep

\* A task that was not yet created has no schedule, run or statement.
LEMMA FreshTaskIsNew ==
  ASSUME IInv, NEW t \in Tasks, FreshTask(t)
  PROVE  /\ ~Confirmed(db, t, 1) /\ db.schedules[t].status = "absent"
         /\ \A c \in Callers : snap[c].schedules[t].status = "absent"
         /\ \A r \in RunIds : Fired(db.runs[r]) => db.runs[r].task # t
         /\ \A c \in Callers : \A i \in DOMAIN queue[c] :
              /\ queue[c][i].do \in {"insertSchedule", "updateSchedule"} => queue[c][i].id # t
              /\ Fires(queue[c], i) => queue[c][i].row.task # t
<1>1. ~Confirmed(db, t, 1)
  BY DEF FreshTask, IInv, TablesFit, Known
<1>2. db.schedules[t].status = "absent"
  BY <1>1 DEF IInv, TablesFit, RowsFit, ScheduleFits
<1>3. \A c \in Callers : snap[c].schedules[t].status = "absent"
  BY <1>1 DEF IInv, RowsFit, ScheduleFits
<1>4. \A r \in RunIds : Fired(db.runs[r]) => db.runs[r].task # t
  BY <1>1 DEF IInv, TablesFit, RowsFit, RunFits, Fired
<1>5. ASSUME NEW c \in Callers, NEW i \in DOMAIN queue[c]
      PROVE  /\ queue[c][i].do \in {"insertSchedule", "updateSchedule"} => queue[c][i].id # t
             /\ Fires(queue[c], i) => queue[c][i].row.task # t
  <2>1. queue[c] \in Seq(Statements)
    BY DEF IInv, Typed
  <2>2. \A k \in DOMAIN queue[c] : StatementFits(db, queue[c], k)
    BY DEF IInv, QueueFits
  <2>3. \A k \in DOMAIN queue[c] : ~Before(queue[c], k, "insertTask", t)
    BY <2>1 DEF FreshTask, Queued, Before
  <2>4. \A k \in DOMAIN queue[c] : ~Before(queue[c], k, "insertRevision", t)
    <3> SUFFICES ASSUME NEW k \in DOMAIN queue[c], NEW j \in 1 .. k - 1,
                        queue[c][j].do = "insertRevision", queue[c][j].id = t
                 PROVE  FALSE
      BY DEF Before
    <3>1. j \in DOMAIN queue[c]
      BY <2>1
    <3> QED BY <2>2, <2>3, <3>1 DEF StatementFits, FreshTask, Known
  <2>5. queue[c][i].do \in {"insertSchedule", "updateSchedule"} => queue[c][i].id # t
    BY <1>1, <2>2, <2>4 DEF StatementFits
  <2>6. Fires(queue[c], i) => queue[c][i].row.task # t
    BY <1>1, <2>2, <2>4 DEF StatementFits, Fires, FiredBy, RunFits
  <2> QED BY <2>5, <2>6
<1> QED BY <1>1, <1>2, <1>3, <1>4, <1>5

\* The first two statements of createWork.
LEMMA InsertTaskStatements ==
  ASSUME NEW t \in Tasks
  PROVE  LET a == Statement("insertTask", t, NewTask)
             b == Statement("insertRevision", t, 1)
         IN /\ InsertTask(t) = <<a, b>>
            /\ a \in Statements /\ a.do = "insertTask" /\ a.id = t /\ a.row = NewTask
            /\ b \in Statements /\ b.do = "insertRevision" /\ b.id = t /\ b.row = 1
<1>1. NewTask \in TaskRows
  BY DEF NewTask, TaskRows
<1> QED BY <1>1 DEF InsertTask, Statement, Statements

\* createWork, immediate: the run is queued behind the revision it refers to.
LEMMA CreateImmediateWorkFits ==
  ASSUME IInv, NEW c \in Callers, NEW t \in Tasks, NEW g \in Triggers, NEW r \in RunIds,
         CreateImmediateWork(c, t, g, r)
  PROVE  IInv'
<1> DEFINE run == [Snap(c)!QueuedRun(t, "immediate", None) EXCEPT !.revision = 1]
           task == Statement("insertTask", t, NewTask)
           revision == Statement("insertRevision", t, 1)
           count == Statement("countRun", run.task, None)
           insert == Statement("insertRun", r, run)
           q == <<task, revision, count, insert>>
<1>1. PICK plan \in Plans : PlanFits(plan)
  BY DEF IInv, BudgetFits
<1>2. /\ run.status = "queued" /\ run.task = t /\ run.triggeredBy = "immediate"
      /\ run.revision = 1 /\ run \in RunRows
  BY WhatIsRead DEF Snap!QueuedRun, RunRows, TaskRows, RunStates
<1>3. ~Stands(db, r) /\ ~Queued("insertRun", r)
  BY DEF CreateImmediateWork, FreshRun, UsedRun, Stands
<1>4. Queue(c, <<task, revision>> \o <<count, insert>>)
  BY Zenon DEF CreateImmediateWork, CreateWorkRun, InsertTask
<1> HIDE DEF run
<1>5. /\ task \in Statements /\ task.do = "insertTask" /\ task.id = t /\ task.row = NewTask
      /\ revision \in Statements /\ revision.do = "insertRevision" /\ revision.id = t
      /\ count \in Statements /\ count.do = "countRun"
      /\ insert \in Statements /\ insert.do = "insertRun" /\ insert.id = r /\ insert.row = run
  BY <1>2, InsertTaskStatements DEF Statement, Statements
<1> HIDE DEF task, revision, count, insert
<1>6. /\ q \in Seq(Statements) /\ DOMAIN q = 1 .. 4
      /\ q[1] = task /\ q[2] = revision /\ q[3] = count /\ q[4] = insert
      /\ Queue(c, q)
  <2>1. <<task, revision>> \o <<count, insert>> = q
    BY <1>5, TwoAndTwo
  <2>2. Queue(c, q)
    BY <1>4, <2>1, Zenon
  <2>3. q \in Seq(Statements) /\ DOMAIN q = 1 .. 4
        /\ q[1] = task /\ q[2] = revision /\ q[3] = count /\ q[4] = insert
    BY <1>5
  <2> QED BY <2>2, <2>3
<1> HIDE DEF q
<1>7. Before(q, 2, "insertTask", t) /\ Before(q, 4, "insertRevision", t)
  BY <1>5, <1>6 DEF Before
<1>8. QueueFits(db, q)
  BY <1>2, <1>3, <1>5, <1>6, <1>7 DEF QueueFits, StatementFits
<1>9. TakesFreshId(q)
  BY <1>3, <1>5, <1>6 DEF TakesFreshId
<1>10. \A i \in DOMAIN q : ~Fires(q, i)
  BY <1>2, <1>5, <1>6 DEF Fires, FiredBy
<1>11. FiresAnew(c, q)
  BY <1>10 DEF FiresAnew
<1>12. QueueOnPlan(plan, q)
  BY <1>5, <1>6, <1>10 DEF QueueOnPlan
<1> QED BY <1>1, <1>6, <1>8, <1>9, <1>11, <1>12, QueueStep

\* createWork, scheduled: the plan of the task is the trigger of this call.
LEMMA CreateScheduledWorkFits ==
  ASSUME IInv, NEW c \in Callers, NEW t \in Tasks, NEW g \in Triggers,
         NEW first \in 0 .. MaxTime, CreateScheduledWork(c, t, g, first)
  PROVE  IInv'
<1> DEFINE row == [status |-> "enabled", kind |-> g.kind, nextRunAt |-> first,
                   runCount |-> 0, maxRuns |-> g.maxRuns]
           task == Statement("insertTask", t, NewTask)
           revision == Statement("insertRevision", t, 1)
           insert == InsertSchedule(t, row)
           q == <<task, revision, insert>>
<1>1. PICK plan \in Plans : PlanFits(plan)
  BY DEF IInv, BudgetFits
<1>2. /\ row \in ScheduleRows /\ row.status = "enabled" /\ row.nextRunAt = first
      /\ row.runCount = 0 /\ row.maxRuns = g.maxRuns
      /\ first \in Nat /\ g.maxRuns \in (Nat \ {0}) \cup {None}
  BY TriggersAssumption, BoundsAssumption DEF ScheduleRows, Kinds
<1>3. Queue(c, <<task, revision>> \o <<insert>>)
  BY Zenon DEF CreateScheduledWork, InsertTask
<1> HIDE DEF row
<1>4. /\ task \in Statements /\ task.do = "insertTask" /\ task.id = t /\ task.row = NewTask
      /\ revision \in Statements /\ revision.do = "insertRevision" /\ revision.id = t
      /\ insert \in Statements /\ insert.do = "insertSchedule" /\ insert.id = t
      /\ insert.row = row
  BY <1>2, InsertTaskStatements DEF InsertSchedule, Statement, Statements
<1> HIDE DEF task, revision, insert
<1>5. /\ q \in Seq(Statements) /\ DOMAIN q = 1 .. 3
      /\ q[1] = task /\ q[2] = revision /\ q[3] = insert
      /\ Queue(c, q)
  <2>1. <<task, revision>> \o <<insert>> = q
    BY <1>4, TwoAndOne
  <2>2. Queue(c, q)
    BY <1>3, <2>1, Zenon
  <2>3. q \in Seq(Statements) /\ DOMAIN q = 1 .. 3
        /\ q[1] = task /\ q[2] = revision /\ q[3] = insert
    BY <1>4
  <2> QED BY <2>2, <2>3
<1> HIDE DEF q
\* Nothing of the task is there yet, so its plan may be the new trigger.
<1> DEFINE new == [plan EXCEPT ![t] = [first |-> first, maxRuns |-> g.maxRuns]]
<1>6. new \in Plans /\ new[t].first = first /\ new[t].maxRuns = g.maxRuns
      /\ \A u \in Tasks \ {t} : new[u] = plan[u]
  BY <1>2 DEF Plans
<1> HIDE DEF new
<1>7. FreshTask(t)
  BY DEF CreateScheduledWork
<1>8. PlanFits(new)
  <2>1. \A u \in Tasks : ScheduleOnPlan(new[u], db.schedules[u])
    BY <1>1, <1>6, <1>7, FreshTaskIsNew DEF PlanFits, ScheduleOnPlan
  <2>2. \A b \in Callers, u \in Tasks : ScheduleOnPlan(new[u], snap[b].schedules[u])
    BY <1>1, <1>6, <1>7, FreshTaskIsNew DEF PlanFits, ScheduleOnPlan
  <2>3. ASSUME NEW r \in RunIds, Fired(db.runs[r])
        PROVE  RunOnPlan(new[db.runs[r].task], db.runs[r])
    <3>1. db.runs[r].task \in Tasks \ {t}
      BY <1>7, <2>3, FreshTaskIsNew DEF IInv, TablesFit, RowsFit, RunFits, Fired
    <3> QED BY <1>1, <1>6, <2>3, <3>1 DEF PlanFits
  <2>4. ASSUME NEW b \in Callers, NEW i \in DOMAIN queue[b]
        PROVE  /\ queue[b][i].do \in {"insertSchedule", "updateSchedule"} =>
                    ScheduleOnPlan(new[queue[b][i].id], queue[b][i].row)
               /\ Fires(queue[b], i) =>
                    RunOnPlan(new[queue[b][i].row.task], queue[b][i].row)
    <3>1. queue[b][i] \in Statements /\ StatementFits(db, queue[b], i)
      BY DEF IInv, Typed, QueueFits
    <3>2. queue[b][i].do \in {"insertSchedule", "updateSchedule"} =>
            queue[b][i].id \in Tasks \ {t}
      BY <1>7, <3>1, FreshTaskIsNew, StatementTypes
    <3>3. Fires(queue[b], i) => queue[b][i].row.task \in Tasks \ {t}
      BY <1>7, <3>1, FreshTaskIsNew DEF StatementFits, RunFits, Fires
    <3> QED BY <1>1, <1>6, <3>2, <3>3 DEF PlanFits
  <2> QED BY <2>1, <2>2, <2>3, <2>4 DEF PlanFits
<1>9. ScheduleOnPlan(new[t], row)
  <2>1. Time(new[t], 0) = first /\ InBudget(new[t], 0)
    <3>1. Interval \in Nat
      BY BoundsAssumption
    <3> QED BY <1>2, <1>6, <3>1 DEF Time, InBudget
  <2> QED BY <1>2, <1>6, <2>1 DEF ScheduleOnPlan, OnTime
<1>10. Before(q, 2, "insertTask", t) /\ Before(q, 3, "insertRevision", t)
  BY <1>4, <1>5 DEF Before
<1>11. QueueFits(db, q)
  BY <1>2, <1>4, <1>5, <1>10 DEF QueueFits, StatementFits
<1>12. \A i \in DOMAIN q : q[i].do # "insertRun"
  BY <1>4, <1>5
<1>13. TakesFreshId(q) /\ FiresAnew(c, q)
  BY <1>12 DEF TakesFreshId, FiresAnew, Fires
<1>14. QueueOnPlan(new, q)
  BY <1>4, <1>5, <1>9, <1>12 DEF QueueOnPlan, Fires
<1> QED BY <1>5, <1>6, <1>8, <1>11, <1>13, <1>14, QueueStep

-----------------------------------------------------------------------------
(* The invariant.                                                          *)

\* Whatever a call decides.
LEMMA DecideFits ==
  ASSUME IInv, NEW c \in Callers, pc[c] = "read", Decide(c)
  PROVE  IInv'
<1>1. CASE \E t \in Tasks, g \in Triggers, r \in RunIds : CreateImmediateWork(c, t, g, r)
  BY <1>1, CreateImmediateWorkFits
<1>2. CASE \E t \in Tasks, g \in Triggers, first \in 0 .. MaxTime :
             CreateScheduledWork(c, t, g, first)
  BY <1>2, CreateScheduledWorkFits
<1>3. CASE \E t \in Tasks, r \in RunIds : CreateDueWorkRun(c, t, r)
  BY <1>3, CreateDueWorkRunFits
<1>4. CASE \E r, new \in RunIds : RetryWorkRun(c, r, new)
  BY <1>4, RetryWorkRunFits
<1>5. CASE \E t \in Tasks, src \in RunIds \cup {None} : ReviseWorkTask(c, t, src)
  BY <1>5, ReviseWorkTaskFits
<1>6. CASE \E t \in Tasks, to \in {"paused", "enabled"} : MoveWorkSchedule(c, t, to)
  BY <1>6, MoveWorkScheduleFits
<1>7. CASE \E t \in Tasks : CancelWorkTask(c, t)
  BY <1>7, CancelWorkTaskFits
<1>8. CASE \E t \in Tasks : ArchiveWorkTask(c, t)
  BY <1>8, ArchiveWorkTaskFits
<1>9. CASE \E t \in Tasks : RestoreWorkTask(c, t)
  BY <1>9, RestoreWorkTaskFits
<1>10. CASE \E r \in RunIds, to \in Snap(c)!ActiveRun \cup Snap(c)!TerminalRun :
              MoveWorkRun(c, r, to)
  BY <1>10, MoveWorkRunFits
<1>11. CASE GiveUp(c)
  BY <1>11, GiveUpFits
<1> QED
  BY <1>1, <1>2, <1>3, <1>4, <1>5, <1>6, <1>7, <1>8, <1>9, <1>10, <1>11 DEF Decide

\* Every step keeps the invariant.
LEMMA NextIInv == IInv /\ [Next]_vars => IInv'
<1> SUFFICES ASSUME IInv, [Next]_vars PROVE IInv'
  OBVIOUS
<1>1. ASSUME NEW c \in Callers, ReadTables(c) PROVE IInv'
  BY <1>1, ReadTablesFits
<1>2. ASSUME NEW c \in Callers, pc[c] = "read" /\ Decide(c) PROVE IInv'
  BY <1>2, DecideFits
<1>3. ASSUME NEW c \in Callers, Execute(c) PROVE IInv'
  BY <1>3, ExecuteFits
<1>4. CASE Crash
  BY <1>4, CrashFits
<1>5. CASE Tick
  BY <1>5, TickFits
<1>6. CASE UNCHANGED vars
  <2>1. UNCHANGED <<db, queue, snap, pc>> /\ Typed'
    BY <1>6 DEF vars, IInv, Typed
  <2>2. \A c \in Callers : RowsFit(db, snap[c]) /\ RunsStand(db, snap[c])
    BY DEF IInv
  <2> QED BY <2>1, <2>2, SnapshotStep
<1> QED BY <1>1, <1>2, <1>3, <1>4, <1>5, <1>6 DEF Next

\* The invariant holds in every reachable state.
LEMMA SpecIInv == Spec => []IInv
  BY InitIInv, NextIInv, PTL DEF Spec

-----------------------------------------------------------------------------
(* What it implies.                                                        *)

\* Rows, snapshots and queues keep their types whichever calls overlap and
\* wherever the process dies.
THEOREM TypeCorrect == Spec => []TypeOK
<1>1. IInv => TypeOK
  <2> SUFFICES ASSUME IInv PROVE TypeOK
    OBVIOUS
  <2>1. Tables!TypeOK
    <3>1. /\ Tables!TaskRows = TaskRows
          /\ Tables!ScheduleRows = ScheduleRows
          /\ Tables!RunRows = RunRows
      BY DEF Tables!TaskRows, Tables!ScheduleRows, Tables!RunRows, Tables!ClosedTask,
         Tables!LiveSchedule, Tables!ActiveRun, Tables!TerminalRun, Tables!Kinds,
         TaskRows, ScheduleRows, RunRows, Kinds, RunStates
    <3>2. now \in 0 .. MaxTime /\ db \in Rows
      BY DEF IInv, Typed
    <3> QED BY <3>1, <3>2 DEF Tables!TypeOK, Rows
  <2>2. db.revisions \subseteq Tasks \X (1 .. MaxRevision)
    BY DEF IInv, Typed, Rows
  <2>3. ASSUME NEW c \in Callers PROVE Snap(c)!TypeOK
    <3>1. /\ Snap(c)!TaskRows = TaskRows
          /\ Snap(c)!ScheduleRows = ScheduleRows
          /\ Snap(c)!RunRows = RunRows
      BY DEF Snap!TaskRows, Snap!ScheduleRows, Snap!RunRows, Snap!ClosedTask,
         Snap!LiveSchedule, Snap!ActiveRun, Snap!TerminalRun, Snap!Kinds,
         TaskRows, ScheduleRows, RunRows, Kinds, RunStates
    <3>2. at[c] \in 0 .. MaxTime /\ snap[c] \in Rows
      BY DEF IInv, Typed
    <3> QED BY <3>1, <3>2 DEF Snap!TypeOK, Rows
  <2>4. /\ pc \in [Callers -> {"idle", "tasksRead", "schedulesRead", "read", "writing"}]
        /\ \A c \in Callers : (queue[c] # <<>>) <=> (pc[c] = "writing")
    BY DEF IInv, Typed
  <2> QED BY <2>1, <2>2, <2>3, <2>4 DEF TypeOK
<1> QED BY <1>1, SpecIInv, PTL

\* Two runs of one trigger time never both stand: the loop that fires saw every
\* firing there is, however stale the schedule row it fired from, and wherever
\* an earlier tick died.
THEOREM TriggerTimeFiresOnce == Spec => []OneRunPerTriggerTime
<1>1. IInv => OneRunPerTriggerTime
  BY DEF IInv, FiringsFit, OneRunPerTriggerTime, Tables!FiredRuns, Tables!RunsOf, Fired, FiredBy,
     SameFiring
<1> QED BY <1>1, SpecIInv, PTL

\* A run that stands carries a revision of its task that has its row in
\* work_task_revisions.
THEOREM RunsAreConfirmed == Spec => []RunRevisionWasConfirmed
<1>1. IInv => RunRevisionWasConfirmed
  BY DEF IInv, TablesFit, RowsFit, RunFits, Confirmed, RunRevisionWasConfirmed
<1> QED BY <1>1, SpecIInv, PTL

\* The instance brings its own copy of Cardinality.
LEMMA TablesCardinality ==
  ASSUME NEW S
  PROVE  Tables!Cardinality(S) = Cardinality(S)
  BY Zenon DEF Tables!Cardinality, Cardinality

\* The firings of a bounded schedule are at distinct times among the first
\* maxRuns trigger times of its plan.
LEMMA FiringsAreBounded ==
  ASSUME IInv, NEW t \in Tasks, db.schedules[t].maxRuns # None
  PROVE  Cardinality(Tables!FiredRuns(t)) <= db.schedules[t].maxRuns
<1> DEFINE max == db.schedules[t].maxRuns
           fired == Tables!FiredRuns(t)
<1>1. PICK plan \in Plans : PlanFits(plan)
  BY DEF IInv, BudgetFits
<1>2. db.schedules[t] \in ScheduleRows
  BY DEF IInv, Typed, Rows
<1>3. db.schedules[t].status # "absent"
  BY DEF IInv, TablesFit, RowsFit, ScheduleFits
<1>4. max = plan[t].maxRuns /\ max \in Nat \ {0}
  BY <1>1, <1>2, <1>3 DEF PlanFits, ScheduleOnPlan, ScheduleRows
<1>5. fired \subseteq RunIds
      /\ \A r \in fired : Fired(db.runs[r]) /\ db.runs[r].task = t
  BY DEF Tables!FiredRuns, Tables!RunsOf, Fired, FiredBy
<1>6. \A r \in fired : \E k \in Nat :
        db.runs[r].scheduledFor = Time(plan[t], k) /\ k < max
  BY <1>1, <1>4, <1>5, NoneAssumption DEF PlanFits, RunOnPlan, OnTime, InBudget
<1>7. \A r, s \in fired : db.runs[r].scheduledFor = db.runs[s].scheduledFor => r = s
  BY <1>5 DEF IInv, FiringsFit, SameFiring
<1> DEFINE number == [r \in fired |->
             CHOOSE k \in Nat : db.runs[r].scheduledFor = Time(plan[t], k) /\ k < max]
<1>8. \A r \in fired : /\ number[r] \in Nat /\ number[r] < max
                       /\ db.runs[r].scheduledFor = Time(plan[t], number[r])
  BY <1>6
<1> HIDE DEF fired, max
<1>9. number \in [fired -> 0 .. max - 1]
  <2> SUFFICES ASSUME NEW r \in fired PROVE number[r] \in 0 .. max - 1
    BY DEF number
  <2> HIDE DEF number
  <2> QED BY <1>4, <1>8
<1> HIDE DEF number
<1>10. IsInjective(number)
  BY <1>7, <1>8, <1>9 DEF IsInjective
<1>11. number \in Injection(fired, 0 .. max - 1)
  BY <1>9, <1>10 DEF Injection, IsInjective
<1>12. IsFiniteSet(0 .. max - 1) /\ Cardinality(0 .. max - 1) = max
  <2>1. 0 \in Int /\ max - 1 \in Int /\ ~(0 > max - 1) /\ (max - 1) - 0 + 1 = max
    BY <1>4
  <2>2. /\ IsFiniteSet(0 .. max - 1)
        /\ Cardinality(0 .. max - 1) = IF 0 > max - 1 THEN 0 ELSE (max - 1) - 0 + 1
    BY <2>1, FS_Interval, Zenon
  <2> QED BY <2>1, <2>2
<1>13. Cardinality(fired) <= Cardinality(0 .. max - 1)
  BY <1>11, <1>12, FS_Injection
<1> QED BY <1>12, <1>13 DEF fired, max

\* A schedule fires at most maxRuns times: a row that takes its counter back
\* takes its next trigger time back with it, and that time has fired already.
THEOREM BudgetIsKept == Spec => []TriggerBudget
<1>1. IInv => TriggerBudget
  BY FiringsAreBounded, TablesCardinality DEF TriggerBudget, Tables!TriggerBudget
<1> QED BY <1>1, SpecIInv, PTL
=============================================================================
