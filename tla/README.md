# Specifications of TinyOffice

TLA+ models, TLC runs and machine-checked proofs about TinyOffice, the runtime of
a small company whose members are people and AI employees. The reference is the
code; paths below are relative to the repository (`src/work/...` is
`src/src/work/...` in `PROJECT.json`). `PROJECT.json` lists the components, the
runs, the lines each definition models, the mutants that show that every property
can fail, the findings, the hazards and the theorems.

## 1. The system

One Node process per installation, PostgreSQL below it, an external agent
provider beside it. Four parts carry the product's own logic: **Work** (what has
to be done, when, by whom, and what became of it), **Chat topics** (whose turn it
is in a room), **Access** (which guarded tool calls an employee may make) and
**Process Trace** (what clients and the database are told of a turn while it goes
on).

| Component | State | Operations | Talks to |
|---|---|---|---|
| WorkService (`work-service.ts`, `domain.ts`) | `work_tasks`, `work_task_revisions`, `work_schedules`, `work_runs`, `work_run_events` | create, fire a schedule, retry, revise, pause/resume, cancel, archive, restore, move a run | repository; member directory |
| WorkRepository (`postgres-work-repository.ts`) | a snapshot per call, a chain of pending statements | SELECT all tables, INSERT/UPDATE by id | PostgreSQL |
| Dispatch leases (`work-dispatch-lease.ts`) | `work_dispatch_leases` | create pending, acknowledge, fail, cancel, expire | repository of their own |
| Control plane and dispatcher (`company-control-plane.ts`, `work-dispatcher.ts`, `work-dispatch-runner.ts`) | none (a flag `running` in `tinyoffice-server.ts`) | every 3 s: fire due schedules, expire leases, select one run, execute it | all of the above, execution |
| Execution (`work-execution-service.ts`, `finish-work-turn-result.ts`) | none of its own | start, turn, repair turn, apply the result, fail, cancel, continue after a reply | provider session, WorkService, recovery |
| Blocked recovery (`work-blocked-recovery-*.ts`) | `work_blocked_recovery_requests` | open, reopen, reply, resolve, cancel | conversations, execution |
| Cancellation and Tasks actions (`work-cancellation-service.ts`, `tasks-run-actions.ts`) | none | cancel a run or task and clean up; retry dispatch; retry a run | leases, recovery, sessions |
| Chat topic chains (`tinyoffice-chat-runtime-dispatch.ts`, `chat-topic-chain-repository.ts`) | `chat_topic_chains`, `chat_topic_chain_runs`; the Maps `activeRuns`, `activeChains`, `recoveredCompanies` of the process | post, retry, execute a turn, hand over, stop, view, recover after a restart | provider sessions, conversations |
| Access (`access-request-service.ts`, `company-governance-services.ts`, `postgres-company-governance-store.ts`) | `governance_approvals`, `approval_grants`; a store, that is a snapshot of both, per request | guard a tool call, decide a card, list, cancel for an ended WorkRun, revoke for a deactivated member | tool guard, WorkService's terminal hook, member lifecycle |
| Process trace writer (`process-trace-store.ts`) | `process_trace_events`; a queue, a timer, a chain of batches | enqueue, flush, persist with attempts, drain | realtime clients (`chat.activity.persisted`) |
| Member runtime lifecycle | a flag in the directory | disable/enable: abort sessions, cancel work, revoke grants | Work, Access, sessions |
| Conversations, employee daemon, realtime server, handoff ledger, intake, operating log, MCP, channel topics, system AI, configuration, storage, backup/update, authentication, web application, packages | records, queues, transport | see `PROJECT.json` | |

What is hard:

* **No transactions across a call.** Every WorkService call reads all tables with
  one SELECT each, decides in memory, then writes whole rows by id, one statement
  after the other, each on its own. Access goes further: each save deletes all
  rows of the company and inserts those of its snapshot. HTTP requests, hooks and
  the control plane overlap at every `await`.
* **Promise chains that keep what they read.** A dispatch goes through selection,
  lease, acknowledgement, start and turn, each behind an `await`; a chat turn goes
  through the reply, the hand-over and the next member's turn, which is a
  nested call of the same function. A cancellation or a stop can land between any
  two.
* **Two places for one fact.** Who holds the ball of a topic is a row; whether
  somebody executes it, and whether it is to stop, are entries of Maps in the
  process, written at other moments than the row.
* **Crashes.** Nothing resumes a chain. What survives is rows: a pending lease, an
  acknowledged lease of a queued run, a run in progress, a counted schedule
  without its run, an active chat chain, half a save of the approvals.
* **Time and retries.** Leases expire; a trigger time may be past when it is first
  seen; a batch of observations is tried a few times, and an attempt that failed
  may have stored it.
* **Counters and limits.** `maxRuns`, `runCount` and the number of runs meet in two
  places, and retries count. The queue of the trace has a limit, the chain behind
  it has none.

What makes each component correct: a task, its schedule and its runs never
contradict each other, whatever is called in whatever order (WorkService); no
overlap or crash makes a trigger time run twice (repository); no run is executed
twice or unowned, and none is forgotten (dispatch); no error leaves a run that
looks busy with nobody working on it (execution); a blocked run can be answered
(recovery); what was canceled stays at rest (cancellation); a topic has one active
chain, a stop reaches its holder and the ball is not passed on after it, and the
room is released in the end (chat); no call goes through that nobody approved
(access); a client is never told that something is stored which may still be on
its way, and nothing is forgotten (trace). The hazards behind these are listed
line by line in `PROJECT.json`.

## 2. The modules

```
WorkRunStatus            the moves a WorkRun may make
   |            \
WorkLifecycle    WorkDispatch ---- WorkDispatch_proofs   MCWorkDispatch
   |     \
   |      WorkLifecycle_proofs              MCWorkLifecycle
WorkStatements  (two INSTANCEs of it) ---- WorkStatements_proofs   MCWorkStatements
                                              |
                                    WorkStatementsAlone_proofs

ChatTopicChain ---- ChatTopicChain_proofs   MCChatTopicChain

AccessDecisions          what is decided on the books one has read
   |           \
AccessRequests  AccessStore ---- AccessStore_proofs   MCAccessStore
   (abstract)   (Atomic ==             |
                 INSTANCE ...)   AccessStoreAlone_proofs

ProcessTraceWriter ---- ProcessTraceWriter_proofs     MCProcessTraceWriter
```

Two refinements tie a module to an abstract one: `WorkStatements` implements
`WorkLifecycle`, and `AccessStore` implements `AccessRequests`, each as long as
calls do not overlap. What the overlaps break, and what survives them, are
properties of the detailed modules.

### WorkLifecycle: what the service promises

One atomic action per public method of `WorkService` that writes. `tasks`,
`schedules` and `runs` are the rows, with the columns some decision reads; `now`
is the clock. A method that throws or returns early without writing is no step.
The three kinds of trigger of `createWork` make two actions
(`CreateImmediateWork`, `CreateScheduledWork`); `createDueWorkRun`, `retryWorkRun`,
`reviseWorkTask`, `moveWorkSchedule`, `cancelWorkTask`, `archiveWorkTask`,
`restoreWorkTask` and `moveWorkRun` have one each. What the code computes in
helpers is an operator of the same role: `OneShot` is `isOneShotWork`, `ClosesWork`
is `finalRunShouldCloseWork`, `RunCount` is `scheduleRunCount`, `FiredSchedule`
the update at the end of `createDueWorkRun`, `Counted` the increment hidden in
`createWorkRun`. A schedule's interval is one constant; the member directory is a
call that said yes.

### WorkStatements: the same methods as PostgreSQL sees them

Each caller has a snapshot, read by three SELECTs in three steps, and a queue of
statements, executed one per step. What a method decides is
`WorkLifecycle` evaluated on the snapshot (`Snap(c)!...`); the module adds which
statements are queued (`InsertTask`, `UpdateTask`, `UpdateSchedule`, ... are the
repository's methods), in which order, which columns an UPDATE writes (all of
them, from the row that was read), what the constraints reject (`UNIQUE
(work_task_id, revision)`, `CHECK` on `next_run_at`), and a crash that loses
the queue. Only the caller in `Schedulers` fires schedules, and there is one at
most (`CallersAssumption`): the server runs one loop, which skips a tick while
`running` (`tinyoffice-server.ts:639`). Run ids are taken in order, as `createId` never
repeats one; `InOrder` is the order in which `listWorkRuns` gives a task's runs to
`cancelWorkTask`.

`ImplementsLifecycle` is the refinement: for one caller, with the refinement
mapping "the tables once the queued statements have run" (`WhenDone`), every
behaviour is one of `WorkLifecycle!Spec`. The decision is the step; the SELECTs and
statements stutter.

### WorkDispatch: from the queue to the end of a turn

State: the run's status, whether its last event says it is still in progress,
its leases in order, its recovery request, how far each chain has got
(`worker` for the control plane and the handlers of recovery replies, `op` for
requests at the Tasks page), plus the history `starts` and `crashes`. A step is
what one chain does between two awaits that matter:

| Code | Actions |
|---|---|
| `CompanyControlPlane.dispatchNext` | `ExpireLeases`, `FindCandidate`, `CreateLease` |
| `WorkDispatchRunner`, `startWorkRunExecution` | `EmployeeFound`, `EmployeeMissing`, `Acknowledge`, `ReadRun`, `StartQueuedRun` |
| a turn and `finish_work_turn` | `RepairTurn`, `TurnInProgress`, `TurnEnds`, `TurnBlocks`, `TurnFails`, `DiscardTurn` |
| `openRecoveryForBlockedRun` | `OpenRecovery`, `SaveRequest`, `RecoveryFails` |
| `handleParticipantMessage` and `continueWorkRunExecution` | `ReceiveReply`, `SettleRun`, `ReadOutcome`, `CloseRequest` |
| `WorkCancellationService` | `CancelRun`, `CancelLease`, `CancelRecovery`, `AbortSessions` |
| `retry-dispatch` | `RetryDispatch`, `CheckLease`, `InsertLease` |

Calls of WorkService and of the lease service are atomic here (WorkStatements
takes the former apart), except `createPendingLease` of an operator, which looks
and then inserts. `Enqueue` stands for the three ways a run comes into being.

### ChatTopicChain: who holds the ball of a topic

A user message starts a chain; the first holder replies and either gives the ball
back or hands it to another member, whose turn is a nested call. The state is in
four groups:

* rows: `chains` (status, current run, whether a stop was ever requested), `linked`
  (`chat_topic_chain_runs`, keyed by run) and `replies`;
* the process: `recovered`, `activeRuns` with the `stopped` ones, `activeChains`, and
  the pooled `agents`;
* the calls that are under way: `request` (from the HTTP request to the chain),
  `exec` (the stack of nested turns and how far the last one is), `cancel`, `viewer`;
* history and bounds: `abandoned`, and the counters of stops, failures and crashes.

A run is the message it answers, the member and the attempt, as in
`buildTinyOfficeChatTurnDispatchEventKey`. A message is the sequence of members
that led to it, because the idempotency key of a reply names the message and the
member but not the attempt: so a retry produces the same reply, and a hand-over
from it the same run.

| Code | Actions |
|---|---|
| `assertCanDispatch`, `sendMessage`, `retryChatRun`, `handleChatDispatchEvent`, `tryStart` | `PostMessage`, `RetryChatRun`, `RecoverForRequest`, `AssertCanDispatch`, `TryStart`, `BeginExecution`, `RequestFails` |
| `getActiveChatRun` | `ViewRoom`, `RecoverForViewer` |
| `executeTinyOfficeChatRuntimeDecision` | `OpenRepository`, `OpenFails`, `PoolAgent`, `TurnReturns`, `PersistReply`, `AdvanceChain`, `AfterAdvance`, `Settle`, `StepThrows`, `FinishChain`, `FinishIsSwallowed` |
| `cancelChatRun`, `abortChatRuntime` | `CancelChatRun`, `RequestCancel`, `MarkStop`, `SessionAborted`, `FinishCanceled`, `CancelFails` |
| the process dies | `Crash` |

Some of what the code does that a reader might not expect, and the model has: the
repository of a turn is opened outside its `try` block, so a failure there leaves
the chain to nobody (`abandoned`); a retry asks nothing about the room before it
tries to start; `cancelChatRun` does not recover the company; a stop between the
end of `advance` and the look at `activeChains` makes the execution end as if the
ball had been given back, so that the chain may be completed although a stop was
requested; `advance` updates the chain
also when the run it links exists, and then the caller is told that it did not
(the in-memory repository, used by tests, differs here).

### AccessDecisions, AccessRequests, AccessStore: guarded tool calls

`AccessDecisions` is what the services compute on the approvals and grants they
hold: which grant covers a call (`Covers`, the first by age), how a grant for one
time is used up, when a call asks (`PendingFor`), what a decision stores, what an
ended WorkRun and a deactivated member take away. Tools and resources are the same
for all calls of a member in a context, so a call is the pair of these two.

`AccessRequests` is the promise: each operation is one step on the `books`.

`AccessStore` is what PostgreSQL sees. `ToolCall`, `Decide`, `ListRequests`,
`RunTerminalHook` and `Deactivate` begin a call, which reads the approvals in one
step and the grants in another (`opened`), decides on what it has read (`AllowCall`,
`RequestApproval`, `Approve`, `CancelForRun`, `DeactivateMember`, `CheckRun`, ...), and
then saves: each save is two DELETEs and an upsert per row, one statement per step
(`DeleteGrants`, `DeleteApprovals`, `UpsertApproval`, `UpsertGrant`); the deletion of
the approvals cascades to the grants, and a grant whose approval another caller
has deleted in the meantime is rejected, which skips the statements behind it
(`UpsertGrantFails`). An operation with several updates saves several times
(`saves`). A decision does not ask whether the approval is still pending, as in
`resolveApproval`. `EndRun` is WorkService reaching a terminal status; the hook that
follows may be lost in a `Crash`. A tool call that fails is refused by the guard.

### ProcessTraceWriter: observations on their way to the database

An observation is the pair of its run and its number. `Publish` numbers and
enqueues it in one go, or refuses it when the queue is full; `FlushTimer` cuts a
batch off the queue and appends it to the `chain` of promises; `PersistBatch` and
`PersistFails` are the attempts at the first batch of the chain (a failed one may
have stored its rows), with the `finally` block that schedules the next flush in
`BatchDone`; `StartDrain` and `DrainGoesOn` are the loop of `drain` with its last
`await`; `Exit` is the end of the process, after the drain or at any moment.
`watermark` is the
greatest `persistedThroughSequence` a client has been told of each run. A client
ignores a smaller one.

## 3. What is checked

| Run | Bounds | Shows |
|---|---|---|
| `work_lifecycle` | 1 task, 4 runs (symmetric), clock to 2, revision to 2; all four triggers (51 102 states) | no order of operations breaks the relations between a task, its schedule and its runs; what ended stays ended |
| `statements_alone` | 1 caller, 3 runs, 9 calls (38 864) | the statements of every method add up to its atomic action |
| `statements_race` | control plane and operator, 3 runs, 6 calls, crash at any step, recurring with `maxRuns` 1 and 2, clock to 1 (1 201 205 states) | one run per trigger time, no more firings than `maxRuns`, a run's revision was confirmed |
| `work_dispatch` | 2 runs of one employee, 2 replies handled one at a time, 1 operator who may cancel, 2 leases per run, 1 crash (1 725 567) | no run is started twice or unowned; a run in progress is worked on; one run per employee; a blocked run can be answered |
| `dispatch_liveness` | 2 runs, 2 operators who retry a dispatch, 2 leases per run and the one that a race adds, 1 crash, no replies (110 995) | a queued run moves on; no lease stays pending |
| `chat_topic` | 2 messages, 2 members (both symmetric), 2 attempts, 2 requests, chains of 2 turns, 1 stop, 1 failed statement, 1 crash (797 380) | one active chain, a turn is executed once, a stop reaches the holder and nothing is handed over after it, an active chain is being executed, a completed one answered, an ended one final |
| `chat_release` | 1 message, 2 members, chains of 3 turns, 2 stops, 2 failures, 1 crash (60 634) | the room is released |
| `access_calls` | 2 members, a room and a WorkRun, 1 caller, 5 calls, 3 approvals, 2 grants (359 152) | the statements of every save add up to one step on the books; "allow once" lets one call through; a call asks once; a deactivated member keeps nothing |
| `access_overlap` | 1 member, 2 callers (symmetric), 4 calls, 2 approvals, 1 grant, 1 crash (1 273 874) | nothing goes through that nobody approved; a list shows no card of an ended WorkRun |
| `process_trace` | 2 runs of 2 observations, batches of 2, a queue of 3, 2 attempts, the process may die (62 316) | the queue keeps to its limit; no watermark passes what may still come; a drain waits for all it has to; nothing is forgotten |
| `cancel_race`, `chat_recovery` (violations) | as small as the counterexample needs | the findings below |

Why the bounds are enough.

* WorkLifecycle: tasks do not interact (a method reads one task, its schedule and
  its runs), so one task shows everything; four runs are two firings of a budget
  of two, a retry, and one more. Two trigger times plus "now" distinguish past,
  present and future.
* WorkStatements: two callers are what the process has per conflict (the loop, a
  request); six calls reach every pair of methods after the calls that set them up.
* WorkDispatch: two runs of one employee compete for it and for the loop; the first
  lease fails, the second is the retry; after one crash the system is where it
  would be after any number. `Ttl` is one tick: a lease expires either before or
  after any given step.
* ChatTopicChain: two requests are a message with its retry or two messages that
  meet; a chain of two turns has one hand-over with everything around it, and one
  of three, in `chat_release`, has a caller between the first and the last. Each of
  stop, failure and crash may land at any step, also all three in one behaviour.
* AccessStore: two callers see every overlap of two snapshots; four calls are ask,
  approve, use, and one more that writes its older snapshot back. `access_calls` has
  two members, contexts of both kinds and a call more. Guarded calls of one member
  may be made at once (`ParallelCalls`).
* ProcessTraceWriter: the four observations fill a queue of three and make one
  batch that is full and one that is not; with two attempts a batch fails, is
  repeated, and is given up.

Symmetry is used where the definitions treat values alike: run ids of
`work_lifecycle`, members and messages of `chat_topic`, callers of `access_overlap`;
none of these runs has a liveness property. Deadlock checking is off because all
the bounds, and an office with nothing to do, let the system stop.

### Fairness

* `WorkDispatch`: the control plane is one loop whose timer fires every 3000 ms and
  skips while it is `running`, so `Dispatch \/ Turn(ControlPlane)` is weakly fair:
  some step of it happens as long as one can. That a turn ends rests on the
  provider's idle timeout. A handler that has begun goes on, as promise chains do,
  and time passes. Assumed and not modelled: the tick before `dispatchNext` does not
  throw (a due schedule of a disabled owner makes it throw, and then nothing is
  dispatched; listed as a hazard).
* `ChatTopicChain`: a request, an execution and a stop that have begun go on, and a
  turn ends. Recovery is lazy, so after a crash a room is only released if somebody
  looks: `ViewRoom` is fair, which is the page that shows the room and asks for its
  active run.
* `ProcessTraceWriter`: timers fire, and every attempt ends, because the pool sets
  time limits for connecting, statements and queries.
* Nobody has to enqueue, post, reply, cancel, retry, stop, publish, close the server
  or crash. `WorkLifecycle`, `WorkStatements` and `AccessStore` have no fairness and no
  liveness property.

### Where the code and the documents part

Two disagreements are runs of their own (violation runs):

* `cancel_race`: a move decided before a cancellation overwrites `canceled`.
* `chat_recovery`: two requests that both find the company not recovered both
  recover it; the second marks the chain that the first has started as failed, and
  the room gets a second holder (docs/product/topic-handoff.md:34 says that "one
  Topic never has two active holders").

The others are kept as configurations that anybody can run; each has the one
property it refutes:

| Configuration | What it finds |
|---|---|
| `MCWorkLifecycleArchived.cfg` | a bounded schedule is closed when any one of its runs ends while another is queued; the task can be archived and the run is executed |
| `MCWorkLifecycleBudget.cfg` | retries count against `maxRuns` |
| `MCWorkStatementsRevision.cfg` | a whole-row UPDATE takes the task's revision back |
| `MCWorkDispatchCancel.cfg` | a run canceled between selection and start gets a session after the cancellation has aborted the sessions there were |
| `MCWorkDispatchReplies.cfg` | two overlapping replies leave a blocked run whose recovery request is resolved |
| `MCChatTopicChainStop.cfg` | a stop between the INSERT of the chain and the entry in `activeChains` marks the row and nothing else; the turn then runs and posts its reply (docs/technical/topic-handoff.md:50 says a stop "suppresses late provider output") |
| `MCChatTopicChainMessage.cfg` | two posts pass the look for an active chain together; one message is saved and gets no holder (docs/product/topic-handoff.md:32 says a message "always gives the ball to exactly one" participant) |
| `MCAccessStoreOnce.cfg` | two overlapping calls both use a grant for one time, or a save brings a used one back ("`Allow once` is consumed by the first matching retry", docs/product/tool-safety.md:57); it holds one call at a time |
| `MCProcessTraceWriterWatermark.cfg` | a batch is given up and the next one moves the watermark past it (docs/technical/runtime-event-durability.md:58 calls it "already represented by the durable snapshot") |
| `MCProcessTraceWriterBounded.cfg` | more waits than the queue and one batch hold, because batches in the chain are counted nowhere (docs/technical/runtime-event-durability.md:89) |

Three more configurations ask a further question of the same instances and hold:
`MCWorkDispatchOperators.cfg` (`RunStartsOnce` and `RunIsOwned` with two operators),
`MCWorkStatementsTypes.cfg` and `MCAccessStoreTypes.cfg` (the type invariants of
`WorkStatements` and `AccessStore`, which are theorems, on the instances of
`statements_race` and `access_overlap`).

Restrictions that the properties themselves carry, because the code does not keep
more: after a crash a run in progress stays so for good (nothing recovers it); a
turn that ends with `in_progress` keeps its run there with nobody working on it
(`maxTurns` is 1 in the server); `BlockedRunCanBeAnswered` holds for replies handled one
at a time; a chat chain that a failure left to nobody (`abandoned`) keeps its room
until the process starts again; a chain that was asked to stop may still end as
completed.

## 4. What is proved

Eight modules hold proofs. All of them are about every value of the constants; the
assumptions are the named `ASSUME`s of the module a proof is about, and nothing
else. What cannot be proved with this prover, or was not, is said at the end.

### WorkLifecycle_proofs

Every safety and action property of `work_lifecycle`, for any number of tasks,
runs and triggers, any interval, clock and revision bound. Assumed: triggers are
well formed (`maxRuns` is a positive integer, and none for immediate work, which
`validateWorkTrigger` checks), the interval is positive, the bounds are numbers,
`None` is no value of another kind, and run ids are a finite set (so that runs can
be counted).

1. `TypeCorrect`: `Typed` = `TypeOK /\ RowsRelated`. `TypeOK` is not inductive: to
   restore an archived task one must know it remembers a status, to settle a run
   that its task exists.
2. `SchedulesServeActiveTasks`, `SchedulesMoveOn`: inductive given `Typed`.
3. `ExclusiveInvariant`: once-only work needs two more facts than
   `OneShotExclusive` itself: a schedule that can still fire has no run yet, and a
   canceled schedule leaves no active run.
4. `TerminalRunsStay`, `EndedSchedulesStay`, `ClosedOneShotWorkStays`: action
   properties from the invariants above. A late run settling a canceled schedule
   would turn it into `completed`; `CanceledScheduleIsDone` excludes it.
5. `CountingInvariant`: `RunCountIsExact`, `TriggerBudget`, and between them
   `LiveScheduleHasBudget`: a live schedule has a firing left because the counter
   compared with `maxRuns` is never below the firings there were.

### WorkStatements_proofs

Every invariant of `statements_race`, for any number of callers, calls, tasks, runs
and crashes, any triggers, interval and clock: `TypeCorrect`, `TriggerTimeFiresOnce`,
`BudgetIsKept`, `RunsAreConfirmed`. Assumed: one caller at most fires schedules
(`CallersAssumption`), triggers are well formed, the interval and the first revision
are positive, run ids are a finite set of numbers, `None` is no value of another kind.

None of these can be seen from the tables alone: what a caller has read and what it
has queued come back into them later. `IInv` says what a row may refer to, of every
copy of it:

* `RowsFit`, `RunsStand`: a task that somebody has read stands, with a revision that
  was confirmed; a run that somebody has read stands, for the same task, trigger
  and time. Statements only add to this (`Grows`), so whatever is stale goes on to
  fit, and so does every statement that waits (`StatementGoesOn`).
* `QueueFits`: what a statement needs is in the tables or comes before it in its own
  queue; so each prefix that a crash leaves fits as well. `InsertsOnce`: no id is
  taken twice.
* `FiringsFit`: of a trigger time at most one run stands; the loop, once it has read
  the runs, has read every firing there is; and a firing that waits to be inserted
  has no run of its time. The assumption that one loop ticks is needed here, and
  nothing else keeps two of them apart: there is no unique key.
* `BudgetFits`: for every task there is a plan, its first trigger time and `maxRuns`,
  such that each copy of its schedule that can still fire stands at the k-th trigger
  time for a k below `maxRuns` and not above its counter, and each firing is at such a
  time. A stale row takes the counter and the next trigger time back together, so
  the schedule may pass the same times again but no later ones, and at each of them
  `FiringsFit` allows one run: hence the budget, although neither the counter nor the
  status is reliable by itself.

The proof goes from rows (`FiredScheduleRow`, `SettledScheduleRow`, ...: what the
methods write keeps to the plan) over statements (`TaskEffect`, ..., `ReviseEffect`: what
each does to the tables, and `ApplyFits`) to the actions: one lemma per method
(`CreateDueWorkRunFits`, ...), and `ReadTablesFits`, `ExecuteFits`, `CrashFits`, `TickFits`.

### WorkStatementsAlone_proofs

`CallsAreMethods`: `Spec => ImplementsLifecycle`, under the two conditions of the run
`statements_alone`: there is one caller (`OneCaller`) and the process does not die
(`~Crashes`). Both are needed: the findings are what happens when calls overlap,
and after a crash a prefix of the statements stands, which is no step of
`WorkLifecycle`. The number of calls, tasks, runs and revisions, the triggers, the
interval and the clock are any.

In the refinement the abstract tables are `WhenDone`, the tables with what waits
in the queue already done. So reading and executing are stutters, and the one
step that counts is the decision of a method (`Decide`). What must hold besides
`IInv` is `Alone`:

* `ReadsFit`: what the caller has read so far is what the tables are, so the method
  decides on them as the atomic action does (`SameGuards`, `SameRows`). The time it
  took is not past the clock.
* `RevisionsFit`: only a revision that its task has reached has a row, and
  `RevisesAnew`: what is to be written has none. So the unique key of
  `work_task_revisions` rejects nothing. That the CHECK on `work_schedules` rejects
  nothing follows from `BudgetFits` (`NothingIsRejected`), and no method is cut short.

Then each method has a lemma (`MoveWorkRunIs`, `CancelWorkTaskIs`, ...): its statements
one after the other have the effect of the atomic action, with `run_count` (an
increment of its own in the tables, a part of the row in the service) in agreement.
They rest on what `FoldLeft` does to a queue (`DoneNothing`, `DoneAfterFirst`,
`DoneConcat`). A canceled task writes a statement for each active run, of which there
can be any number: `DoneCanceling` is an induction along the queue (`EveryNumber`).

### WorkDispatch_proofs

Every invariant of `work_dispatch`, for any number of runs, members, operators,
replies, leases and crashes: `TypeCorrect`, `StartsOnce`, `OwnedInProgress`,
`ExecutedInProgress`, `OneRunOfMember`, and `BlockedIsAnswerable`, the last under
`~Overlap` (replies are handled one at a time; two that overlap break it).
Assumed: runs are numbers, a lease lives for at least a moment, and the control
plane, the replies and `None` are distinct (`RunsAssumption`, `TtlAssumption`,
`ActorsAssumption`).

None of the invariants is inductive. A chain holds a run over several steps, and
between two of them an operator may cancel the run or its lease, add a retry
lease or make leases expire. `IInv` therefore says what each chain may rely on at
each of its steps:

* `ChainFits`: a chain has a run exactly while it is not free, and goes on from a
  recovery request to where it came from.
* `RunFits`: a run no control plane began to execute is absent, queued or canceled
  and has no request; a run in progress or blocked has an acknowledged lease.
* `DispatchFits`: until its turn, the run of the control plane is queued or
  canceled, was never started, its latest lease is pending (then acknowledged)
  unless the run was canceled, and its member has no run in progress that is not
  a reply's. `StartsOnce` and `OwnedInProgress` rest on it: what follows the
  lease does not look at it again.
* `OneFreshPerMember`: a member has one run in progress that was never blocked. The
  look for an idle member and the move are several steps; only the control
  plane, of which there is one, makes such runs.
* `ReplyFits`, `OpFits`: a reply is about a run whose request was opened; an
  operator that goes on after the move has canceled the run.
* `InProgressIsSettled` names who settles a run in progress: the control plane in
  its turn, or the reply that is in `settling`.
* `Alone` and `Answerable`: replies that do not overlap find their run as they left it.

The proof has one lemma per action (`ExpireLeasesFits`, ..., `CrashFits`), over a few
lemmas about the shapes of steps: a chain at work (`WorkStep`), the dispatch loop
(`DispatchStep`), leases (`LeaseStep`), a cancellation (`CancelStep`).

### ChatTopicChain_proofs

Every invariant and action property of `chat_topic`, for any number of messages,
attempts, members, requests, turns, stops, failures and crashes. Assumed: the
bounds are numbers, and `None` is no chain, run or outcome.

The inductive invariant `IInv` has the shapes (`Typed`) and these relations:

* `RowsFit`: runs and chains are linked one to one. The run of a user message is
  told from those of replies by its length, and belongs to the chain of that
  message: this is why a chain that is inserted never finds its first run linked,
  while `advance` may (a retry makes the same reply and the same hand-over).
* `RequestFits`: until its request is sent on, a chain has no row, no run and no call.
* `CallFits`: the turns of a nested call are distinct and linked to its chain; the
  next holder is linked and not yet on the stack; all but the last have replied,
  unless a stop or a failure ends the calls otherwise; a call whose entry in
  `activeChains` is gone belongs to a chain that was asked to stop.
* `CompletedFits`, `CancelFits`, `ActiveChainIsExecuted`.

`RunIsExecutedOnce` follows from the links (two calls that execute a run are calls
of its one chain, at one place of its stack), `StopReachesHolder` from `CancelFits`:
once the stop is committed, `StopPreventsTransfer` keeps the current run what it
was. The two action properties are proved from what each statement does to a row
(`RecoveryOfRow`, `InsertionOfRow`, `AdvanceOfRow`, `FinishOfRow`, `StopOfRow`), with
`RequestFits` for the insertion.

### AccessStore_proofs

`TypeCorrect`, `AllowedCallsAreApproved` and `ListsShowNoEndedRun`, for any number of
members, contexts, callers, calls and crashes, and any overlap of calls. Assumed:
ids are numbers.

* A call goes through on a grant it has read, which some caller wrote from what that
  caller had read, and so on; so `IInv` says of every copy of the books (the tables,
  what each caller opened, its snapshot, and everything it has still to save) that
  its grants are for approved calls. Lost rows do no harm to it, and rows that come
  back do none either.
* A list shows its own snapshot, which nobody else writes: `ListInv` says that each
  WorkRun that had ended when the list began is still to be checked, or has no
  pending request in the books of the last save (`Covered`, `LastSaved`). A loop of
  cancellations is a sequence of saves; `LastCancellation` says what its last one
  leaves, from how many of the ids are smaller than each.

### AccessStoreAlone_proofs

What `access_calls` checks, when one call follows another (`OneCaller`, the hypothesis
of each theorem): `GrantsAreUsedOnce`, `CallsAskOnce`, `DeactivationsAreThorough`, for any
number of members, contexts, calls and crashes; and, for a process that lives
(`MaxCrashes = 0`), the refinement `CallsAreOperations`: `Spec => CallsAreAtomic`. The
hypotheses are needed: overlapping saves bring rows back, and a crash may leave
half a save.

While a call is under way the tables are no books that somebody has decided on:
rows are deleted, and those of the snapshot are put back one by one. `AloneInv`
says which:

* `Written`: until the deletions are done every row is still to be written; then the
  tables are the snapshot without the rows that are left (`Without`). When nothing
  is left they are the snapshot (`WrittenAll`), and at each step the foreign key
  holds, so no insertion fails (`NoGrantFails`).
* `Does`: the books that the last save leaves (`Outcome`) are what one operation makes
  of those that were opened. A loop of cancellations is one cancellation of them
  all, and so is a list that looks at one WorkRun after the other
  (`CanceledTwice`, `CanceledContexts`, `CancelsMore`).
* `BookFits`, of every copy: one pending request for each call, a grant for one time
  that is still good has let nobody through, and each grant has its approval. A
  part of books that fit fits (`PartFits`): this is what a crash leaves.

In the refinement `Books` is what the caller found, until it returns; then it is
the tables. So each step is a stutter but the return, and there `Does` names the
operation of `AccessRequests` (`ReturnImplements`).

### ProcessTraceWriter_proofs

`TypeCorrect` (which has the limit of the queue), `WatermarksHideNothing` and
`DrainsWaitForAll`, for any sizes of queue and batches, any number of runs,
observations and attempts. Assumed: the sizes are positive, the bounds numbers.
The invariant: what waits is in the order of its numbers, in the queue, in each
batch and along the chain (`Ordered`); no client was told of what waits
(`NotYetTold`); while the process lives every observation waits, is stored or was
given up (`Accounted`); and what the drain has to see settled is settled or among
the batches it still awaits (`DueFits`). A watermark can rise over an observation
only when a later one is stored, and by `Ordered` the earlier one has left the
chain by then.

### Model-checked only

The liveness properties: liveness under fairness is outside the prover's reach, and
so is ENABLED. What the two findings refute is refuted by TLC alone. No module
declares a recursive operator. The library's induction theorems take an operator
as a parameter, which the provers cannot instantiate; where induction is needed it
is stated for a set of numbers and derived from the well-founded order
(`EveryNumber` in WorkStatementsAlone_proofs).

## 5. What is not modelled

* In Work: texts, evidence, assignees' names, events other than "in progress"; the
  loop over companies; ticks that throw; `autoContinue` with more than one turn
  (the server does not configure it). Enabling and disabling members.
* In Chat: direct rooms (they have no chain), texts, mentions and how a holder is
  chosen (any member may be), published events, session summaries. Two stops at
  the same time.
* In Access: employee policies (a projection that is only read), risk levels and
  the message that carries a card. Of a member's deactivation the last step is
  modelled, not the flag of the directory, the sessions and the Work before it;
  its order over all of them is left to the plan.
* In Process Trace: what an observation says, subscribers, and queries. That a drain
  ends is not claimed: with observations that keep coming it need not, and it
  reports nothing of what was given up.
* Conversations, operating log, intake, channel topics, session records: appended
  records behind a unique key or an access check.
* Employee daemon, provider sessions, MCP, system AI, packages: wrappers of
  external services; WorkDispatch and ChatTopicChain have the ways a turn may end.
  The employee registry and its daemons (`persistent-employee-registry.ts`) are
  exported but not started by the server.
* Realtime transport, HTTP routes, authentication, configuration, prompts, backup,
  update, deployment, the web application: no state that the modelled parts decide
  on.

## 6. Plan

1. **Work**: WorkLifecycle (proved), WorkStatements, WorkDispatch. Done.
2. **ChatTopicChain**. Done, and proved.
3. **Access**: decisions, abstract specification, store. Done, and proved.
4. **ProcessTraceWriter**. Done, and proved.
5. **Proofs about WorkDispatch**. Done.
6. **Proofs about WorkStatements**, and that it implements WorkLifecycle. Done.
7. **Abstract specification of execution** (a run is queued, executed once, ended)
   that WorkDispatch implements.
8. **Provider sessions** (`persistent-pi-session-transport.ts`): an abort before the
   session exists, and the pool shared by Work and Chat.
9. **Member deactivation** over Work, sessions and Access; the control plane's loop
   over companies, with ticks that throw.

## 7. Running

```
tlc -workers 2 -config MCWorkLifecycle.cfg MCWorkLifecycle.tla
tlc -workers 2 -config MCWorkDispatch.cfg MCWorkDispatch.tla
tlc -workers 2 -config MCChatTopicChain.cfg MCChatTopicChain.tla
tlc -workers 2 -config MCAccessStoreOverlap.cfg MCAccessStore.tla
tlc -workers 2 -config MCProcessTraceWriter.cfg MCProcessTraceWriter.tla
tlapm WorkLifecycle_proofs.tla
tlapm WorkStatements_proofs.tla
tlapm WorkStatementsAlone_proofs.tla
tlapm WorkDispatch_proofs.tla
tlapm ChatTopicChain_proofs.tla
tlapm AccessStore_proofs.tla
tlapm AccessStoreAlone_proofs.tla
tlapm ProcessTraceWriter_proofs.tla
```

Each of the other `.cfg` files belongs to the MC module whose name it begins with.
