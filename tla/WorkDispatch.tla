----------------------------- MODULE WorkDispatch -----------------------------
(***************************************************************************)
(* How queued WorkRuns get executed: the control plane's dispatch loop     *)
(* (company-control-plane.ts, work-dispatcher.ts, work-dispatch-runner.ts),*)
(* the leases (work-dispatch-lease.ts), the turns of the employee          *)
(* (work-execution-service.ts), the recovery of blocked runs               *)
(* (work-blocked-recovery-*.ts), and the operator's cancellation and       *)
(* dispatch retry (work-cancellation-service.ts, tasks-run-actions.ts).    *)
(*                                                                         *)
(* One process runs all of them as interleaved promise chains.  A step     *)
(* here is what one chain does between two awaits that matter: one call of *)
(* WorkService (atomic here; WorkStatements takes it apart), one call of   *)
(* the lease service, one turn.  A chain keeps what it read, and the       *)
(* others move on.                                                         *)
(***************************************************************************)
EXTENDS Naturals, Sequences, SequencesExt, WorkRunStatus

CONSTANTS
  Runs,          \* WorkRun ids in the order of their createdAt
  Members,
  Assignee,      \* Assignee[r]: the member who executes run r
  ControlPlane,  \* the dispatch loop
  Replies,       \* messages sent in recovery conversations
  Overlap,       \* whether a reply may arrive while another is being handled
  Operators,     \* requests of people at the Tasks page
  Cancelers,     \* bound: those of them that may cancel
  Ttl,           \* clock ticks until a pending lease expires
  MaxLeases,     \* bound: dispatch is retried up to this many leases of a run
  MaxCrashes,    \* bound: the process dies this often
  None

ASSUME RunsAssumption == Runs \subseteq Nat /\ Assignee \in [Runs -> Members]
ASSUME TtlAssumption == Ttl \in Nat \ {0} /\ MaxLeases \in Nat /\ MaxCrashes \in Nat
ASSUME ActorsAssumption ==
  /\ Overlap \in BOOLEAN /\ ControlPlane \notin Replies /\ None \notin Runs
  /\ Cancelers \subseteq Operators

Workers == {ControlPlane} \cup Replies

VARIABLES
  run,       \* work_runs.status
  progress,  \* whether the last event of the run says "still in progress"
  leases,    \* work_dispatch_leases of each run, oldest first
  request,   \* work_blocked_recovery_requests.status of each run
  worker,    \* how far the control plane and the reply handlers have got
  op,        \* how far the operators' requests have got
  starts,    \* history: how often the control plane began to execute a run
  crashes

vars == <<run, progress, leases, request, worker, op, starts, crashes>>

-----------------------------------------------------------------------------
(* WorkService.moveWorkRun and recordWorkRunEvent, as far as they show here. *)

CanMove(r, to) == <<run[r], to>> \in RunTransitions

MoveRun(r, to) ==
  /\ CanMove(r, to)
  /\ run' = [run EXCEPT ![r] = to]
  /\ progress' = [progress EXCEPT ![r] = FALSE]

RecordEvent(r, isProgress) ==
  /\ progress' = [progress EXCEPT ![r] = isProgress]
  /\ UNCHANGED run

\* A run comes into being, by createWork, createDueWorkRun or retryWorkRun.
Enqueue(r) ==
  /\ run[r] = "absent"
  /\ \A q \in Runs : q < r => run[q] # "absent"
  /\ run' = [run EXCEPT ![r] = "queued"]
  /\ UNCHANGED <<progress, leases, request, worker, op, starts, crashes>>

-----------------------------------------------------------------------------
(* The leases.  ttl is the time left to a pending lease.                   *)

PendingLease(isRetry) == [status |-> "pending", retry |-> isRetry, ttl |-> Ttl]
Settled(lease, status) == [lease EXCEPT !.status = status, !.ttl = 0]

LatestIs(r, statuses) == leases[r] # <<>> /\ Last(leases[r]).status \in statuses

\* updateLease of the latest lease.
SettleLatest(r, status) ==
  leases' = [leases EXCEPT ![r] = ReplaceAt(@, Len(@), Settled(Last(@), status))]

AddLease(r, isRetry) == leases' = [leases EXCEPT ![r] = Append(@, PendingLease(isRetry))]

\* markExpiredPendingLeasesFailed.
\* Mutant: an expired lease gets a status of its own.
Expired_Named(lease) ==
  IF lease.status = "pending" /\ lease.ttl = 0 THEN Settled(lease, "expired") ELSE lease

\* Mutant: the lease of an explicit retry never expires.
Expired_NotRetry(lease) ==
  IF lease.status = "pending" /\ lease.ttl = 0 /\ ~lease.retry
  THEN Settled(lease, "failed") ELSE lease

Expired(lease) ==
  IF lease.status = "pending" /\ lease.ttl = 0 THEN Settled(lease, "failed") ELSE lease

Aged(lease) == IF lease.ttl > 0 THEN [lease EXCEPT !.ttl = @ - 1] ELSE lease

Tick ==
  /\ \E r \in Runs : \E i \in DOMAIN leases[r] : leases[r][i].ttl > 0
  /\ leases' = [r \in Runs |-> [i \in DOMAIN leases[r] |-> Aged(leases[r][i])]]
  /\ UNCHANGED <<run, progress, request, worker, op, starts, crashes>>

-----------------------------------------------------------------------------
(* The workers: the control plane and the handlers of recovery replies.    *)

\* then: where to go after the recovery request is open, or how to close it.
Resting(w) ==
  [pc |-> IF w = ControlPlane THEN "idle" ELSE "handled",
   run |-> None, repaired |-> FALSE, then |-> None]

Job(w) == worker[w].run
At(w, pc) == worker[w].pc = pc
Goto(w, pc) == worker' = [worker EXCEPT ![w].pc = pc]
Rest(w) == worker' = [worker EXCEPT ![w] = Resting(w)]

\* What a chain does when its run turns out to be canceled: the control plane
\* returns, a reply handler still has its request to close.
Canceled(w) == IF w = ControlPlane THEN Resting(w) ELSE [worker[w] EXCEPT !.pc = "concluding"]

-----------------------------------------------------------------------------
(* CompanyControlPlane.dispatchNext.                                       *)

\* Mutant: only the latest lease of a run is looked at.
ExpireLeases_Latest ==
  /\ At(ControlPlane, "idle")
  /\ leases' = [r \in Runs |-> [i \in DOMAIN leases[r] |->
                   IF i = Len(leases[r]) THEN Expired(leases[r][i]) ELSE leases[r][i]]]
  /\ Goto(ControlPlane, "selecting")
  /\ UNCHANGED <<run, progress, request, op, starts, crashes>>

ExpireLeases ==
  /\ At(ControlPlane, "idle")
  /\ leases' = [r \in Runs |-> [i \in DOMAIN leases[r] |-> Expired(leases[r][i])]]
  /\ Goto(ControlPlane, "selecting")
  /\ UNCHANGED <<run, progress, request, op, starts, crashes>>

IsAssigneeIdle(r) == \A q \in Runs : Assignee[q] = Assignee[r] => run[q] # "in_progress"

IsExplicitRetry(r) == LatestIs(r, {"pending"}) /\ Last(leases[r]).retry

\* Mutant: the assignee may be busy.
IsCandidate_Busy(r) ==
  /\ run[r] = "queued"
  /\ leases[r] = <<>> \/ LatestIs(r, {"acknowledged", "canceled"}) \/ IsExplicitRetry(r)

\* Mutant: an acknowledged lease still owns its queued run.
IsCandidate_NotAcknowledged(r) ==
  /\ run[r] = "queued"
  /\ IsAssigneeIdle(r)
  /\ leases[r] = <<>> \/ LatestIs(r, {"canceled"}) \/ IsExplicitRetry(r)

IsCandidate(r) ==
  /\ run[r] = "queued"
  /\ IsAssigneeIdle(r)
  /\ leases[r] = <<>> \/ LatestIs(r, {"acknowledged", "canceled"}) \/ IsExplicitRetry(r)

Oldest(rs) == CHOOSE r \in rs : \A q \in rs : r <= q

\* findNextDispatchCandidate: explicit retries first, then the oldest run.
FindCandidate ==
  LET candidates == {r \in Runs : IsCandidate(r)}
      retries == {r \in candidates : IsExplicitRetry(r)}
  IN /\ At(ControlPlane, "selecting")
     /\ worker' = [worker EXCEPT ![ControlPlane] =
          IF candidates = {} THEN Resting(ControlPlane)
          ELSE IF retries # {} THEN [@ EXCEPT !.run = Oldest(retries), !.pc = "resolving"]
          ELSE [@ EXCEPT !.run = Oldest(candidates), !.pc = "leasing"]]
     /\ UNCHANGED <<run, progress, leases, request, op, starts, crashes>>

\* createPendingLease throws when a lease has become pending in the meantime.
CreateLease ==
  LET r == Job(ControlPlane)
  IN /\ At(ControlPlane, "leasing")
     /\ IF LatestIs(r, {"pending"}) THEN Rest(ControlPlane) /\ UNCHANGED leases
                                    ELSE Goto(ControlPlane, "resolving") /\ AddLease(r, FALSE)
     /\ UNCHANGED <<run, progress, request, op, starts, crashes>>

EmployeeFound ==
  /\ At(ControlPlane, "resolving")
  /\ Goto(ControlPlane, "acknowledging")
  /\ UNCHANGED <<run, progress, leases, request, op, starts, crashes>>

\* failPendingDispatch, then the runner throws.
EmployeeMissing ==
  LET r == Job(ControlPlane)
  IN /\ At(ControlPlane, "resolving")
     /\ IF LatestIs(r, {"pending"}) THEN SettleLatest(r, "failed") ELSE UNCHANGED leases
     /\ Rest(ControlPlane)
     /\ UNCHANGED <<run, progress, request, op, starts, crashes>>

\* acknowledgeWorkRunStart; that there was nothing to acknowledge is no obstacle.
\* Mutant: the lease is not acknowledged.
Acknowledge_Skipped ==
  /\ At(ControlPlane, "acknowledging")
  /\ Goto(ControlPlane, "starting")
  /\ UNCHANGED <<run, progress, leases, request, op, starts, crashes>>

Acknowledge ==
  LET r == Job(ControlPlane)
  IN /\ At(ControlPlane, "acknowledging")
     /\ IF LatestIs(r, {"pending"}) THEN SettleLatest(r, "acknowledged") ELSE UNCHANGED leases
     /\ Goto(ControlPlane, "starting")
     /\ UNCHANGED <<run, progress, request, op, starts, crashes>>

\* startWorkRunExecution moves the run if it reads it as queued, and goes on
\* with whatever it reads otherwise.
ReadRun ==
  LET r == Job(ControlPlane)
  IN /\ At(ControlPlane, "starting")
     /\ IF run[r] = "queued" THEN Goto(ControlPlane, "moving") /\ UNCHANGED starts
        ELSE Goto(ControlPlane, "turn") /\ starts' = [starts EXCEPT ![r] = @ + 1]
     /\ UNCHANGED <<run, progress, leases, request, op, crashes>>

\* startQueuedWorkRun; a run that was canceled in between is rejected.
\* Mutant: the turn begins and the run stays queued.
StartQueuedRun_Unmoved ==
  LET r == Job(ControlPlane)
  IN /\ At(ControlPlane, "moving")
     /\ Goto(ControlPlane, "turn")
     /\ starts' = [starts EXCEPT ![r] = @ + 1]
     /\ UNCHANGED <<run, progress, leases, request, op, crashes>>

StartQueuedRun ==
  LET r == Job(ControlPlane)
  IN /\ At(ControlPlane, "moving")
     /\ \/ /\ MoveRun(r, "in_progress")
           /\ Goto(ControlPlane, "turn")
           /\ starts' = [starts EXCEPT ![r] = @ + 1]
        \/ /\ ~CanMove(r, "in_progress")
           /\ Rest(ControlPlane)
           /\ UNCHANGED <<run, progress, starts>>
     /\ UNCHANGED <<leases, request, op, crashes>>

-----------------------------------------------------------------------------
(* A turn of the employee, and what its finish_work_turn does to the run.  *)

\* A reply makes the run's session go on, if the run is still blocked.
ReceiveReply(h, r) ==
  /\ At(h, "unsent")
  /\ Overlap \/ \A k \in Replies : worker[k].pc \in {"unsent", "handled"}
  /\ request[r] = "open"
  /\ run[r] = "blocked"
  /\ worker' = [worker EXCEPT ![h] = [@ EXCEPT !.pc = "turn", !.run = r]]
  /\ UNCHANGED <<run, progress, leases, request, op, starts, crashes>>

\* Where a turn that was applied leads: a reply handler checks that the run is
\* in a stable state, the control plane takes what it finds.
Applied(w) == IF w = ControlPlane THEN Rest(w) ELSE Goto(w, "settling")

InTurn(w) == At(w, "turn") /\ run[Job(w)] # "canceled"

DiscardTurn(w) ==
  /\ At(w, "turn")
  /\ run[Job(w)] = "canceled"
  /\ worker' = [worker EXCEPT ![w] = Canceled(w)]
  /\ UNCHANGED <<run, progress, leases, request, op, starts, crashes>>

\* finish_work_turn was not called: one repair turn.
RepairTurn(w) ==
  /\ InTurn(w)
  /\ ~worker[w].repaired
  /\ worker' = [worker EXCEPT ![w].repaired = TRUE]
  /\ RecordEvent(Job(w), FALSE)
  /\ UNCHANGED <<leases, request, op, starts, crashes>>

TurnInProgress(w) ==
  /\ InTurn(w)
  /\ IF run[Job(w)] = "blocked" THEN MoveRun(Job(w), "in_progress") ELSE RecordEvent(Job(w), TRUE)
  /\ Applied(w)
  /\ UNCHANGED <<leases, request, op, starts, crashes>>

TurnEnds(w, status) ==
  /\ InTurn(w)
  /\ MoveRun(Job(w), status)
  /\ Applied(w)
  /\ UNCHANGED <<leases, request, op, starts, crashes>>

TurnBlocks(w) ==
  /\ InTurn(w)
  /\ MoveRun(Job(w), "blocked")
  /\ worker' = [worker EXCEPT ![w].pc = "opening",
                              ![w].then = IF w = ControlPlane THEN "idle" ELSE "settling"]
  /\ UNCHANGED <<leases, request, op, starts, crashes>>

\* The provider fails, the result is invalid or the run cannot take it.  Only
\* the control plane fails the run, if it is still in progress.
\* Mutant: the error is only reported.
TurnFails_Rethrown(w) ==
  /\ InTurn(w)
  /\ Rest(w)
  /\ UNCHANGED <<run, progress, leases, request, op, starts, crashes>>

TurnFails(w) ==
  /\ InTurn(w)
  /\ IF w = ControlPlane /\ run[Job(w)] = "in_progress" THEN MoveRun(Job(w), "failed")
                                                        ELSE UNCHANGED <<run, progress>>
  /\ Rest(w)
  /\ UNCHANGED <<leases, request, op, starts, crashes>>

\* The end of continueWorkRunExecution: a run that a reply left in progress is
\* blocked again (autoContinue has no turns to add: maxTurns is 1).
SettleRun(h) ==
  LET r == Job(h)
  IN /\ At(h, "settling")
     /\ IF run[r] = "in_progress"
        THEN /\ MoveRun(r, "blocked")
             /\ worker' = [worker EXCEPT ![h].pc = "opening", ![h].then = "concluding"]
        ELSE Goto(h, "concluding") /\ UNCHANGED <<run, progress>>
     /\ UNCHANGED <<leases, request, op, starts, crashes>>

-----------------------------------------------------------------------------
(* openRecoveryForBlockedRun: reuse the open request, or send a message in  *)
(* the conversation (a new one the first time) and (re)open the request.   *)

\* Where the chain continues once the request is open.
Opened(w) == IF worker[w].then = "idle" THEN Rest(w) ELSE Goto(w, worker[w].then)

OpenRecovery(w) ==
  /\ At(w, "opening")
  /\ \/ request[Job(w)] = "open" /\ Opened(w)
     \/ request[Job(w)] # "open" /\ run[Job(w)] = "blocked" /\ Goto(w, "messaging")
  /\ UNCHANGED <<run, progress, leases, request, op, starts, crashes>>

SaveRequest(w) ==
  /\ At(w, "messaging")
  /\ request' = [request EXCEPT ![Job(w)] = "open"]
  /\ Opened(w)
  /\ UNCHANGED <<run, progress, leases, op, starts, crashes>>

\* The run is not blocked any more, the conversation is gone or the message
\* cannot be sent, or onMessageCreated throws once the request is saved: the run
\* fails if it can, and the error ends the chain.
RecoveryFails(w) ==
  LET r == Job(w)
  IN /\ \/ (At(w, "opening") \/ At(w, "messaging")) /\ UNCHANGED request
        \/ At(w, "messaging") /\ request' = [request EXCEPT ![r] = "open"]
     /\ MoveRun(r, "failed") \/ (~CanMove(r, "failed") /\ UNCHANGED <<run, progress>>)
     /\ worker' = [worker EXCEPT ![w] = IF run[r] = "canceled" THEN Canceled(w) ELSE Resting(w)]
     /\ UNCHANGED <<leases, op, starts, crashes>>

\* handleParticipantMessage reads the run, sends the employee's answer, and
\* closes the request unless it read that the run is blocked.
\* Mutant: once the employee has answered, the request is closed.
ReadOutcome_Answered(h) ==
  /\ At(h, "concluding")
  /\ worker' = [worker EXCEPT ![h].pc = "closing",
        ![h].then = IF run[Job(h)] = "canceled" THEN "canceled" ELSE "resolved"]
  /\ UNCHANGED <<run, progress, leases, request, op, starts, crashes>>

ReadOutcome(h) ==
  LET status == run[Job(h)]
  IN /\ At(h, "concluding")
     /\ IF status = "blocked" THEN Rest(h)
        ELSE worker' = [worker EXCEPT ![h].pc = "closing",
               ![h].then = IF status = "canceled" THEN "canceled" ELSE "resolved"]
     /\ UNCHANGED <<run, progress, leases, request, op, starts, crashes>>

CloseRequest(h) ==
  /\ At(h, "closing")
  /\ request' = [request EXCEPT ![Job(h)] = worker[h].then]
  /\ Rest(h)
  /\ UNCHANGED <<run, progress, leases, op, starts, crashes>>

-----------------------------------------------------------------------------
(* The operator.                                                           *)

NoRequest == [pc |-> "idle", run |-> None]
OpGoto(o, pc) == op' = [op EXCEPT ![o].pc = pc]
OpDone(o) == op' = [op EXCEPT ![o] = NoRequest]

\* WorkCancellationService: the run, its lease, its recovery, its session.
\* Canceling the task again cleans up after its canceled runs again.
CancelRun(o, r) ==
  /\ op[o].pc = "idle" /\ o \in Cancelers
  /\ \/ MoveRun(r, "canceled")
     \/ run[r] = "canceled" /\ UNCHANGED <<run, progress>>
  /\ op' = [op EXCEPT ![o] = [pc |-> "cancelLease", run |-> r]]
  /\ UNCHANGED <<leases, request, worker, starts, crashes>>

CancelLease(o) ==
  LET r == op[o].run
  IN /\ op[o].pc = "cancelLease"
     /\ IF LatestIs(r, {"pending", "acknowledged"}) THEN SettleLatest(r, "canceled")
                                                    ELSE UNCHANGED leases
     /\ OpGoto(o, "cancelRecovery")
     /\ UNCHANGED <<run, progress, request, worker, starts, crashes>>

CancelRecovery(o) ==
  LET r == op[o].run
  IN /\ op[o].pc = "cancelRecovery"
     /\ request' = [request EXCEPT ![r] = IF @ = "open" THEN "canceled" ELSE @]
     /\ OpGoto(o, "abort")
     /\ UNCHANGED <<run, progress, leases, worker, starts, crashes>>

\* abortSessions ends the turns the run's session is in at this moment.
AbortSessions(o) ==
  /\ op[o].pc = "abort"
  /\ worker' = [w \in Workers |->
       IF At(w, "turn") /\ Job(w) = op[o].run THEN Canceled(w) ELSE worker[w]]
  /\ OpDone(o)
  /\ UNCHANGED <<run, progress, leases, request, starts, crashes>>

\* buildAction: when the Tasks page offers retry-dispatch.
MayRetryDispatch(r) == run[r] = "queued" /\ LatestIs(r, {"failed"})

\* retry-dispatch: the action looks at the run and its lease, createPendingLease
\* looks again, and then inserts.
RetryDispatch(o, r) ==
  /\ op[o].pc = "idle"
  /\ MayRetryDispatch(r)
  /\ Len(leases[r]) < MaxLeases
  /\ op' = [op EXCEPT ![o] = [pc |-> "retrying", run |-> r]]
  /\ UNCHANGED <<run, progress, leases, request, worker, starts, crashes>>

CheckLease(o) ==
  /\ op[o].pc = "retrying"
  /\ IF LatestIs(op[o].run, {"pending"}) THEN OpDone(o) ELSE OpGoto(o, "inserting")
  /\ UNCHANGED <<run, progress, leases, request, worker, starts, crashes>>

InsertLease(o) ==
  /\ op[o].pc = "inserting"
  /\ AddLease(op[o].run, TRUE)
  /\ OpDone(o)
  /\ UNCHANGED <<run, progress, request, worker, starts, crashes>>

-----------------------------------------------------------------------------
\* The process dies and starts again: nothing resumes what a chain was doing.
Crash ==
  /\ crashes < MaxCrashes
  /\ crashes' = crashes + 1
  /\ worker' = [w \in Workers |-> IF At(w, "unsent") THEN worker[w] ELSE Resting(w)]
  /\ op' = [o \in Operators |-> NoRequest]
  /\ UNCHANGED <<run, progress, leases, request, starts>>

Init ==
  /\ run = [r \in Runs |-> "absent"]
  /\ progress = [r \in Runs |-> FALSE]
  /\ leases = [r \in Runs |-> <<>>]
  /\ request = [r \in Runs |-> "none"]
  /\ worker = [w \in Workers |->
       IF w = ControlPlane THEN Resting(w) ELSE [Resting(w) EXCEPT !.pc = "unsent"]]
  /\ op = [o \in Operators |-> NoRequest]
  /\ starts = [r \in Runs |-> 0]
  /\ crashes = 0

Dispatch ==
  \/ ExpireLeases \/ FindCandidate \/ CreateLease \/ EmployeeFound \/ EmployeeMissing
  \/ Acknowledge \/ ReadRun \/ StartQueuedRun

Turn(w) ==
  \/ DiscardTurn(w) \/ RepairTurn(w) \/ TurnInProgress(w)
  \/ \E status \in TerminalRun : TurnEnds(w, status)
  \/ TurnBlocks(w) \/ TurnFails(w)
  \/ OpenRecovery(w) \/ SaveRequest(w) \/ RecoveryFails(w)

Reply(h) == Turn(h) \/ SettleRun(h) \/ ReadOutcome(h) \/ CloseRequest(h)

Request(o) ==
  \/ CancelLease(o) \/ CancelRecovery(o) \/ AbortSessions(o) \/ CheckLease(o) \/ InsertLease(o)

Next ==
  \/ \E r \in Runs : Enqueue(r)
  \/ Dispatch
  \/ Turn(ControlPlane)
  \/ \E h \in Replies, r \in Runs : ReceiveReply(h, r)
  \/ \E h \in Replies : Reply(h)
  \/ \E o \in Operators, r \in Runs : CancelRun(o, r) \/ RetryDispatch(o, r)
  \/ \E o \in Operators : Request(o)
  \/ Tick
  \/ Crash

\* The loop's timer keeps firing, a turn ends (the provider times out), a chain
\* that has begun goes on, and time passes.  Nobody has to enqueue, reply,
\* cancel, retry or crash.
Fairness ==
  /\ WF_vars(Dispatch \/ Turn(ControlPlane))
  /\ \A h \in Replies : WF_vars(Reply(h))
  /\ \A o \in Operators : WF_vars(Request(o))
  /\ WF_vars(Tick)

Spec == Init /\ [][Next]_vars /\ Fairness
-----------------------------------------------------------------------------
(* What dispatch and execution promise.                                    *)

\* Rows have their columns; a chain has a run exactly while it works on one.
TypeOK ==
  /\ run \in [Runs -> {"absent"} \cup ActiveRun \cup TerminalRun]
  /\ progress \in [Runs -> BOOLEAN]
  /\ \A r \in Runs : \A i \in DOMAIN leases[r] :
       leases[r][i] \in [status : {"pending", "acknowledged", "failed", "canceled"},
                        retry : BOOLEAN, ttl : 0 .. Ttl]
  /\ request \in [Runs -> {"none", "open", "resolved", "canceled"}]
  /\ \A w \in Workers : worker[w].run \in Runs <=>
       worker[w].pc \notin {"idle", "selecting", "unsent", "handled"}
  /\ \A o \in Operators : op[o].run \in Runs <=> op[o].pc # "idle"

\* work-system.md: "Dispatch must prevent the same WorkRun from being started
\* twice": not after a crash at any point, not when its lease expired, was
\* canceled, or was issued twice by two operators.
RunStartsOnce == \A r \in Runs : starts[r] <= 1

\* The lease is the ownership mechanism: whatever has been executed was owned.
\* Not even a retry lease that arrives late, or a canceled one, leaves a run in
\* progress that no lease was acknowledged for.
RunIsOwned ==
  \A r \in Runs : run[r] = "in_progress" =>
    \E i \in DOMAIN leases[r] : leases[r][i].status = "acknowledged"

WorksOn(w, r) ==
  Job(w) = r /\ worker[w].pc \in {"turn", "opening", "messaging", "settling"}

\* Short of a crash, a run in progress is being worked on, unless the employee
\* ended its turn with "in_progress": every error on the way settles the run.
RunInProgressIsExecuted ==
  crashes = 0 =>
    \A r \in Runs : run[r] = "in_progress" /\ ~progress[r] =>
      \E w \in Workers : WorksOn(w, r)

\* An employee has one run in progress.  A recovery reply may put a second one
\* into progress, but it does not leave it so.
MemberWorksOnOneRun ==
  crashes = 0 =>
    \A q, r \in Runs :
      /\ q < r
      /\ Assignee[q] = Assignee[r]
      /\ run[q] = "in_progress" /\ run[r] = "in_progress"
      => \E h \in Replies : WorksOn(h, q) \/ WorksOn(h, r)

\* work-system.md: after a recovery reply that did not complete the run, Runtime
\* "keeps the same recovery DM open".  Short of a crash, a blocked run can be
\* answered: its request is open or is about to be.  Holds while replies are
\* handled one at a time; two that overlap break it.
BlockedRunCanBeAnswered ==
  crashes = 0 =>
    \A r \in Runs : run[r] = "blocked" /\ request[r] # "open" =>
      \E w \in Workers : Job(w) = r /\ worker[w].pc \in {"opening", "messaging"}

\* A queued run is eventually started, canceled, or shown as failed to dispatch,
\* unless its assignee is busy: a crash between the lease and the start, a retry
\* that was issued twice or a run that is preferred never leaves it behind.
QueuedRunMovesOn ==
  \A r \in Runs :
    run[r] = "queued" ~>
      (run[r] # "queued" \/ LatestIs(r, {"failed"}) \/ ~IsAssigneeIdle(r))

IsPending(r, i) == i \in DOMAIN leases[r] /\ leases[r][i].status = "pending"

\* No lease stays pending, whatever became of the loop or the run it was for, nor
\* does the older of two leases that operators created at once (one more than
\* MaxLeases, then).
PendingLeaseIsSettled ==
  \A r \in Runs : \A i \in 1 .. MaxLeases + 1 : IsPending(r, i) ~> ~IsPending(r, i)

-----------------------------------------------------------------------------
(* What the documents say and the chains do not keep.                      *)

\* docs/product/work-system.md: canceling "first makes `canceled` authoritative,
\* then cancels pending or acknowledged dispatch ownership, closes blocked
\* recovery, aborts the exact `work_run_execution` session": once a cancellation
\* has done all that, the session of the canceled run is at rest.
CanceledRunIsAtRest ==
  \A r \in Runs : run[r] = "canceled" /\ (\A o \in Operators : op[o].run # r) =>
    \A w \in Workers : ~(At(w, "turn") /\ Job(w) = r)
=============================================================================
