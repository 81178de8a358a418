------------------------------ MODULE AccessStore ------------------------------
(***************************************************************************)
(* Access requests on PostgreSQL (postgres-company-governance-store.ts).   *)
(*                                                                         *)
(* Every HTTP request, WorkRun hook and deactivation opens a store of its  *)
(* own (tinyoffice-server.ts): it reads the approvals, then the grants,    *)
(* into a snapshot, and from then on decides on the snapshot.  Each save   *)
(* deletes every grant and every approval of the company and inserts those *)
(* of the snapshot again, one statement after the other and each in a      *)
(* transaction of its own.  A process that dies loses the statements its   *)
(* calls had still to run.                                                 *)
(***************************************************************************)
EXTENDS AccessDecisions

CONSTANTS
  Callers,     \* calls that are under way at the same time
  ParallelCalls, \* whether the agent of a member makes guarded calls at once
  MaxCalls,    \* bound: this many calls are made
  MaxCrashes   \* bound: the process dies this often

ASSUME BoundsAssumption == ParallelCalls \in BOOLEAN /\ MaxCalls \in Nat /\ MaxCrashes \in Nat

VARIABLES
  tables,     \* governance_approvals and approval_grants
  ended,      \* WorkRuns in a terminal status
  hooks,      \* those whose onWorkRunTerminal is still to be called
  pc,         \* how far each caller has got
  op,         \* what it is doing
  opened,     \* the rows it has read
  snap,       \* the store's fields approvals and approvalGrants
  saves,      \* what it has still to save, in order
  left,       \* pendingWrites: the statements of the save under way
  toCheck,    \* WorkRuns whose status a list has still to read
  issued,     \* history: how many approval and grant ids have been made
  uses,       \* history: how many calls each grant has let through
  consented,  \* history: calls that somebody has approved
  calls, crashes

local == <<pc, op, opened, snap, saves, left, toCheck>>
history == <<issued, uses, consented>>
vars == <<tables, ended, hooks, local, history, calls, crashes>>

Idle == [kind |-> "none"]

-----------------------------------------------------------------------------
(* save queues two DELETEs and one upsert for each row of the snapshot;    *)
(* left is what has still to run.                                          *)

NoStatements == [deletes |-> 0, approvals |-> {}, grants |-> {}]

\* Mutant: the grants of the snapshot are not written back.
SaveStatements_Approvals(b) ==
  [deletes |-> 2, approvals |-> DOMAIN b.approvals, grants |-> {}]

SaveStatements(b) ==
  [deletes |-> 2, approvals |-> DOMAIN b.approvals, grants |-> DOMAIN b.grants]

IsLeast(i, ids) == i \in ids /\ \A j \in ids : i <= j

\* What caller c does once its saves are written.
AfterSaves(c) == IF op[c].kind = "list" THEN "checking" ELSE "returning"

\* store.update: load the snapshot, change it, save it; bs are the snapshots
\* that the updates one after the other leave.
Saving(c, bs) ==
  IF bs = <<>>
    THEN /\ pc' = [pc EXCEPT ![c] = AfterSaves(c)]
         /\ saves' = [saves EXCEPT ![c] = <<>>]
         /\ left' = [left EXCEPT ![c] = NoStatements]
         /\ UNCHANGED snap
    ELSE /\ pc' = [pc EXCEPT ![c] = "writing"]
         /\ snap' = [snap EXCEPT ![c] = Head(bs)]
         /\ saves' = [saves EXCEPT ![c] = Tail(bs)]
         /\ left' = [left EXCEPT ![c] = SaveStatements(Head(bs))]

\* One save for each approval that is canceled.
Cancellations(b, ids) ==
  [k \in 1 .. Cardinality(ids) |-> Canceled(b, {i \in ids : Cardinality({j \in ids : j < i}) < k})]

-----------------------------------------------------------------------------
(* A call opens its store.                                                 *)

Begin(c, o) ==
  /\ pc[c] = "idle" /\ calls < MaxCalls
  /\ calls' = calls + 1
  /\ pc' = [pc EXCEPT ![c] = "reading"]
  /\ op' = [op EXCEPT ![c] = o]
  /\ opened' = [opened EXCEPT ![c] = [tables EXCEPT !.grants = <<>>]]
  /\ UNCHANGED <<tables, ended, snap, saves, left, toCheck, history, crashes>>

\* The agent is the provider's: it may or may not make guarded calls at once.
ToolCall(c, call) ==
  /\ ParallelCalls \/ \A d \in Callers :
       op[d].kind \in {"toolCall", "allowed"} => op[d].call.member # call.member
  /\ Begin(c, [kind |-> "toolCall", call |-> call])
  /\ UNCHANGED hooks

\* The approver answers a card, perhaps one that is no longer pending.
Decide(c, i, decision) ==
  /\ i \in 1 .. issued.approvals
  /\ Begin(c, [kind |-> "resolve", id |-> i, decision |-> decision])
  /\ UNCHANGED hooks

\* ended is remembered for ListShowsNoEndedRun only.
ListRequests(c) == Begin(c, [kind |-> "list", ended |-> ended]) /\ UNCHANGED hooks

RunTerminalHook(c, r) ==
  /\ r \in hooks /\ hooks' = hooks \ {r}
  /\ Begin(c, [kind |-> "runEnded", context |-> r])

Deactivate(c, m) == Begin(c, [kind |-> "deactivate", member |-> m]) /\ UNCHANGED hooks

-----------------------------------------------------------------------------
(* It reads the grants, and decides on its rows.                           *)

Rows(c) == [opened[c] EXCEPT !.grants = tables.grants]

Opens(c, kind) ==
  /\ pc[c] = "reading" /\ op[c].kind = kind
  /\ opened' = [opened EXCEPT ![c] = Rows(c)]

\* A session's grant lets the call through as it is; consumeOneTimeGrant saves.
AllowCall(c) ==
  /\ Opens(c, "toolCall") /\ IsGranted(Rows(c), op[c].call)
  /\ LET g == FirstMatch(Rows(c), op[c].call)
         b == Consumed(Rows(c), g)
     IN /\ op' = [op EXCEPT ![c] = [kind |-> "allowed", call |-> @.call, grant |-> g]]
        /\ Saving(c, IF b = Rows(c) THEN <<>> ELSE <<b>>)
  /\ UNCHANGED <<tables, ended, hooks, toCheck, history, calls, crashes>>

BlockCall(c) ==
  /\ Opens(c, "toolCall")
  /\ ~IsGranted(Rows(c), op[c].call) /\ PendingFor(Rows(c), op[c].call) # {}
  /\ Saving(c, <<>>)
  /\ UNCHANGED <<tables, ended, hooks, op, toCheck, history, calls, crashes>>

RequestApproval(c) ==
  /\ Opens(c, "toolCall")
  /\ ~IsGranted(Rows(c), op[c].call) /\ PendingFor(Rows(c), op[c].call) = {}
  /\ issued.approvals + 1 \in ApprovalIds
  /\ issued' = [issued EXCEPT !.approvals = @ + 1]
  /\ Saving(c, <<Requested(Rows(c), issued.approvals + 1, op[c].call)>>)
  /\ UNCHANGED <<tables, ended, hooks, op, toCheck, uses, consented, calls, crashes>>

Reject(c) ==
  /\ Opens(c, "resolve") /\ op[c].decision = "reject"
  /\ op[c].id \in DOMAIN Rows(c).approvals
  /\ Saving(c, <<Resolved(Rows(c), op[c].id, "reject")>>)
  /\ UNCHANGED <<tables, ended, hooks, op, toCheck, history, calls, crashes>>

Approve(c) ==
  /\ Opens(c, "resolve") /\ op[c].decision # "reject"
  /\ op[c].id \in DOMAIN Rows(c).approvals
  /\ issued.grants + 1 \in GrantIds
  /\ issued' = [issued EXCEPT !.grants = @ + 1]
  /\ consented' = consented \cup {Rows(c).approvals[op[c].id].call}
  /\ LET b == Resolved(Rows(c), op[c].id, op[c].decision)
     IN Saving(c, <<b, Granted(b, op[c].id, issued.grants + 1, op[c].decision)>>)
  /\ UNCHANGED <<tables, ended, hooks, op, toCheck, uses, calls, crashes>>

\* The caller gets an error, and its store is closed.
Fails(c) ==
  /\ pc' = [pc EXCEPT ![c] = "idle"]
  /\ op' = [op EXCEPT ![c] = Idle]
  /\ opened' = [opened EXCEPT ![c] = NoBooks]
  /\ snap' = [snap EXCEPT ![c] = NoBooks]
  /\ saves' = [saves EXCEPT ![c] = <<>>]
  /\ left' = [left EXCEPT ![c] = NoStatements]
  /\ toCheck' = [toCheck EXCEPT ![c] = {}]

ResolveUnknown(c) ==
  /\ pc[c] = "reading" /\ op[c].kind = "resolve" /\ op[c].id \notin DOMAIN Rows(c).approvals
  /\ Fails(c)
  /\ UNCHANGED <<tables, ended, hooks, history, calls, crashes>>

CancelForRun(c) ==
  /\ Opens(c, "runEnded")
  /\ Saving(c, Cancellations(Rows(c), InContexts(Rows(c), {op[c].context})))
  /\ UNCHANGED <<tables, ended, hooks, op, toCheck, history, calls, crashes>>

DeactivateMember(c) ==
  /\ Opens(c, "deactivate")
  /\ LET m == op[c].member
         ids == OfMember(Rows(c), m)
     IN Saving(c, Append(Cancellations(Rows(c), ids), Revoked(Canceled(Rows(c), ids), m)))
  /\ UNCHANGED <<tables, ended, hooks, op, toCheck, history, calls, crashes>>

\* Mutant: the latest approval of the company only is reconciled.
RunsToCheck_Latest(b) ==
  {b.approvals[i].call.context : i \in {j \in Pending(b) : j = Max(DOMAIN b.approvals)}} \cap Runs

RunsToCheck(b) == {b.approvals[i].call.context : i \in Pending(b)} \cap Runs

StartList(c) ==
  /\ Opens(c, "list")
  /\ toCheck' = [toCheck EXCEPT ![c] = RunsToCheck(Rows(c))]
  /\ snap' = [snap EXCEPT ![c] = Rows(c)]
  /\ pc' = [pc EXCEPT ![c] = "checking"]
  /\ UNCHANGED <<tables, ended, hooks, op, saves, left, history, calls, crashes>>

\* The status of one WorkRun is read, and its requests are canceled.
CheckRun(c, r) ==
  /\ pc[c] = "checking" /\ r \in toCheck[c]
  /\ toCheck' = [toCheck EXCEPT ![c] = @ \ {r}]
  /\ Saving(c, IF r \in ended THEN Cancellations(snap[c], InContexts(snap[c], {r})) ELSE <<>>)
  /\ UNCHANGED <<tables, ended, hooks, op, opened, history, calls, crashes>>

ListIsDone(c) ==
  /\ pc[c] = "checking" /\ toCheck[c] = {}
  /\ pc' = [pc EXCEPT ![c] = "returning"]
  /\ UNCHANGED <<tables, ended, hooks, op, opened, snap, saves, left, toCheck, history, calls, crashes>>

-----------------------------------------------------------------------------
(* The statements run; when the last of a save has, the next update begins. *)

Ran(c, rest) ==
  /\ IF rest = NoStatements
       THEN Saving(c, saves[c])
       ELSE left' = [left EXCEPT ![c] = rest] /\ UNCHANGED <<pc, snap, saves>>
  /\ UNCHANGED <<ended, hooks, op, opened, toCheck, history, calls, crashes>>

DeleteGrants(c) ==
  /\ left[c].deletes = 2
  /\ tables' = [tables EXCEPT !.grants = <<>>]
  /\ Ran(c, [left[c] EXCEPT !.deletes = 1])

\* The deletion of the approvals cascades to the grants.
DeleteApprovals(c) ==
  /\ left[c].deletes = 1
  /\ tables' = NoBooks
  /\ Ran(c, [left[c] EXCEPT !.deletes = 0])

UpsertApproval(c, i) ==
  /\ left[c].deletes = 0 /\ IsLeast(i, left[c].approvals)
  /\ tables' = [tables EXCEPT !.approvals = Extended(@, i, snap[c].approvals[i])]
  /\ Ran(c, [left[c] EXCEPT !.approvals = @ \ {i}])

NextGrant(c, g) ==
  left[c].deletes = 0 /\ left[c].approvals = {} /\ IsLeast(g, left[c].grants)

\* approval_grants REFERENCES governance_approvals.
HasApproval(c, g) == snap[c].grants[g].approval \in DOMAIN tables.approvals

UpsertGrant(c, g) ==
  /\ NextGrant(c, g) /\ HasApproval(c, g)
  /\ tables' = [tables EXCEPT !.grants = Extended(@, g, snap[c].grants[g])]
  /\ Ran(c, [left[c] EXCEPT !.grants = @ \ {g}])

\* The promise of pendingWrites is rejected: the statements behind are skipped.
UpsertGrantFails(c, g) ==
  /\ NextGrant(c, g) /\ ~HasApproval(c, g)
  /\ Fails(c)
  /\ UNCHANGED <<tables, ended, hooks, history, calls, crashes>>

Return(c) ==
  /\ pc[c] = "returning"
  /\ uses' = IF op[c].kind = "allowed" THEN [uses EXCEPT ![op[c].grant] = @ + 1] ELSE uses
  /\ Fails(c)
  /\ UNCHANGED <<tables, ended, hooks, issued, consented, calls, crashes>>

\* WorkService has persisted a terminal status.
EndRun(r) ==
  /\ r \notin ended /\ ended' = ended \cup {r}
  /\ hooks' = hooks \cup {r}
  /\ UNCHANGED <<tables, local, history, calls, crashes>>

Crash ==
  /\ crashes < MaxCrashes /\ crashes' = crashes + 1
  /\ hooks' = {}
  /\ pc' = [c \in Callers |-> "idle"] /\ op' = [c \in Callers |-> Idle]
  /\ opened' = [c \in Callers |-> NoBooks] /\ snap' = [c \in Callers |-> NoBooks]
  /\ saves' = [c \in Callers |-> <<>>] /\ left' = [c \in Callers |-> NoStatements]
  /\ toCheck' = [c \in Callers |-> {}]
  /\ UNCHANGED <<tables, ended, history, calls>>

Init ==
  /\ tables = NoBooks /\ ended = {} /\ hooks = {}
  /\ pc = [c \in Callers |-> "idle"] /\ op = [c \in Callers |-> Idle]
  /\ opened = [c \in Callers |-> NoBooks] /\ snap = [c \in Callers |-> NoBooks]
  /\ saves = [c \in Callers |-> <<>>] /\ left = [c \in Callers |-> NoStatements]
  /\ toCheck = [c \in Callers |-> {}]
  /\ issued = [approvals |-> 0, grants |-> 0]
  /\ uses = [g \in GrantIds |-> 0]
  /\ consented = {} /\ calls = 0 /\ crashes = 0

Next ==
  \/ \E c \in Callers :
       \/ \E call \in Calls : ToolCall(c, call)
       \/ \E i \in ApprovalIds, d \in Decisions : Decide(c, i, d)
       \/ ListRequests(c)
       \/ \E r \in Runs : RunTerminalHook(c, r) \/ CheckRun(c, r)
       \/ \E m \in Members : Deactivate(c, m)
       \/ AllowCall(c) \/ BlockCall(c) \/ RequestApproval(c)
       \/ Reject(c) \/ Approve(c) \/ ResolveUnknown(c)
       \/ CancelForRun(c) \/ DeactivateMember(c)
       \/ StartList(c) \/ ListIsDone(c)
       \/ DeleteGrants(c) \/ DeleteApprovals(c)
       \/ \E i \in ApprovalIds : UpsertApproval(c, i)
       \/ \E g \in GrantIds : UpsertGrant(c, g) \/ UpsertGrantFails(c, g)
       \/ Return(c)
  \/ \E r \in Runs : EndRun(r)
  \/ Crash

Spec == Init /\ [][Next]_vars

-----------------------------------------------------------------------------
(* Properties.                                                             *)

Approvals == [call : Calls, status : {"pending", "approved", "rejected", "canceled"}]
Grants == [approval : ApprovalIds, call : Calls, scope : {"one_time", "session"}, consumed : BOOLEAN]

IsBooks(b) ==
  /\ DOMAIN b.approvals \subseteq 1 .. issued.approvals
  /\ DOMAIN b.grants \subseteq 1 .. issued.grants
  /\ \A i \in DOMAIN b.approvals : b.approvals[i] \in Approvals
  /\ \A g \in DOMAIN b.grants : b.grants[g] \in Grants

\* Types; the tables and the snapshots hold rows with issued ids only, and a
\* caller that writes has a statement to run.
TypeOK ==
  /\ IsBooks(tables) /\ \A c \in Callers : IsBooks(snap[c]) /\ IsBooks(opened[c])
  /\ ended \subseteq Runs /\ hooks \subseteq ended
  /\ issued \in [approvals : ApprovalIds \cup {0}, grants : GrantIds \cup {0}]
  /\ \A c \in Callers :
       /\ pc[c] \in {"idle", "reading", "checking", "writing", "returning"}
       /\ toCheck[c] \subseteq Runs
       /\ pc[c] = "writing" <=> left[c] # NoStatements
  /\ consented \subseteq Calls /\ calls \in 0 .. MaxCalls /\ crashes \in 0 .. MaxCrashes

\* "Allow once" lets one call through (access-request-service.ts:97-102).
GrantIsUsedOnce ==
  \A b \in {tables} \cup {snap[c] : c \in Callers} : \A g \in DOMAIN b.grants :
    b.grants[g].scope = "one_time" => uses[g] <= 1

\* A member asks for the same access once: a second call, while its request is
\* pending, is blocked by that request (access-request-service.ts:104-120).
OnePendingRequestPerCall ==
  \A call \in Calls : Cardinality({i \in Pending(tables) : tables.approvals[i].call = call}) <= 1

\* When a deactivation answers, the member's grants are gone and no request of
\* the member's is pending (member-runtime-lifecycle-service.ts:84-92).
DeactivatedMemberHasNoAccess ==
  \A c \in Callers : pc[c] = "returning" /\ op[c].kind = "deactivate" =>
    /\ OfMember(tables, op[c].member) = {}
    /\ \A g \in DOMAIN tables.grants : tables.grants[g].call.member # op[c].member

\* Whatever calls overlap and whenever the process dies, a call goes through
\* only where somebody has approved that member in that context
\* (access-request-service.ts:177-191).
AllowedCallWasApproved ==
  \A c \in Callers : pc[c] = "returning" /\ op[c].kind = "allowed" => op[c].call \in consented

\* The cards that a list returns are not those of a WorkRun that had ended when
\* the list began (access-request-service.ts:39-49).
ListShowsNoEndedRun ==
  \A c \in Callers : pc[c] = "returning" /\ op[c].kind = "list" =>
    InContexts(snap[c], op[c].ended) = {}

\* Refinement.  Until a call returns, the books are as it found them: what it
\* deletes and inserts again is seen by nobody.
Books ==
  IF \E c \in Callers : pc[c] \in {"writing", "checking", "returning"}
    THEN opened[CHOOSE c \in Callers : pc[c] \in {"writing", "checking", "returning"}]
    ELSE tables

Atomic == INSTANCE AccessRequests WITH books <- Books

\* While one call follows another and the process lives, every operation on
\* the books is one atomic step of AccessRequests.
CallsAreAtomic == Atomic!Spec
================================================================================
