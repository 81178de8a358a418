---------------------------- MODULE AccessDecisions ----------------------------
(***************************************************************************)
(* Access requests: what the services decide on the approvals and grants   *)
(* they have loaded (access-request-service.ts,                            *)
(* company-governance-services.ts, approval-repository.ts).                *)
(*                                                                         *)
(* The "books" of a company are its approvals and its grants, keyed by id. *)
(* A guarded call is a member in a room or a WorkRun; the tool, the        *)
(* resource and the session key are the same for every call of a member    *)
(* there.  Ids are numbers in the order of created_at, in which the store  *)
(* lists the rows.                                                         *)
(***************************************************************************)
EXTENDS Naturals, Sequences, FiniteSets, FiniteSetsExt

CONSTANTS
  Members,       \* runtime-capable members
  Rooms,         \* dm_thread and channel_topic contexts
  Runs,          \* work_run contexts
  ApprovalIds, GrantIds

ASSUME IdsAssumption == ApprovalIds \subseteq Nat /\ GrantIds \subseteq Nat

Contexts == Rooms \cup Runs

Calls == [member : Members, context : Contexts]

Decisions == {"allow_once", "allow_in_context", "reject"}

Approval(call, status) == [call |-> call, status |-> status]

Grant(id, call, scope) == [approval |-> id, call |-> call, scope |-> scope, consumed |-> FALSE]

NoBooks == [approvals |-> <<>>, grants |-> <<>>]

Extended(f, x, v) == [y \in DOMAIN f \cup {x} |-> IF y = x THEN v ELSE f[y]]

-----------------------------------------------------------------------------
(* decideAccessToolCall.                                                   *)

\* Mutant: a grant of the member in any context will do.
Covers_AnyContext(grant, call) == ~grant.consumed /\ grant.call.member = call.member

Covers(grant, call) == ~grant.consumed /\ grant.call = call

Matching(b, call) == {g \in DOMAIN b.grants : Covers(b.grants[g], call)}

IsGranted(b, call) == Matching(b, call) # {}

\* Array.find in the order of created_at.
FirstMatch(b, call) == Min(Matching(b, call))

\* Mutant: only a session's grant is marked.
Consumed_Session(b, g) ==
  IF b.grants[g].scope = "session" THEN [b EXCEPT !.grants[g].consumed = TRUE] ELSE b

Consumed(b, g) ==
  IF b.grants[g].scope = "one_time" THEN [b EXCEPT !.grants[g].consumed = TRUE] ELSE b

Pending(b) == {i \in DOMAIN b.approvals : b.approvals[i].status = "pending"}

\* Mutant: only the latest request of the company is looked at.
PendingFor_Latest(b, call) ==
  {i \in Pending(b) : i = Max(DOMAIN b.approvals) /\ b.approvals[i].call = call}

PendingFor(b, call) == {i \in Pending(b) : b.approvals[i].call = call}

Requested(b, i, call) ==
  [b EXCEPT !.approvals = Extended(@, i, Approval(call, "pending"))]

-----------------------------------------------------------------------------
(* resolveApproval saves the approval, then the grant.  It does not ask    *)
(* whether the approval is still pending.                                  *)

ResolvedStatus(decision) == IF decision = "reject" THEN "rejected" ELSE "approved"

GrantScope(decision) == IF decision = "allow_once" THEN "one_time" ELSE "session"

Resolved(b, i, decision) == [b EXCEPT !.approvals[i].status = ResolvedStatus(decision)]

Granted(b, i, g, decision) ==
  [b EXCEPT !.grants = Extended(@, g, Grant(i, b.approvals[i].call, GrantScope(decision)))]

-----------------------------------------------------------------------------
(* cancelPendingApprovalsForContext, cancelPendingApprovalsForMember and   *)
(* revokeGrantsForMember.                                                  *)

InContexts(b, S) == {i \in Pending(b) : b.approvals[i].call.context \in S}

OfMember(b, m) == {i \in Pending(b) : b.approvals[i].call.member = m}

Canceled(b, ids) ==
  [b EXCEPT !.approvals =
    [i \in DOMAIN @ |-> IF i \in ids THEN [@[i] EXCEPT !.status = "canceled"] ELSE @[i]]]

\* Mutant: only the grants for one time are revoked.
Revoked_OneTime(b, m) ==
  [b EXCEPT !.grants =
    [g \in {h \in DOMAIN @ : @[h].call.member # m \/ @[h].scope = "session"} |-> @[g]]]

Revoked(b, m) ==
  [b EXCEPT !.grants = [g \in {h \in DOMAIN @ : @[h].call.member # m} |-> @[g]]]

================================================================================
