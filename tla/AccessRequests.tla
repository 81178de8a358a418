---------------------------- MODULE AccessRequests ----------------------------
(***************************************************************************)
(* What Access promises: every operation on the books is one atomic step.  *)
(* The abstract specification that AccessStore implements as long as calls *)
(* do not overlap and the process does not die.                            *)
(***************************************************************************)
EXTENDS AccessDecisions

VARIABLES
  books,  \* the approvals and the grants
  ended,  \* WorkRuns in a terminal status
  uses    \* history: how many calls each grant has let through

vars == <<books, ended, uses>>

Init ==
  /\ books = NoBooks
  /\ ended = {}
  /\ uses = [g \in GrantIds |-> 0]

\* A call without a grant and without a pending request asks for one.
Request(call) ==
  /\ ~IsGranted(books, call) /\ PendingFor(books, call) = {}
  /\ \E i \in ApprovalIds \ DOMAIN books.approvals : books' = Requested(books, i, call)
  /\ UNCHANGED <<ended, uses>>

\* A call with a grant goes through, and uses up a grant for one time.
Allow(call) ==
  /\ IsGranted(books, call)
  /\ books' = Consumed(books, FirstMatch(books, call))
  /\ uses' = [uses EXCEPT ![FirstMatch(books, call)] = @ + 1]
  /\ UNCHANGED ended

Reject(i) ==
  /\ books' = Resolved(books, i, "reject")
  /\ UNCHANGED <<ended, uses>>

Approve(i, decision) ==
  /\ decision # "reject"
  /\ \E g \in GrantIds \ DOMAIN books.grants :
       uses[g] = 0 /\ books' = Granted(Resolved(books, i, decision), i, g, decision)
  /\ UNCHANGED <<ended, uses>>

EndRun(r) ==
  /\ r \notin ended /\ ended' = ended \cup {r}
  /\ UNCHANGED <<books, uses>>

\* The hook of one WorkRun, or a list, which looks at one after the other.
CancelEnded(S) ==
  /\ S # {} /\ books' = Canceled(books, InContexts(books, S))
  /\ UNCHANGED <<ended, uses>>

Deactivate(m) ==
  /\ books' = Revoked(Canceled(books, OfMember(books, m)), m)
  /\ UNCHANGED <<ended, uses>>

Next ==
  \/ \E call \in Calls : Request(call) \/ Allow(call)
  \/ \E i \in DOMAIN books.approvals : Reject(i) \/ \E d \in Decisions : Approve(i, d)
  \/ \E r \in Runs : EndRun(r)
  \/ \E S \in SUBSET ended : CancelEnded(S)
  \/ \E m \in Members : Deactivate(m)

Spec == Init /\ [][Next]_vars
================================================================================
