----------------------- MODULE AccessStoreAlone_proofs -----------------------
(***************************************************************************)
(* Proofs about AccessStore when one call follows another: a grant for one *)
(* time lets one call through, a call asks once, a deactivation leaves     *)
(* nothing behind, and the deletions and insertions of a save add up to    *)
(* one atomic step of AccessRequests.  None of this is promised when calls *)
(* overlap; what holds then is in AccessStore_proofs.                      *)
(***************************************************************************)
EXTENDS AccessStore_proofs, WellFoundedInduction

-----------------------------------------------------------------------------
(* The inductive invariant.                                                *)
(*                                                                         *)
(* A call that is alone finds books that fit together, decides on them,    *)
(* and leaves the books that its operation makes of them.  In between the  *)
(* tables are neither: the first statements of a save have deleted rows,   *)
(* and those that have run since have put back a part of the snapshot.  So *)
(* the invariant says which part, and what the last save will leave.       *)

\* The hypothesis of every theorem here.
OneCaller == \A c, d \in Callers : c = d

OnePerCall(b) ==
  \A i, j \in Pending(b) : b.approvals[i].call = b.approvals[j].call => i = j

\* A grant for one time that is still good has let nobody through.
UsesFit(b, u) ==
  \A g \in DOMAIN b.grants : b.grants[g].scope = "one_time" =>
    u[g] <= 1 /\ (~b.grants[g].consumed => u[g] = 0)

\* The foreign key of approval_grants.
References(b) == \A g \in DOMAIN b.grants : b.grants[g].approval \in DOMAIN b.approvals

BookFits(b, u) == OnePerCall(b) /\ UsesFit(b, u) /\ References(b)

Without(f, S) == [x \in DOMAIN f \ S |-> f[x]]

\* The part of the snapshot b that the statements before those of l have
\* written to the tables t.
Written(l, b, t) ==
  /\ l.deletes > 0 => l.approvals = DOMAIN b.approvals
  /\ l.deletes > 0 => l.grants = DOMAIN b.grants
  /\ l.deletes <= 1 => t.grants = Without(b.grants, l.grants)
  /\ l.deletes = 0 => t.approvals = Without(b.approvals, l.approvals)

\* What a caller may be asked to do.
Asked(o, E) ==
  \/ o.kind = "toolCall" /\ o.call \in Calls
  \/ o.kind = "resolve" /\ o.decision \in Decisions
  \/ o.kind = "list"
  \/ o.kind = "runEnded" /\ o.context \in E
  \/ o.kind = "deactivate" /\ o.member \in Members

\* The operation o makes b of the books a.
Requests(o, a, b) ==
  /\ o.kind = "toolCall" /\ o.call \in Calls
  /\ \/ b = a
     \/ /\ ~IsGranted(a, o.call) /\ PendingFor(a, o.call) = {}
        /\ \E i \in ApprovalIds \ DOMAIN a.approvals : b = Requested(a, i, o.call)

Passes(o, a, b) ==
  /\ o.kind = "allowed" /\ o.call \in Calls
  /\ IsGranted(a, o.call) /\ o.grant = FirstMatch(a, o.call) /\ b = Consumed(a, o.grant)

Resolves(o, a, b, u) ==
  /\ o.kind = "resolve" /\ o.id \in DOMAIN a.approvals /\ o.decision \in Decisions
  /\ \/ o.decision = "reject" /\ b = Resolved(a, o.id, "reject")
     \/ /\ o.decision # "reject"
        /\ \E g \in GrantIds \ DOMAIN a.grants :
             u[g] = 0 /\ b = Granted(Resolved(a, o.id, o.decision), o.id, g, o.decision)

CancelsEnded(o, a, b, E) ==
  /\ o.kind \in {"runEnded", "list"}
  /\ \E S \in SUBSET E : b = Canceled(a, InContexts(a, S))

Deactivates(o, a, b) ==
  /\ o.kind = "deactivate" /\ o.member \in Members
  /\ b = Revoked(Canceled(a, OfMember(a, o.member)), o.member)

Does(o, a, b, u, E) ==
  \/ Requests(o, a, b) \/ Passes(o, a, b) \/ Resolves(o, a, b, u)
  \/ CancelsEnded(o, a, b, E) \/ Deactivates(o, a, b)

\* The books that caller c leaves when nobody comes between.
Outcome(c) == IF pc[c] = "writing" THEN LastSaved(c) ELSE tables

CallFits(c) ==
  /\ BookFits(opened[c], uses) /\ BookFits(snap[c], uses)
  /\ \A k \in DOMAIN saves[c] : BookFits(saves[c][k], uses)
  /\ pc[c] = "reading" => opened[c] = [tables EXCEPT !.grants = <<>>] /\ Asked(op[c], ended)
  /\ pc[c] = "checking" => snap[c] = tables /\ op[c].kind = "list"
  /\ pc[c] = "writing" => Written(left[c], snap[c], tables)
  /\ pc[c] \in {"writing", "checking", "returning"} =>
       Does(op[c], opened[c], Outcome(c), uses, ended)

UsesTyped ==
  /\ uses \in [GrantIds -> Nat]
  /\ \A g \in GrantIds : g > issued.grants => uses[g] = 0

AloneInv ==
  /\ UsesTyped
  /\ BookFits(tables, uses)
  /\ \A c \in Callers : CallFits(c)

-----------------------------------------------------------------------------
(* The decisions keep books that fit together.                             *)

\* Empty books fit.
LEMMA NoBooksFit ==
  ASSUME NEW u
  PROVE  BookFits(NoBooks, u)
<1>1. DOMAIN <<>> = {}
  BY EmptyTable
<1> QED BY <1>1 DEF NoBooks, BookFits, OnePerCall, UsesFit, References, Pending

\* What a call decides on books that fit makes books that fit: cancelations,
LEMMA CanceledFits ==
  ASSUME NEW C, NEW n, NEW b \in BookSet(C, n), NEW u, BookFits(b, u),
         NEW ids \in SUBSET DOMAIN b.approvals
  PROVE  BookFits(Canceled(b, ids), u)
<1> DEFINE d == Canceled(b, ids)
<1>1. d.grants = b.grants
  BY BookParts DEF Canceled
<1>2. DOMAIN d.approvals = DOMAIN b.approvals
  BY CanceledTyped
<1>3. /\ Pending(d) = Pending(b) \ ids
      /\ \A i \in DOMAIN b.approvals : d.approvals[i].call = b.approvals[i].call
  BY PendingAfterCanceled
<1> HIDE DEF d
<1>4. OnePerCall(d)
  BY <1>3 DEF BookFits, OnePerCall, Pending
<1>5. UsesFit(d, u) /\ References(d)
  BY <1>1, <1>2 DEF BookFits, UsesFit, References
<1> QED BY <1>4, <1>5 DEF BookFits, d

\* revocations,
LEMMA RevokedFits ==
  ASSUME NEW C, NEW n, NEW b \in BookSet(C, n), NEW u, BookFits(b, u), NEW m
  PROVE  BookFits(Revoked(b, m), u)
<1> DEFINE G == [g \in {h \in DOMAIN b.grants : b.grants[h].call.member # m} |-> b.grants[g]]
           d == Revoked(b, m)
<1>1. d.approvals = b.approvals /\ d.grants = G
  BY BookParts DEF Revoked
<1>2. \A g \in DOMAIN G : g \in DOMAIN b.grants /\ G[g] = b.grants[g]
  OBVIOUS
<1> HIDE DEF d, G
<1>3. OnePerCall(d)
  BY <1>1 DEF BookFits, OnePerCall, Pending
<1>4. UsesFit(d, u) /\ References(d)
  BY <1>1, <1>2 DEF BookFits, UsesFit, References
<1> QED BY <1>3, <1>4 DEF BookFits, d

\* What consuming a grant makes of the books.
LEMMA ConsumedParts ==
  ASSUME NEW C, NEW n, NEW b \in BookSet(C, n), NEW g \in DOMAIN b.grants
  PROVE  /\ Consumed(b, g).approvals = b.approvals
         /\ DOMAIN Consumed(b, g).grants = DOMAIN b.grants
         /\ \A h \in DOMAIN b.grants :
              /\ Consumed(b, g).grants[h].approval = b.grants[h].approval
              /\ Consumed(b, g).grants[h].scope = b.grants[h].scope
              /\ h # g => Consumed(b, g).grants[h] = b.grants[h]
         /\ b.grants[g].scope = "one_time" => Consumed(b, g).grants[g].consumed
<1> DEFINE G == [b.grants EXCEPT ![g].consumed = TRUE]
<1>1. CASE b.grants[g].scope = "one_time"
  <2>1. Consumed(b, g) = [b EXCEPT !.grants = G]
    BY <1>1 DEF Consumed
  <2>2. b = [approvals |-> b.approvals, grants |-> b.grants]
    BY BookParts
  <2>3. /\ DOMAIN G = DOMAIN b.grants
        /\ \A h \in DOMAIN b.grants :
              /\ G[h].approval = b.grants[h].approval /\ G[h].scope = b.grants[h].scope
              /\ h # g => G[h] = b.grants[h]
        /\ G[g].consumed = TRUE
    BY BookParts DEF IsTable, Grants, GrantsFor
  <2> HIDE DEF G
  <2>4. Consumed(b, g).approvals = b.approvals /\ Consumed(b, g).grants = G
    BY <2>1, <2>2
  <2> QED BY <2>3, <2>4
<1>2. CASE b.grants[g].scope # "one_time"
  BY <1>2 DEF Consumed
<1> QED BY <1>1, <1>2

\* uses,
LEMMA ConsumedFits ==
  ASSUME NEW C, NEW n, NEW b \in BookSet(C, n), NEW u, BookFits(b, u), NEW g \in DOMAIN b.grants
  PROVE  BookFits(Consumed(b, g), u)
<1> DEFINE d == Consumed(b, g)
<1>1. /\ d.approvals = b.approvals
      /\ DOMAIN d.grants = DOMAIN b.grants
      /\ \A h \in DOMAIN b.grants :
           /\ d.grants[h].approval = b.grants[h].approval
           /\ d.grants[h].scope = b.grants[h].scope
           /\ h # g => d.grants[h] = b.grants[h]
      /\ b.grants[g].scope = "one_time" => d.grants[g].consumed
  BY ConsumedParts
<1> HIDE DEF d
<1>2. OnePerCall(d)
  BY <1>1 DEF BookFits, OnePerCall, Pending
<1>3. References(d)
  BY <1>1 DEF BookFits, References
<1>4. UsesFit(d, u)
  <2> SUFFICES ASSUME NEW h \in DOMAIN d.grants, d.grants[h].scope = "one_time"
               PROVE  u[h] <= 1 /\ (~d.grants[h].consumed => u[h] = 0)
    BY DEF UsesFit
  <2>1. h \in DOMAIN b.grants /\ b.grants[h].scope = "one_time"
    BY <1>1
  <2>2. u[h] <= 1 /\ (~b.grants[h].consumed => u[h] = 0)
    BY <2>1 DEF BookFits, UsesFit
  <2>3. h = g => d.grants[h].consumed
    BY <1>1, <2>1, Zenon
  <2>4. h # g => d.grants[h] = b.grants[h]
    BY <1>1, <2>1
  <2> QED BY <2>2, <2>3, <2>4, Zenon
<1> QED BY <1>2, <1>3, <1>4 DEF BookFits, d

\* a request for a call that has none pending,
LEMMA RequestedFits ==
  ASSUME NEW C, NEW n, NEW b \in BookSet(C, n), NEW u, BookFits(b, u),
         NEW i, i \notin DOMAIN b.approvals, NEW call, PendingFor(b, call) = {}
  PROVE  BookFits(Requested(b, i, call), u)
<1> DEFINE v == Approval(call, "pending")
           d == Requested(b, i, call)
<1>1. d.approvals = Extended(b.approvals, i, v) /\ d.grants = b.grants
  BY BookParts DEF Requested
<1>2. /\ DOMAIN d.approvals = DOMAIN b.approvals \cup {i}
      /\ d.approvals[i] = v
      /\ \A j \in DOMAIN b.approvals : d.approvals[j] = b.approvals[j]
  BY <1>1 DEF Extended
<1>3. v.call = call /\ v.status = "pending"
  BY DEF Approval
<1> HIDE DEF d, v
<1>4. Pending(d) = Pending(b) \cup {i}
  BY <1>2, <1>3 DEF Pending
<1>5. \A j \in Pending(b) : b.approvals[j].call # call /\ j \in DOMAIN b.approvals
  BY DEF PendingFor, Pending
<1>6. OnePerCall(d)
  BY <1>2, <1>3, <1>4, <1>5 DEF BookFits, OnePerCall
<1>7. UsesFit(d, u) /\ References(d)
  BY <1>1, <1>2 DEF BookFits, UsesFit, References
<1> QED BY <1>6, <1>7 DEF BookFits, d

\* What an answer makes of the books.
LEMMA ResolvedParts ==
  ASSUME NEW C, NEW n, NEW b \in BookSet(C, n), NEW i \in DOMAIN b.approvals, NEW decision
  PROVE  /\ Resolved(b, i, decision).grants = b.grants
         /\ DOMAIN Resolved(b, i, decision).approvals = DOMAIN b.approvals
         /\ Pending(Resolved(b, i, decision)) = Pending(b) \ {i}
         /\ \A j \in DOMAIN b.approvals :
              Resolved(b, i, decision).approvals[j].call = b.approvals[j].call
<1> DEFINE A == [b.approvals EXCEPT ![i].status = ResolvedStatus(decision)]
           d == Resolved(b, i, decision)
<1>1. d.approvals = A /\ d.grants = b.grants
  BY BookParts DEF Resolved
<1>2. \A j \in DOMAIN b.approvals : b.approvals[j] \in Approvals
  BY BookParts DEF IsTable
<1>3. ResolvedStatus(decision) # "pending"
  BY DEF ResolvedStatus
<1>4. /\ DOMAIN A = DOMAIN b.approvals
      /\ \A j \in DOMAIN b.approvals : A[j].call = b.approvals[j].call
      /\ \A j \in DOMAIN b.approvals : j # i => A[j] = b.approvals[j]
      /\ A[i].status = ResolvedStatus(decision)
  BY <1>2 DEF Approvals
<1> HIDE DEF A, d
<1>5. Pending(d) = Pending(b) \ {i}
  BY <1>1, <1>3, <1>4 DEF Pending
<1> QED BY <1>1, <1>4, <1>5 DEF d

\* decisions,
LEMMA ResolvedFits ==
  ASSUME NEW C, NEW n, NEW b \in BookSet(C, n), NEW u, BookFits(b, u),
         NEW i \in DOMAIN b.approvals, NEW decision
  PROVE  BookFits(Resolved(b, i, decision), u)
<1> DEFINE d == Resolved(b, i, decision)
<1>1. /\ d.grants = b.grants /\ DOMAIN d.approvals = DOMAIN b.approvals
      /\ Pending(d) = Pending(b) \ {i}
      /\ \A j \in DOMAIN b.approvals : d.approvals[j].call = b.approvals[j].call
  BY ResolvedParts
<1> HIDE DEF d
<1>2. OnePerCall(d)
  BY <1>1 DEF BookFits, OnePerCall, Pending
<1>3. UsesFit(d, u) /\ References(d)
  BY <1>1 DEF BookFits, UsesFit, References
<1> QED BY <1>2, <1>3 DEF BookFits, d

\* and a grant that is new.
LEMMA GrantedFits ==
  ASSUME NEW C, NEW n, NEW b \in BookSet(C, n), NEW u, BookFits(b, u), NEW decision,
         NEW i \in DOMAIN b.approvals, NEW g, g \notin DOMAIN b.grants, u[g] = 0
  PROVE  BookFits(Granted(b, i, g, decision), u)
<1> DEFINE v == Grant(i, b.approvals[i].call, GrantScope(decision))
           d == Granted(b, i, g, decision)
<1>1. d.approvals = b.approvals /\ d.grants = Extended(b.grants, g, v)
  BY BookParts DEF Granted
<1>2. /\ DOMAIN d.grants = DOMAIN b.grants \cup {g}
      /\ d.grants[g] = v
      /\ \A h \in DOMAIN b.grants : d.grants[h] = b.grants[h]
  BY <1>1 DEF Extended
<1>3. v.approval = i
  BY DEF Grant
<1> HIDE DEF d, v
<1>4. OnePerCall(d)
  BY <1>1 DEF BookFits, OnePerCall, Pending
<1>5. UsesFit(d, u) /\ References(d)
  BY <1>1, <1>2, <1>3 DEF BookFits, UsesFit, References
<1> QED BY <1>4, <1>5 DEF BookFits, d

\* The books of a loop of cancellations fit, one after the other.
LEMMA CancellationsFit ==
  ASSUME NEW C, NEW n \in [approvals : Nat, grants : Nat], NEW b \in BookSet(C, n),
         NEW u, BookFits(b, u), NEW ids \in SUBSET DOMAIN b.approvals
  PROVE  \A k \in DOMAIN Cancellations(b, ids) : BookFits(Cancellations(b, ids)[k], u)
<1> SUFFICES ASSUME NEW k \in DOMAIN Cancellations(b, ids)
             PROVE  BookFits(Cancellations(b, ids)[k], u)
  OBVIOUS
<1> DEFINE some == {i \in ids : Cardinality({j \in ids : j < i}) < k}
<1>1. Cancellations(b, ids)[k] = Canceled(b, some)
  BY DEF Cancellations
<1>2. some \in SUBSET DOMAIN b.approvals
  OBVIOUS
<1> HIDE DEF some
<1> QED BY <1>1, <1>2, CanceledFits

\* The grant that lets a call through is a row that covers it.
LEMMA FirstMatchCovers ==
  ASSUME NEW C, NEW n \in [approvals : Nat, grants : Nat], NEW b \in BookSet(C, n),
         NEW call, IsGranted(b, call)
  PROVE  /\ FirstMatch(b, call) \in DOMAIN b.grants
         /\ ~b.grants[FirstMatch(b, call)].consumed
<1> DEFINE M == Matching(b, call)
<1>1. M # {} /\ M \subseteq Nat
  <2>1. DOMAIN b.grants \subseteq 1 .. n.grants
    BY BookParts DEF IsTable
  <2> QED BY <2>1 DEF IsGranted, Matching
<1> HIDE DEF M
<1>2. PICK least \in M : \A y \in M : ~ (<<y, least>> \in OpToRel(<, Nat))
  BY <1>1, NatLessThanWellFounded, WFMin
<1>3. \A y \in M : ~(y < least)
  BY <1>1, <1>2 DEF OpToRel
<1>4. \A y \in M : least <= y
  BY <1>1, <1>3
<1>5. \E x \in M : \A y \in M : x <= y
  BY <1>4
<1>6. FirstMatch(b, call) \in Matching(b, call)
  BY <1>5 DEF Min, FirstMatch, M
<1> QED BY <1>6 DEF Matching, Covers
-----------------------------------------------------------------------------
(* Canceling the requests of one context after the other.                  *)

\* To cancel nothing changes nothing.
LEMMA CanceledNone ==
  ASSUME NEW C, NEW n, NEW b \in BookSet(C, n)
  PROVE  /\ Canceled(b, {}) = b
         /\ InContexts(b, {}) = {}
<1> DEFINE A == [i \in DOMAIN b.approvals |->
                   IF i \in {} THEN [b.approvals[i] EXCEPT !.status = "canceled"]
                               ELSE b.approvals[i]]
<1>1. Canceled(b, {}) = [approvals |-> A, grants |-> b.grants]
  BY BookParts DEF Canceled
<1>2. A = b.approvals
  <2>1. b.approvals = [i \in DOMAIN b.approvals |-> b.approvals[i]]
    <3>1. IsTable(b.approvals, n.approvals, Approvals)
      BY BookParts
    <3> QED BY <3>1, Zenon DEF IsTable
  <2>2. A = [i \in DOMAIN b.approvals |-> b.approvals[i]]
    OBVIOUS
  <2> HIDE DEF A
  <2> QED BY <2>1, <2>2
<1>3. b = [approvals |-> b.approvals, grants |-> b.grants]
  BY BookParts
<1> HIDE DEF A
<1> QED BY <1>1, <1>2, <1>3 DEF InContexts

\* To cancel one set and then another is to cancel both.
LEMMA CanceledTwice ==
  ASSUME NEW C, NEW n, NEW b \in BookSet(C, n),
         NEW X \in SUBSET DOMAIN b.approvals, NEW Y \in SUBSET DOMAIN b.approvals
  PROVE  Canceled(Canceled(b, X), Y) = Canceled(b, X \cup Y)
<1> DEFINE canc(i) == [b.approvals[i] EXCEPT !.status = "canceled"]
           A == [i \in DOMAIN b.approvals |-> IF i \in X THEN canc(i) ELSE b.approvals[i]]
           B == [i \in DOMAIN A |-> IF i \in Y THEN [A[i] EXCEPT !.status = "canceled"] ELSE A[i]]
           D == [i \in DOMAIN b.approvals |->
                   IF i \in X \cup Y THEN canc(i) ELSE b.approvals[i]]
<1>1. /\ Canceled(b, X) = [approvals |-> A, grants |-> b.grants]
      /\ Canceled(b, X \cup Y) = [approvals |-> D, grants |-> b.grants]
  BY BookParts DEF Canceled
<1>2. \A i \in DOMAIN b.approvals : b.approvals[i] \in Approvals
  BY BookParts DEF IsTable
<1>3. \A i \in DOMAIN b.approvals : [canc(i) EXCEPT !.status = "canceled"] = canc(i)
  BY <1>2 DEF Approvals
<1>4. DOMAIN A = DOMAIN b.approvals
  OBVIOUS
<1>5. \A i \in DOMAIN b.approvals : B[i] = D[i]
  <2> SUFFICES ASSUME NEW i \in DOMAIN b.approvals PROVE B[i] = D[i]
    OBVIOUS
  <2>1. B[i] = IF i \in Y THEN [A[i] EXCEPT !.status = "canceled"] ELSE A[i]
    BY <1>4
  <2>2. A[i] = IF i \in X THEN canc(i) ELSE b.approvals[i]
    OBVIOUS
  <2>3. D[i] = IF i \in X \cup Y THEN canc(i) ELSE b.approvals[i]
    OBVIOUS
  <2> HIDE DEF A, B, D
  <2>4. CASE i \in X
    <3>1. A[i] = canc(i) /\ D[i] = canc(i)
      BY <2>2, <2>3, <2>4
    <3>2. [A[i] EXCEPT !.status = "canceled"] = canc(i)
      BY <1>3, <3>1, Zenon
    <3> HIDE DEF canc
    <3> QED BY <2>1, <3>1, <3>2
  <2>5. CASE i \notin X
    <3>1. A[i] = b.approvals[i] /\ [A[i] EXCEPT !.status = "canceled"] = canc(i)
      BY <2>2, <2>5
    <3> HIDE DEF canc
    <3> QED BY <2>1, <2>3, <2>5, <3>1
  <2> QED BY <2>4, <2>5
<1>6. B = D
  BY <1>4, <1>5
<1>7. Canceled([approvals |-> A, grants |-> b.grants], Y) = [approvals |-> B, grants |-> b.grants]
  <2> HIDE DEF A
  <2> QED BY DEF Canceled
<1> HIDE DEF A, B, D
<1> QED BY <1>1, <1>6, <1>7

\* The requests of R, canceled after those of S.
LEMMA CanceledContexts ==
  ASSUME NEW C, NEW n, NEW a \in BookSet(C, n), NEW S, NEW R, NEW b,
         b = Canceled(a, InContexts(a, S))
  PROVE  Canceled(b, InContexts(b, R)) = Canceled(a, InContexts(a, S \cup R))
<1> DEFINE X == InContexts(a, S)
           Y == InContexts(b, R)
<1>1. X \in SUBSET DOMAIN a.approvals
  BY PendingAreRows
<1>2. /\ Pending(b) = Pending(a) \ X
      /\ \A i \in DOMAIN a.approvals : b.approvals[i].call = a.approvals[i].call
  <2> HIDE DEF X
  <2>1. b = Canceled(a, X)
    BY DEF X
  <2> QED BY <1>1, <2>1, PendingAfterCanceled
<1>3. X \cup Y = InContexts(a, S \cup R) /\ Y \in SUBSET DOMAIN a.approvals
  BY <1>2 DEF InContexts, Pending
<1>4. Canceled(Canceled(a, X), Y) = Canceled(a, X \cup Y)
  <2> HIDE DEF X, Y
  <2> QED BY <1>1, <1>3, CanceledTwice
<1> QED BY <1>3, <1>4

-----------------------------------------------------------------------------
(* Saves.                                                                  *)

\* When its statements have run, a save has written its snapshot.
LEMMA WrittenAll ==
  ASSUME NEW C, NEW n, NEW b \in BookSet(C, n), NEW t \in BookSet(C, n),
         Written(NoStatements, b, t)
  PROVE  t = b
<1>1. t.approvals = b.approvals
  <2>1. t.approvals = Without(b.approvals, {})
    BY DEF Written, NoStatements
  <2>2. b.approvals = [x \in DOMAIN b.approvals |-> b.approvals[x]]
    <3>1. IsTable(b.approvals, n.approvals, Approvals)
      BY BookParts
    <3> QED BY <3>1, Zenon DEF IsTable
  <2>3. Without(b.approvals, {}) = [x \in DOMAIN b.approvals |-> b.approvals[x]]
    BY DEF Without
  <2> QED BY <2>1, <2>2, <2>3
<1>2. t.grants = b.grants
  <2>1. t.grants = Without(b.grants, {})
    BY DEF Written, NoStatements
  <2>2. b.grants = [x \in DOMAIN b.grants |-> b.grants[x]]
    <3>1. IsTable(b.grants, n.grants, GrantsFor(C))
      BY BookParts
    <3> QED BY <3>1, Zenon DEF IsTable
  <2>3. Without(b.grants, {}) = [x \in DOMAIN b.grants |-> b.grants[x]]
    BY DEF Without
  <2> QED BY <2>1, <2>2, <2>3
<1>3. t = [approvals |-> t.approvals, grants |-> t.grants]
  BY BookParts
<1>4. b = [approvals |-> b.approvals, grants |-> b.grants]
  BY BookParts
<1> QED BY <1>1, <1>2, <1>3, <1>4

\* A part of books that fit fits, as long as the foreign key holds.
LEMMA PartFits ==
  ASSUME NEW l, NEW b, NEW t, NEW u, BookFits(b, u), Written(l, b, t), l.deletes = 0,
         References(t)
  PROVE  BookFits(t, u)
<1>1. /\ t.approvals = Without(b.approvals, l.approvals)
      /\ t.grants = Without(b.grants, l.grants)
  BY DEF Written
<1>2. OnePerCall(t)
  BY <1>1 DEF BookFits, OnePerCall, Pending, Without
<1>3. UsesFit(t, u)
  BY <1>1 DEF BookFits, UsesFit, Without
<1> QED BY <1>2, <1>3 DEF BookFits

\* What holds of the one caller holds of all.
LEMMA OnlyCaller ==
  ASSUME OneCaller, NEW c \in Callers,
         UsesTyped', BookFits(tables, uses)', CallFits(c)'
  PROVE  AloneInv'
<1> SUFFICES ASSUME NEW d \in Callers PROVE CallFits(d)'
  BY DEF AloneInv
<1>1. d = c
  BY DEF OneCaller
<1> QED BY <1>1

\* The next save begins.
LEMMA SaveBegins ==
  ASSUME IInv, NEW c \in Callers, NEW T, NEW bs \in Seq(T), bs # <<>>, Saving(c, bs),
         NEW u, \A k \in DOMAIN bs : BookFits(bs[k], u)
  PROVE  /\ pc'[c] = "writing" /\ LastSaved(c)' = bs[Len(bs)]
         /\ BookFits(snap'[c], u)
         /\ \A k \in DOMAIN saves'[c] : BookFits(saves'[c][k], u)
         /\ \A t : Written(left'[c], snap'[c], t)
<1>1. /\ pc'[c] = "writing" /\ snap'[c] = Head(bs) /\ saves'[c] = Tail(bs)
      /\ left'[c] = SaveStatements(Head(bs))
  BY DEF Saving, IInv, WritesTyped
<1>2. LastSaved(c)' = bs[Len(bs)]
  <2>1. LastSaved(c)' = IF Tail(bs) = <<>> THEN Head(bs) ELSE Tail(bs)[Len(Tail(bs))]
    BY <1>1, Zenon DEF LastSaved
  <2> QED BY <2>1, LastOfTail
<1>3. Len(bs) \in Nat \ {0} /\ DOMAIN bs = 1 .. Len(bs)
  BY EmptySeq, LenProperties
<1>4. /\ Tail(bs) \in Seq(T) /\ Len(Tail(bs)) = Len(bs) - 1 /\ Head(bs) = bs[1]
      /\ \A i \in 1 .. Len(Tail(bs)) : Tail(bs)[i] = bs[i + 1]
  BY <1>3
<1>5. BookFits(Head(bs), u)
  BY <1>3, <1>4
<1>6. \A k \in DOMAIN Tail(bs) : BookFits(Tail(bs)[k], u)
  <2> SUFFICES ASSUME NEW k \in DOMAIN Tail(bs) PROVE BookFits(Tail(bs)[k], u)
    OBVIOUS
  <2>1. k \in 1 .. Len(Tail(bs))
    BY <1>4, LenProperties
  <2>2. k + 1 \in DOMAIN bs /\ Tail(bs)[k] = bs[k + 1]
    BY <1>3, <1>4, <2>1
  <2> QED BY <2>2
<1>7. \A t : Written(SaveStatements(Head(bs)), Head(bs), t)
  BY DEF Written, SaveStatements
<1> QED BY <1>1, <1>2, <1>5, <1>6, <1>7

\* There is nothing to save.
LEMMA NothingToSave ==
  ASSUME IInv, NEW c \in Callers, Saving(c, <<>>)
  PROVE  /\ pc'[c] = AfterSaves(c) /\ snap'[c] = snap[c] /\ saves'[c] = <<>>
         /\ DOMAIN saves'[c] = {}
<1>1. pc'[c] = AfterSaves(c) /\ snap'[c] = snap[c] /\ saves'[c] = <<>>
  BY DEF Saving, IInv, WritesTyped
<1> QED BY <1>1, EmptyTable

\* A statement of a save has run.
LEMMA RanAlone ==
  ASSUME IInv, OneCaller, AloneInv, NEW c \in Callers, pc[c] = "writing",
         NEW rest, Ran(c, rest), tables' \in BookSet(consented, issued),
         Written(rest, snap[c], tables'), BookFits(tables', uses)
  PROVE  AloneInv'
<1>1. UNCHANGED <<ended, op, opened, issued, uses>>
  BY DEF Ran, history
<1>2. UsesTyped' /\ BookFits(tables, uses)'
  BY <1>1 DEF AloneInv, UsesTyped
<1>3. /\ BookFits(opened[c], uses) /\ BookFits(snap[c], uses)
      /\ \A k \in DOMAIN saves[c] : BookFits(saves[c][k], uses)
      /\ Does(op[c], opened[c], LastSaved(c), uses, ended)
  BY DEF AloneInv, CallFits, Outcome
<1>4. snap[c] \in BookSet(consented, issued) /\ saves[c] \in Seq(BookSet(consented, issued))
  BY DEF IInv, WritesTyped
<1>5. CASE rest # NoStatements
  <2>1. left' = [left EXCEPT ![c] = rest] /\ UNCHANGED <<pc, snap, saves>>
    BY <1>5 DEF Ran
  <2>2. left'[c] = rest
    BY <2>1 DEF IInv, WritesTyped
  <2>3. Outcome(c)' = LastSaved(c)
    BY <2>1, Zenon DEF Outcome, LastSaved
  <2>4. CallFits(c)'
    BY <1>1, <1>3, <2>1, <2>2, <2>3 DEF CallFits
  <2> QED BY <1>2, <2>4, OnlyCaller
<1>6. CASE rest = NoStatements /\ saves[c] # <<>>
  <2>1. Saving(c, saves[c])
    BY <1>6 DEF Ran
  <2>2. /\ pc'[c] = "writing" /\ LastSaved(c)' = LastSaved(c)
        /\ BookFits(snap'[c], uses)
        /\ \A k \in DOMAIN saves'[c] : BookFits(saves'[c][k], uses)
        /\ Written(left'[c], snap'[c], tables')
    <3>1. LastSaved(c) = saves[c][Len(saves[c])]
      BY <1>6 DEF LastSaved
    <3> QED BY <1>3, <1>4, <1>6, <2>1, <3>1, SaveBegins
  <2>3. Outcome(c)' = LastSaved(c)
    BY <2>2 DEF Outcome
  <2>4. CallFits(c)'
    BY <1>1, <1>3, <2>2, <2>3 DEF CallFits
  <2> QED BY <1>2, <2>4, OnlyCaller
<1>7. CASE rest = NoStatements /\ saves[c] = <<>>
  <2>1. Saving(c, <<>>) /\ LastSaved(c) = snap[c]
    BY <1>7 DEF Ran, LastSaved
  <2>2. /\ pc'[c] = AfterSaves(c) /\ snap'[c] = snap[c] /\ DOMAIN saves'[c] = {}
    BY <2>1, NothingToSave
  <2>3. tables' = snap[c]
    BY <1>4, <1>7, WrittenAll
  <2>4. /\ pc'[c] \in {"checking", "returning"}
        /\ pc'[c] = "checking" => op[c].kind = "list"
    BY <2>2 DEF AfterSaves
  <2>5. Outcome(c)' = LastSaved(c)
    BY <2>1, <2>3, <2>4 DEF Outcome
  <2>6. CallFits(c)'
    BY <1>1, <1>3, <2>2, <2>3, <2>4, <2>5 DEF CallFits
  <2> QED BY <1>2, <2>6, OnlyCaller
<1> QED BY <1>5, <1>6, <1>7

\* A caller alone has read the tables as they are.
LEMMA RowsAreTables ==
  ASSUME IInv, AloneInv, NEW c \in Callers, pc[c] = "reading"
  PROVE  Rows(c) = tables
<1>1. opened[c] = [tables EXCEPT !.grants = <<>>]
  BY DEF AloneInv, CallFits
<1>2. tables = [approvals |-> tables.approvals, grants |-> tables.grants]
  BY BookParts DEF IInv, ReadsTyped
<1>3. opened[c] = [approvals |-> tables.approvals, grants |-> <<>>]
  BY <1>1, <1>2
<1> QED BY <1>2, <1>3 DEF Rows

\* A caller decides: it saves nothing, or the books bs.
LEMMA DecidedAlone ==
  ASSUME IInv, OneCaller, AloneInv, NEW c \in Callers,
         NEW kind, kind # "list", Opens(c, kind),
         NEW T, NEW bs \in Seq(T), Saving(c, bs),
         \A k \in DOMAIN bs : BookFits(bs[k], uses),
         UNCHANGED <<tables, ended, uses>>, UsesTyped',
         Does(op'[c], tables, IF bs = <<>> THEN tables ELSE bs[Len(bs)], uses, ended)
  PROVE  AloneInv'
<1>1. BookFits(tables, uses)' /\ BookFits(tables, uses)
  BY DEF AloneInv
<1>2. opened'[c] = tables
  BY RowsAreTables DEF Opens, IInv, ReadsTyped
<1>3. pc[c] = "reading" /\ op[c].kind # "list"
  BY DEF Opens
<1>4. CASE bs = <<>>
  <2>1. /\ pc'[c] = AfterSaves(c) /\ snap'[c] = snap[c] /\ DOMAIN saves'[c] = {}
    BY <1>4, NothingToSave
  <2>2. pc'[c] = "returning"
    BY <1>3, <2>1 DEF AfterSaves
  <2>3. Outcome(c)' = tables
    BY <2>2 DEF Outcome
  <2>4. BookFits(snap[c], uses)
    BY DEF AloneInv, CallFits
  <2>5. Does(op'[c], opened'[c], Outcome(c)', uses', ended')
    BY <1>2, <1>4, <2>3
  <2>6. CallFits(c)'
    BY <1>1, <1>2, <2>1, <2>2, <2>4, <2>5 DEF CallFits
  <2> QED BY <1>1, <2>6, OnlyCaller
<1>5. CASE bs # <<>>
  <2>1. /\ pc'[c] = "writing" /\ LastSaved(c)' = bs[Len(bs)]
        /\ BookFits(snap'[c], uses)
        /\ \A k \in DOMAIN saves'[c] : BookFits(saves'[c][k], uses)
        /\ Written(left'[c], snap'[c], tables')
    BY <1>5, SaveBegins
  <2>2. Outcome(c)' = bs[Len(bs)]
    BY <2>1 DEF Outcome
  <2>3. Does(op'[c], opened'[c], Outcome(c)', uses', ended')
    BY <1>2, <1>5, <2>2
  <2>4. CallFits(c)'
    BY <1>1, <1>2, <2>1, <2>3 DEF CallFits
  <2> QED BY <1>1, <2>4, OnlyCaller
<1> QED BY <1>4, <1>5
-----------------------------------------------------------------------------
(* The actions.                                                            *)

\* The caller has failed, or is done.
LEMMA FailsAlone ==
  ASSUME IInv, OneCaller, NEW c \in Callers, Fails(c), UsesTyped', BookFits(tables, uses)'
  PROVE  AloneInv'
<1>1. /\ pc'[c] = "idle" /\ opened'[c] = NoBooks /\ snap'[c] = NoBooks /\ saves'[c] = <<>>
  BY DEF Fails, IInv, ReadsTyped, WritesTyped
<1>2. CallFits(c)'
  BY <1>1, NoBooksFit, EmptyTable DEF CallFits
<1> QED BY <1>2, OnlyCaller

LEMMA BeginAlone ==
  ASSUME IInv, OneCaller, AloneInv, NEW c \in Callers, NEW o, Begin(c, o), Asked(o, ended)
  PROVE  AloneInv'
<1>1. /\ pc' = [pc EXCEPT ![c] = "reading"] /\ op' = [op EXCEPT ![c] = o]
      /\ opened' = [opened EXCEPT ![c] = [tables EXCEPT !.grants = <<>>]]
      /\ UNCHANGED <<tables, ended, snap, saves, issued, uses>>
  BY DEF Begin, history
<1>2. /\ pc'[c] = "reading" /\ op'[c] = o /\ opened'[c] = [tables EXCEPT !.grants = <<>>]
  BY <1>1 DEF IInv, ReadsTyped, WritesTyped, OpsTyped
<1>3. BookFits([tables EXCEPT !.grants = <<>>], uses)
  <2> DEFINE b == [tables EXCEPT !.grants = <<>>]
  <2>1. b.approvals = tables.approvals /\ DOMAIN b.grants = {}
    BY BookParts, EmptyTable DEF IInv, ReadsTyped
  <2> HIDE DEF b
  <2>2. BookFits(b, uses)
    BY <2>1 DEF AloneInv, BookFits, OnePerCall, UsesFit, References, Pending
  <2> QED BY <2>2 DEF b
<1>4. UsesTyped' /\ BookFits(tables, uses)'
  BY <1>1 DEF AloneInv, UsesTyped
<1>5. CallFits(c)'
  BY <1>1, <1>2, <1>3 DEF AloneInv, CallFits
<1> QED BY <1>4, <1>5, OnlyCaller

\* The rows of a caller that decides are those of the tables.
LEMMA Deciding ==
  ASSUME IInv, AloneInv, NEW c \in Callers, NEW kind, Opens(c, kind)
  PROVE  /\ Rows(c) = tables /\ tables \in BookSet(consented, issued)
         /\ BookFits(tables, uses) /\ Asked(op[c], ended) /\ op[c].kind = kind
         /\ issued \in [approvals : Nat, grants : Nat]
BY RowsAreTables DEF Opens, AloneInv, CallFits, IInv, ReadsTyped, IssuedTyped

\* A call that saves once.
LEMMA SaveOfOne ==
  ASSUME NEW b
  PROVE  /\ <<b>> \in Seq({b}) /\ <<b>> # <<>>
         /\ DOMAIN <<b>> = {1} /\ <<b>>[1] = b /\ <<b>>[Len(<<b>>)] = b
  OBVIOUS

LEMMA AllowCallAlone ==
  ASSUME IInv, OneCaller, AloneInv, NEW c \in Callers, AllowCall(c)
  PROVE  AloneInv'
<1> DEFINE call == op[c].call
           g == FirstMatch(tables, call)
           b == Consumed(tables, g)
           bs == IF b = tables THEN <<>> ELSE <<b>>
<1>1. Opens(c, "toolCall")
  BY DEF AllowCall
<1>2. /\ Rows(c) = tables /\ tables \in BookSet(consented, issued)
      /\ BookFits(tables, uses) /\ Asked(op[c], ended) /\ op[c].kind = "toolCall"
      /\ issued \in [approvals : Nat, grants : Nat]
  BY <1>1, Deciding
<1>3. /\ IsGranted(tables, call)
      /\ op' = [op EXCEPT ![c] = [kind |-> "allowed", call |-> op[c].call, grant |-> g]]
      /\ Saving(c, bs)
      /\ UNCHANGED <<tables, ended, uses, issued>>
  BY <1>2 DEF AllowCall, history
<1>4. g \in DOMAIN tables.grants
  BY <1>2, <1>3, FirstMatchCovers
<1>5. BookFits(b, uses)
  BY <1>2, <1>4, ConsumedFits
<1>6. op'[c] = [kind |-> "allowed", call |-> call, grant |-> g]
  BY <1>3 DEF IInv, OpsTyped
<1>7. call \in Calls
  BY <1>2 DEF Asked
<1>8. Passes(op'[c], tables, b)
  <2> HIDE DEF b, g, call
  <2>1. op'[c].kind = "allowed" /\ op'[c].call = call /\ op'[c].grant = g
    BY <1>6
  <2> QED BY <1>3, <1>7, <2>1 DEF Passes, g, b
<1> HIDE DEF b
<1>9. bs \in Seq({b}) /\ \A k \in DOMAIN bs : BookFits(bs[k], uses)
  <2>1. <<>> \in Seq({b}) /\ DOMAIN <<>> = {}
    BY EmptySeq, EmptyTable
  <2>2. <<b>> \in Seq({b}) /\ \A k \in DOMAIN <<b>> : BookFits(<<b>>[k], uses)
    BY <1>5, SaveOfOne
  <2> QED BY <2>1, <2>2
<1>10. (IF bs = <<>> THEN tables ELSE bs[Len(bs)]) = b
  <2>1. <<b>> # <<>> /\ <<b>>[Len(<<b>>)] = b
    OBVIOUS
  <2> QED BY <2>1
<1>11. Does(op'[c], tables, IF bs = <<>> THEN tables ELSE bs[Len(bs)], uses, ended)
  BY <1>8, <1>10 DEF Does
<1>12. UsesTyped'
  BY <1>3 DEF AloneInv, UsesTyped
<1> HIDE DEF bs
<1> QED BY <1>1, <1>3, <1>9, <1>11, <1>12, DecidedAlone

LEMMA BlockCallAlone ==
  ASSUME IInv, OneCaller, AloneInv, NEW c \in Callers, BlockCall(c)
  PROVE  AloneInv'
<1>1. Opens(c, "toolCall") /\ Saving(c, <<>>) /\ UNCHANGED <<tables, ended, op, uses, issued>>
  BY DEF BlockCall, history
<1>2. Requests(op'[c], tables, tables)
  BY <1>1, Deciding DEF Requests, Asked
<1>3. Does(op'[c], tables, tables, uses, ended)
  BY <1>2 DEF Does
<1>4. UsesTyped' /\ <<>> \in Seq({tables}) /\ DOMAIN <<>> = {}
  BY <1>1, EmptySeq, EmptyTable DEF AloneInv, UsesTyped
<1> QED BY <1>1, <1>3, <1>4, DecidedAlone

LEMMA RequestApprovalAlone ==
  ASSUME IInv, OneCaller, AloneInv, NEW c \in Callers, RequestApproval(c)
  PROVE  AloneInv'
<1> DEFINE i == issued.approvals + 1
           b == Requested(tables, i, op[c].call)
<1>1. Opens(c, "toolCall")
  BY DEF RequestApproval
<1>2. /\ Rows(c) = tables /\ tables \in BookSet(consented, issued)
      /\ BookFits(tables, uses) /\ Asked(op[c], ended) /\ op[c].kind = "toolCall"
      /\ issued \in [approvals : Nat, grants : Nat]
  BY <1>1, Deciding
<1>3. /\ ~IsGranted(tables, op[c].call) /\ PendingFor(tables, op[c].call) = {}
      /\ i \in ApprovalIds /\ issued' = [issued EXCEPT !.approvals = i]
      /\ Saving(c, <<b>>)
      /\ UNCHANGED <<tables, ended, op, uses>>
  BY <1>2 DEF RequestApproval
<1>4. i \notin DOMAIN tables.approvals
  <2>1. IsTable(tables.approvals, issued.approvals, Approvals)
    BY <1>2, BookParts
  <2> QED BY <1>2, <2>1 DEF IsTable
<1>5. BookFits(b, uses)
  BY <1>2, <1>3, <1>4, RequestedFits
<1>6. Does(op'[c], tables, b, uses, ended)
  <2>1. op[c].call \in Calls
    BY <1>2 DEF Asked
  <2> HIDE DEF i
  <2> QED BY <1>2, <1>3, <1>4, <2>1 DEF Does, Requests
<1>7. UsesTyped'
  BY <1>2, <1>3 DEF AloneInv, UsesTyped
<1> HIDE DEF b
<1>8. \A k \in DOMAIN <<b>> : BookFits(<<b>>[k], uses)
  BY <1>5, SaveOfOne
<1>9. Does(op'[c], tables, IF <<b>> = <<>> THEN tables ELSE <<b>>[Len(<<b>>)], uses, ended)
  BY <1>6, SaveOfOne
<1>10. <<b>> \in Seq({b})
  BY SaveOfOne
<1> QED BY <1>1, <1>3, <1>7, <1>8, <1>9, <1>10, DecidedAlone

LEMMA RejectAlone ==
  ASSUME IInv, OneCaller, AloneInv, NEW c \in Callers, Reject(c)
  PROVE  AloneInv'
<1> DEFINE b == Resolved(tables, op[c].id, "reject")
<1>1. Opens(c, "resolve")
  BY DEF Reject
<1>2. /\ Rows(c) = tables /\ tables \in BookSet(consented, issued)
      /\ BookFits(tables, uses) /\ Asked(op[c], ended) /\ op[c].kind = "resolve"
  BY <1>1, Deciding
<1>3. /\ op[c].decision = "reject" /\ op[c].id \in DOMAIN tables.approvals
      /\ Saving(c, <<b>>)
      /\ UNCHANGED <<tables, ended, op, uses, issued>>
  BY <1>2 DEF Reject, history
<1>4. BookFits(b, uses)
  BY <1>2, <1>3, ResolvedFits
<1>5. Does(op'[c], tables, b, uses, ended)
  BY <1>2, <1>3 DEF Does, Resolves, Decisions
<1>6. UsesTyped'
  BY <1>3 DEF AloneInv, UsesTyped
<1> HIDE DEF b
<1>7. \A k \in DOMAIN <<b>> : BookFits(<<b>>[k], uses)
  BY <1>4, SaveOfOne
<1>8. Does(op'[c], tables, IF <<b>> = <<>> THEN tables ELSE <<b>>[Len(<<b>>)], uses, ended)
  BY <1>5, SaveOfOne
<1>9. <<b>> \in Seq({b})
  BY SaveOfOne
<1> QED BY <1>1, <1>3, <1>6, <1>7, <1>8, <1>9, DecidedAlone

\* The id of a new grant is one that no call has used.
LEMMA ApproveAlone ==
  ASSUME IInv, OneCaller, AloneInv, NEW c \in Callers, Approve(c)
  PROVE  AloneInv'
<1> DEFINE g == issued.grants + 1
           id == op[c].id
           decision == op[c].decision
           b == Resolved(tables, id, decision)
           d == Granted(b, id, g, decision)
<1>1. Opens(c, "resolve")
  BY DEF Approve
<1>2. /\ Rows(c) = tables /\ tables \in BookSet(consented, issued)
      /\ BookFits(tables, uses) /\ Asked(op[c], ended) /\ op[c].kind = "resolve"
      /\ issued \in [approvals : Nat, grants : Nat]
  BY <1>1, Deciding
<1>3. /\ decision # "reject" /\ id \in DOMAIN tables.approvals
      /\ g \in GrantIds /\ issued' = [issued EXCEPT !.grants = g]
      /\ Saving(c, <<b, d>>)
      /\ UNCHANGED <<tables, ended, op, uses>>
  BY <1>2 DEF Approve
<1>4. g \notin DOMAIN tables.grants /\ uses[g] = 0
  <2>1. IsTable(tables.grants, issued.grants, GrantsFor(consented))
    BY <1>2, BookParts
  <2> QED BY <1>2, <1>3, <2>1 DEF IsTable, AloneInv, UsesTyped
<1>5. BookFits(b, uses) /\ b \in BookSet(consented, issued)
  BY <1>2, <1>3, ResolvedFits, ResolvedTyped
<1>6. b.grants = tables.grants /\ DOMAIN b.approvals = DOMAIN tables.approvals
  BY <1>2, <1>3, ResolvedParts
<1>7. BookFits(d, uses)
  <2> HIDE DEF b, g, id, decision
  <2>1. id \in DOMAIN b.approvals /\ g \notin DOMAIN b.grants
    BY <1>3, <1>4, <1>6
  <2> QED BY <1>4, <1>5, <2>1, GrantedFits
<1>8. Does(op'[c], tables, d, uses, ended)
  <2>1. decision \in Decisions
    BY <1>2 DEF Asked
  <2>2. op'[c] = op[c]
    BY <1>3
  <2> HIDE DEF g
  <2>3. g \in GrantIds \ DOMAIN tables.grants /\ uses[g] = 0
    BY <1>3, <1>4
  <2> QED BY <1>2, <1>3, <2>1, <2>2, <2>3 DEF Does, Resolves
<1>9. UsesTyped'
  <2>1. issued'.grants = issued.grants + 1 /\ uses' = uses
    BY <1>2, <1>3
  <2>2. \A h \in GrantIds : h \in Nat
    BY IdsAssumption
  <2> QED BY <1>2, <2>1, <2>2 DEF AloneInv, UsesTyped
<1> HIDE DEF b, d
<1>10. <<b, d>> \in Seq({b, d}) /\ <<b, d>> # <<>> /\ <<b, d>>[Len(<<b, d>>)] = d
  OBVIOUS
<1>11. \A k \in DOMAIN <<b, d>> : BookFits(<<b, d>>[k], uses)
  BY <1>5, <1>7
<1>12. Does(op'[c], tables, IF <<b, d>> = <<>> THEN tables ELSE <<b, d>>[Len(<<b, d>>)],
            uses, ended)
  BY <1>8, <1>10
<1> QED BY <1>1, <1>3, <1>9, <1>10, <1>11, <1>12, DecidedAlone

\* A loop of cancellations saves nothing, or leaves all of them canceled.
LEMMA CancellationsOutcome ==
  ASSUME IInv, NEW b \in BookSet(consented, issued), NEW ids \in SUBSET DOMAIN b.approvals,
         BookFits(b, uses)
  PROVE  /\ Cancellations(b, ids) \in Seq(BookSet(consented, issued))
         /\ \A k \in DOMAIN Cancellations(b, ids) : BookFits(Cancellations(b, ids)[k], uses)
         /\ (IF Cancellations(b, ids) = <<>> THEN b
                ELSE Cancellations(b, ids)[Len(Cancellations(b, ids))]) = Canceled(b, ids)
<1>1. issued \in [approvals : Nat, grants : Nat]
  BY DEF IInv, IssuedTyped
<1>2. \A k \in DOMAIN Cancellations(b, ids) : BookFits(Cancellations(b, ids)[k], uses)
  BY <1>1, CancellationsFit
<1>3. /\ Cancellations(b, ids) \in Seq(BookSet(consented, issued))
      /\ Cancellations(b, ids) = <<>> <=> ids = {}
      /\ ids # {} => /\ Len(Cancellations(b, ids)) \in Nat \ {0}
                     /\ Cancellations(b, ids)[Len(Cancellations(b, ids))] = Canceled(b, ids)
  BY <1>1, LastCancellation
<1>4. ids = {} => Canceled(b, ids) = b
  BY CanceledNone
<1> QED BY <1>2, <1>3, <1>4

LEMMA CancelForRunAlone ==
  ASSUME IInv, OneCaller, AloneInv, NEW c \in Callers, CancelForRun(c)
  PROVE  AloneInv'
<1> DEFINE ids == InContexts(tables, {op[c].context})
           bs == Cancellations(tables, ids)
<1>1. Opens(c, "runEnded")
  BY DEF CancelForRun
<1>2. /\ Rows(c) = tables /\ tables \in BookSet(consented, issued)
      /\ BookFits(tables, uses) /\ Asked(op[c], ended) /\ op[c].kind = "runEnded"
  BY <1>1, Deciding
<1>3. Saving(c, bs) /\ UNCHANGED <<tables, ended, op, uses, issued>>
  BY <1>2 DEF CancelForRun, history
<1>4. ids \in SUBSET DOMAIN tables.approvals
  BY PendingAreRows
<1>5. {op[c].context} \in SUBSET ended
  BY <1>2 DEF Asked
<1>6. CancelsEnded(op'[c], tables, Canceled(tables, ids), ended)
  BY <1>2, <1>3, <1>5 DEF CancelsEnded
<1> HIDE DEF ids
<1>7. /\ bs \in Seq(BookSet(consented, issued))
      /\ \A k \in DOMAIN bs : BookFits(bs[k], uses)
      /\ (IF bs = <<>> THEN tables ELSE bs[Len(bs)]) = Canceled(tables, ids)
  BY <1>2, <1>4, CancellationsOutcome
<1> HIDE DEF bs
<1>8. Does(op'[c], tables, IF bs = <<>> THEN tables ELSE bs[Len(bs)], uses, ended)
  BY <1>6, <1>7 DEF Does
<1>9. UsesTyped'
  BY <1>3 DEF AloneInv, UsesTyped
<1> QED BY <1>1, <1>3, <1>7, <1>8, <1>9, DecidedAlone

LEMMA DeactivateMemberAlone ==
  ASSUME IInv, OneCaller, AloneInv, NEW c \in Callers, DeactivateMember(c)
  PROVE  AloneInv'
<1> DEFINE m == op[c].member
           ids == OfMember(tables, m)
           cs == Cancellations(tables, ids)
           last == Revoked(Canceled(tables, ids), m)
           bs == Append(cs, last)
<1>1. Opens(c, "deactivate")
  BY DEF DeactivateMember
<1>2. /\ Rows(c) = tables /\ tables \in BookSet(consented, issued)
      /\ BookFits(tables, uses) /\ Asked(op[c], ended) /\ op[c].kind = "deactivate"
  BY <1>1, Deciding
<1>3. Saving(c, bs) /\ UNCHANGED <<tables, ended, op, uses, issued>>
  BY <1>2 DEF DeactivateMember, history
<1>4. ids \in SUBSET DOMAIN tables.approvals
  BY PendingAreRows
<1>5. Deactivates(op'[c], tables, last)
  BY <1>2, <1>3 DEF Deactivates, Asked
<1> HIDE DEF ids
<1>6. last \in BookSet(consented, issued) /\ BookFits(last, uses)
  <2>1. Canceled(tables, ids) \in BookSet(consented, issued) /\ BookFits(Canceled(tables, ids), uses)
    BY <1>2, <1>4, CanceledTyped, CanceledFits
  <2> QED BY <2>1, RevokedTyped, RevokedFits
<1>7. /\ cs \in Seq(BookSet(consented, issued))
      /\ \A k \in DOMAIN cs : BookFits(cs[k], uses)
  BY <1>2, <1>4, CancellationsOutcome
<1> HIDE DEF last, cs
<1>8. /\ bs \in Seq(BookSet(consented, issued)) /\ bs # <<>> /\ bs[Len(bs)] = last
      /\ \A k \in DOMAIN bs : BookFits(bs[k], uses)
  <2>1. /\ bs \in Seq(BookSet(consented, issued)) /\ bs # <<>>
        /\ Len(bs) = Len(cs) + 1 /\ bs[Len(cs) + 1] = last
        /\ \A k \in 1 .. Len(cs) : bs[k] = cs[k]
    BY <1>6, <1>7, AppendProperties
  <2>2. Len(cs) \in Nat /\ DOMAIN cs = 1 .. Len(cs) /\ DOMAIN bs = 1 .. Len(bs)
    BY <1>7, <2>1, LenProperties
  <2> HIDE DEF bs
  <2>3. \A k \in DOMAIN bs : BookFits(bs[k], uses)
    <3> SUFFICES ASSUME NEW k \in DOMAIN bs PROVE BookFits(bs[k], uses)
      OBVIOUS
    <3>1. k \in 1 .. Len(cs) \/ k = Len(cs) + 1
      BY <2>1, <2>2
    <3> QED BY <1>6, <1>7, <2>1, <2>2, <3>1
  <2> QED BY <2>1, <2>3
<1> HIDE DEF bs
<1>9. Does(op'[c], tables, IF bs = <<>> THEN tables ELSE bs[Len(bs)], uses, ended)
  BY <1>5, <1>8 DEF Does
<1>10. UsesTyped'
  BY <1>3 DEF AloneInv, UsesTyped
<1> QED BY <1>1, <1>3, <1>8, <1>9, <1>10, DecidedAlone

LEMMA StartListAlone ==
  ASSUME IInv, OneCaller, AloneInv, NEW c \in Callers, StartList(c)
  PROVE  AloneInv'
<1>1. Opens(c, "list")
  BY DEF StartList
<1>2. /\ Rows(c) = tables /\ tables \in BookSet(consented, issued)
      /\ BookFits(tables, uses) /\ op[c].kind = "list"
  BY <1>1, Deciding
<1>3. /\ snap' = [snap EXCEPT ![c] = tables] /\ pc' = [pc EXCEPT ![c] = "checking"]
      /\ opened' = [opened EXCEPT ![c] = tables]
      /\ UNCHANGED <<tables, ended, op, saves, uses, issued>>
  BY <1>2 DEF StartList, Opens, history
<1>4. snap'[c] = tables /\ pc'[c] = "checking" /\ opened'[c] = tables
  BY <1>3 DEF IInv, ReadsTyped, WritesTyped
<1>5. Does(op'[c], tables, tables, uses, ended)
  <2>1. tables = Canceled(tables, InContexts(tables, {}))
    BY <1>2, CanceledNone
  <2>2. CancelsEnded(op'[c], tables, tables, ended)
    BY <1>2, <1>3, <2>1 DEF CancelsEnded
  <2> QED BY <2>2 DEF Does
<1>6. Outcome(c)' = tables
  BY <1>3, <1>4 DEF Outcome
<1>7. UsesTyped' /\ BookFits(tables, uses)'
  BY <1>2, <1>3 DEF AloneInv, UsesTyped
<1>8. \A k \in DOMAIN saves[c] : BookFits(saves[c][k], uses)
  BY DEF AloneInv, CallFits
<1>9. Does(op'[c], opened'[c], Outcome(c)', uses', ended')
  BY <1>3, <1>4, <1>5, <1>6
<1>10. CallFits(c)'
  BY <1>2, <1>3, <1>4, <1>8, <1>9 DEF CallFits
<1> QED BY <1>7, <1>10, OnlyCaller

\* What a list cancels for one more WorkRun that has ended.
LEMMA CancelsMore ==
  ASSUME NEW C, NEW n, NEW a \in BookSet(C, n), NEW o, NEW b, NEW E,
         CancelsEnded(o, a, b, E), NEW r \in E
  PROVE  CancelsEnded(o, a, Canceled(b, InContexts(b, {r})), E)
<1>1. PICK S \in SUBSET E : b = Canceled(a, InContexts(a, S))
  BY DEF CancelsEnded
<1>2. Canceled(b, InContexts(b, {r})) = Canceled(a, InContexts(a, S \cup {r}))
  BY <1>1, CanceledContexts
<1>3. S \cup {r} \in SUBSET E
  OBVIOUS
<1> QED BY <1>2, <1>3 DEF CancelsEnded

\* A list does nothing but cancel.
LEMMA ListCancels ==
  ASSUME NEW o, NEW a, NEW b, NEW u, NEW E, Does(o, a, b, u, E), o.kind = "list"
  PROVE  CancelsEnded(o, a, b, E)
  BY DEF Does, Requests, Passes, Resolves, Deactivates

LEMMA CheckRunAlone ==
  ASSUME IInv, OneCaller, AloneInv, NEW c \in Callers, NEW r, CheckRun(c, r)
  PROVE  AloneInv'
<1> DEFINE ids == InContexts(tables, {r})
           bs == IF r \in ended THEN Cancellations(tables, ids) ELSE <<>>
           b == IF r \in ended THEN Canceled(tables, ids) ELSE tables
<1>1. /\ pc[c] = "checking" /\ snap[c] = tables /\ op[c].kind = "list"
      /\ BookFits(opened[c], uses) /\ BookFits(tables, uses)
      /\ Does(op[c], opened[c], tables, uses, ended)
  BY DEF CheckRun, AloneInv, CallFits, Outcome
<1>2. Saving(c, bs) /\ UNCHANGED <<tables, ended, op, opened, uses, issued>>
  BY <1>1 DEF CheckRun, history
<1>3. opened[c] \in BookSet(consented, issued) /\ tables \in BookSet(consented, issued)
  BY DEF IInv, ReadsTyped
<1>4. ids \in SUBSET DOMAIN tables.approvals
  BY PendingAreRows
<1>5. CancelsEnded(op[c], opened[c], b, ended)
  <2>1. CancelsEnded(op[c], opened[c], tables, ended)
    BY <1>1, ListCancels
  <2> QED BY <1>3, <2>1, CancelsMore
<1> HIDE DEF ids
<1>6. /\ bs \in Seq(BookSet(consented, issued))
      /\ \A k \in DOMAIN bs : BookFits(bs[k], uses)
      /\ (IF bs = <<>> THEN tables ELSE bs[Len(bs)]) = b
  <2>1. CASE r \in ended
    BY <1>1, <1>3, <1>4, <2>1, CancellationsOutcome
  <2>2. CASE r \notin ended
    BY <2>2, EmptySeq, EmptyTable
  <2> QED BY <2>1, <2>2
<1>7. UsesTyped' /\ BookFits(tables, uses)'
  BY <1>1, <1>2 DEF AloneInv, UsesTyped
<1>8. Does(op[c], opened[c], b, uses, ended)
  BY <1>5 DEF Does
<1> HIDE DEF bs, b
<1>9. CASE bs = <<>>
  <2>1. /\ pc'[c] = AfterSaves(c) /\ snap'[c] = snap[c] /\ DOMAIN saves'[c] = {}
    BY <1>2, <1>9, NothingToSave
  <2>2. pc'[c] = "checking" /\ Outcome(c)' = tables
    BY <1>1, <1>2, <2>1 DEF AfterSaves, Outcome
  <2>3. Does(op'[c], opened'[c], Outcome(c)', uses', ended')
    BY <1>1, <1>2, <2>2
  <2>4. CallFits(c)'
    BY <1>1, <1>2, <2>1, <2>2, <2>3 DEF CallFits
  <2> QED BY <1>7, <2>4, OnlyCaller
<1>10. CASE bs # <<>>
  <2>1. /\ pc'[c] = "writing" /\ LastSaved(c)' = b
        /\ BookFits(snap'[c], uses)
        /\ \A k \in DOMAIN saves'[c] : BookFits(saves'[c][k], uses)
        /\ Written(left'[c], snap'[c], tables')
    BY <1>2, <1>6, <1>10, SaveBegins
  <2>2. Outcome(c)' = b
    BY <2>1 DEF Outcome
  <2>3. Does(op'[c], opened'[c], Outcome(c)', uses', ended')
    BY <1>2, <1>8, <2>2
  <2>4. CallFits(c)'
    BY <1>1, <1>2, <2>1, <2>3 DEF CallFits
  <2> QED BY <1>7, <2>4, OnlyCaller
<1> QED BY <1>9, <1>10

LEMMA ListIsDoneAlone ==
  ASSUME IInv, OneCaller, AloneInv, NEW c \in Callers, ListIsDone(c)
  PROVE  AloneInv'
<1>1. /\ pc[c] = "checking" /\ pc' = [pc EXCEPT ![c] = "returning"]
      /\ UNCHANGED <<tables, ended, op, opened, snap, saves, uses, issued>>
  BY DEF ListIsDone, history
<1>2. pc'[c] = "returning" /\ Outcome(c)' = Outcome(c)
  BY <1>1 DEF IInv, WritesTyped, Outcome
<1>3. CallFits(c)'
  BY <1>1, <1>2 DEF AloneInv, CallFits
<1>4. UsesTyped' /\ BookFits(tables, uses)'
  BY <1>1 DEF AloneInv, UsesTyped
<1> QED BY <1>3, <1>4, OnlyCaller

-----------------------------------------------------------------------------
(* The statements of a save.                                               *)

\* All rows deleted.
LEMMA WithoutAll ==
  ASSUME NEW f
  PROVE  Without(f, DOMAIN f) = <<>>
<1>1. DOMAIN <<>> = {} /\ <<>> = [x \in DOMAIN <<>> |-> <<>>[x]]
  BY EmptyTable DEF IsTable
<1>2. DOMAIN Without(f, DOMAIN f) = {}
  BY DEF Without
<1>3. Without(f, DOMAIN f) = [x \in {} |-> f[x]]
  BY DEF Without
<1>4. [x \in {} |-> f[x]] = [x \in {} |-> <<>>[x]]
  OBVIOUS
<1> QED BY <1>1, <1>3, <1>4

\* One row inserted again.
LEMMA WithoutOneLess ==
  ASSUME NEW f, NEW S, NEW x \in DOMAIN f, x \in S
  PROVE  Extended(Without(f, S), x, f[x]) = Without(f, S \ {x})
  BY DEF Extended, Without

\* A caller that runs a statement is writing.
LEMMA Writing ==
  ASSUME IInv, AloneInv, NEW c \in Callers, left[c] # NoStatements
  PROVE  /\ pc[c] = "writing"
         /\ left[c].deletes \in {1, 2} =>
              /\ left[c].approvals = DOMAIN snap[c].approvals
              /\ left[c].grants = DOMAIN snap[c].grants
         /\ left[c].deletes = 0 =>
              /\ tables.approvals = Without(snap[c].approvals, left[c].approvals)
              /\ tables.grants = Without(snap[c].grants, left[c].grants)
         /\ left[c] = [deletes |-> left[c].deletes, approvals |-> left[c].approvals,
                       grants |-> left[c].grants]
         /\ left[c].deletes \in 0 .. 2
         /\ left[c].approvals \subseteq DOMAIN snap[c].approvals
         /\ left[c].grants \subseteq DOMAIN snap[c].grants
         /\ BookFits(tables, uses) /\ BookFits(snap[c], uses)
         /\ tables = [approvals |-> tables.approvals, grants |-> tables.grants]
<1>1. pc[c] = "writing" /\ left[c] \in Statements(issued)
  BY DEF IInv, WritesTyped
<1>2. /\ Written(left[c], snap[c], tables)
      /\ BookFits(tables, uses) /\ BookFits(snap[c], uses)
  BY <1>1 DEF AloneInv, CallFits
<1>3. /\ left[c].approvals \subseteq DOMAIN snap[c].approvals
      /\ left[c].grants \subseteq DOMAIN snap[c].grants
  BY DEF IInv, WritesTyped
<1>4. /\ left[c] = [deletes |-> left[c].deletes, approvals |-> left[c].approvals,
                    grants |-> left[c].grants]
      /\ left[c].deletes \in 0 .. 2
  BY <1>1 DEF Statements
<1>5. tables = [approvals |-> tables.approvals, grants |-> tables.grants]
  BY BookParts DEF IInv, ReadsTyped
<1>6. left[c].deletes \in {1, 2} =>
        left[c].approvals = DOMAIN snap[c].approvals /\ left[c].grants = DOMAIN snap[c].grants
  <2>1. left[c].deletes \in {1, 2} => left[c].deletes > 0
    OBVIOUS
  <2> QED BY <1>2, <2>1 DEF Written
<1>7. left[c].deletes = 0 =>
        /\ tables.approvals = Without(snap[c].approvals, left[c].approvals)
        /\ tables.grants = Without(snap[c].grants, left[c].grants)
  <2>1. left[c].deletes = 0 => left[c].deletes <= 1
    OBVIOUS
  <2> QED BY <1>2, <2>1 DEF Written
<1> QED BY <1>1, <1>2, <1>3, <1>4, <1>5, <1>6, <1>7

\* A statement leaves books.
LEMMA TablesAfter ==
  ASSUME IInv', NEW c, NEW rest, Ran(c, rest)
  PROVE  tables' \in BookSet(consented, issued)
  BY DEF IInv, ReadsTyped, Ran, history

LEMMA DeleteGrantsAlone ==
  ASSUME IInv, IInv', OneCaller, AloneInv, NEW c \in Callers, DeleteGrants(c)
  PROVE  AloneInv'
<1> DEFINE rest == [left[c] EXCEPT !.deletes = 1]
           t == [tables EXCEPT !.grants = <<>>]
<1>1. left[c].deletes = 2 /\ tables' = t /\ Ran(c, rest)
  BY DEF DeleteGrants
<1>2. left[c] # NoStatements
  BY <1>1 DEF NoStatements
<1>3. /\ rest.deletes = 1
      /\ rest.approvals = DOMAIN snap[c].approvals /\ rest.grants = DOMAIN snap[c].grants
  <2>1. /\ left[c].approvals = DOMAIN snap[c].approvals
        /\ left[c].grants = DOMAIN snap[c].grants
    BY <1>1, <1>2, Writing
  <2>2. /\ rest.deletes = 1
        /\ rest.approvals = left[c].approvals /\ rest.grants = left[c].grants
    BY <1>1, <1>2, Writing
  <2> QED BY <2>1, <2>2
<1>4. t.approvals = tables.approvals /\ t.grants = <<>>
  BY <1>2, Writing
<1> HIDE DEF rest, t
<1>5. Written(rest, snap[c], t)
  BY <1>3, <1>4, WithoutAll DEF Written
<1>6. BookFits(t, uses)
  <2>1. DOMAIN t.grants = {}
    BY <1>4, EmptyTable
  <2>2. BookFits(tables, uses)
    BY <1>2, Writing
  <2> QED BY <1>4, <2>1, <2>2 DEF BookFits, OnePerCall, UsesFit, References, Pending
<1>7. pc[c] = "writing" /\ t \in BookSet(consented, issued)
  BY <1>1, <1>2, Writing, TablesAfter
<1> QED BY <1>1, <1>5, <1>6, <1>7, RanAlone

LEMMA DeleteApprovalsAlone ==
  ASSUME IInv, IInv', OneCaller, AloneInv, NEW c \in Callers, DeleteApprovals(c)
  PROVE  AloneInv'
<1> DEFINE rest == [left[c] EXCEPT !.deletes = 0]
<1>1. left[c].deletes = 1 /\ tables' = NoBooks /\ Ran(c, rest)
  BY DEF DeleteApprovals
<1>2. left[c] # NoStatements
  BY <1>1 DEF NoStatements
<1>3. /\ rest.deletes = 0
      /\ rest.approvals = DOMAIN snap[c].approvals /\ rest.grants = DOMAIN snap[c].grants
  <2>1. /\ left[c].approvals = DOMAIN snap[c].approvals
        /\ left[c].grants = DOMAIN snap[c].grants
    BY <1>1, <1>2, Writing
  <2>2. /\ rest.deletes = 0
        /\ rest.approvals = left[c].approvals /\ rest.grants = left[c].grants
    BY <1>1, <1>2, Writing
  <2> QED BY <2>1, <2>2
<1>4. NoBooks.approvals = <<>> /\ NoBooks.grants = <<>>
  BY DEF NoBooks
<1> HIDE DEF rest
<1>5. Written(rest, snap[c], NoBooks)
  BY <1>3, <1>4, WithoutAll DEF Written
<1>6. pc[c] = "writing" /\ tables' \in BookSet(consented, issued)
  BY <1>1, <1>2, Writing, TablesAfter
<1> QED BY <1>1, <1>5, <1>6, NoBooksFit, RanAlone

LEMMA UpsertApprovalAlone ==
  ASSUME IInv, IInv', OneCaller, AloneInv, NEW c \in Callers, NEW i, UpsertApproval(c, i)
  PROVE  AloneInv'
<1> DEFINE rest == [left[c] EXCEPT !.approvals = @ \ {i}]
           a == Extended(tables.approvals, i, snap[c].approvals[i])
           t == [tables EXCEPT !.approvals = a]
<1>1. left[c].deletes = 0 /\ i \in left[c].approvals /\ tables' = t /\ Ran(c, rest)
  BY DEF UpsertApproval, IsLeast
<1>2. left[c] # NoStatements
  BY <1>1 DEF NoStatements
<1>3. /\ rest.deletes = 0
      /\ rest.approvals = left[c].approvals \ {i} /\ rest.grants = left[c].grants
  BY <1>1, <1>2, Writing
<1>4. a = Without(snap[c].approvals, left[c].approvals \ {i})
  <2>1. i \in DOMAIN snap[c].approvals
    BY <1>1, <1>2, Writing
  <2>2. tables.approvals = Without(snap[c].approvals, left[c].approvals)
    BY <1>1, <1>2, Writing
  <2> QED BY <1>1, <2>1, <2>2, WithoutOneLess
<1>5. DOMAIN a = DOMAIN tables.approvals \cup {i}
  BY DEF Extended
<1> HIDE DEF a
<1>6. t.approvals = a /\ t.grants = tables.grants
  BY <1>2, Writing
<1> HIDE DEF rest, t
<1>7. Written(rest, snap[c], t)
  <2>1. tables.grants = Without(snap[c].grants, left[c].grants)
    BY <1>1, <1>2, Writing
  <2> QED BY <1>3, <1>4, <1>6, <2>1 DEF Written
<1>8. References(t)
  <2>1. References(tables)
    BY <1>2, Writing DEF BookFits
  <2> QED BY <1>5, <1>6, <2>1 DEF References
<1>9. BookFits(t, uses)
  <2>1. BookFits(snap[c], uses)
    BY <1>2, Writing
  <2> QED BY <1>3, <1>7, <1>8, <2>1, PartFits
<1>10. pc[c] = "writing" /\ t \in BookSet(consented, issued)
  BY <1>1, <1>2, Writing, TablesAfter
<1> QED BY <1>1, <1>7, <1>9, <1>10, RanAlone

LEMMA UpsertGrantAlone ==
  ASSUME IInv, IInv', OneCaller, AloneInv, NEW c \in Callers, NEW g, UpsertGrant(c, g)
  PROVE  AloneInv'
<1> DEFINE rest == [left[c] EXCEPT !.grants = @ \ {g}]
           v == snap[c].grants[g]
           G == Extended(tables.grants, g, v)
           t == [tables EXCEPT !.grants = G]
<1>1. /\ left[c].deletes = 0 /\ g \in left[c].grants /\ tables' = t /\ Ran(c, rest)
      /\ v.approval \in DOMAIN tables.approvals
  BY DEF UpsertGrant, NextGrant, IsLeast, HasApproval
<1>2. left[c] # NoStatements
  BY <1>1 DEF NoStatements
<1>3. /\ rest.deletes = 0
      /\ rest.approvals = left[c].approvals /\ rest.grants = left[c].grants \ {g}
  BY <1>1, <1>2, Writing
<1>4. G = Without(snap[c].grants, left[c].grants \ {g})
  <2>1. g \in DOMAIN snap[c].grants
    BY <1>1, <1>2, Writing
  <2>2. tables.grants = Without(snap[c].grants, left[c].grants)
    BY <1>1, <1>2, Writing
  <2> QED BY <1>1, <2>1, <2>2, WithoutOneLess
<1>5. /\ DOMAIN G = DOMAIN tables.grants \cup {g} /\ G[g] = v
      /\ \A h \in DOMAIN tables.grants : h # g => G[h] = tables.grants[h]
  BY DEF Extended
<1> HIDE DEF G, v
<1>6. t.approvals = tables.approvals /\ t.grants = G
  BY <1>2, Writing
<1> HIDE DEF rest, t
<1>7. Written(rest, snap[c], t)
  <2>1. tables.approvals = Without(snap[c].approvals, left[c].approvals)
    BY <1>1, <1>2, Writing
  <2> QED BY <1>3, <1>4, <1>6, <2>1 DEF Written
<1>8. References(t)
  <2>1. References(tables)
    BY <1>2, Writing DEF BookFits
  <2> QED BY <1>1, <1>5, <1>6, <2>1 DEF References
<1>9. BookFits(t, uses)
  <2>1. BookFits(snap[c], uses)
    BY <1>2, Writing
  <2> QED BY <1>3, <1>7, <1>8, <2>1, PartFits
<1>10. pc[c] = "writing" /\ t \in BookSet(consented, issued)
  BY <1>1, <1>2, Writing, TablesAfter
<1> QED BY <1>1, <1>7, <1>9, <1>10, RanAlone

\* A grant for one time that let a call through is marked when the call is.
LEMMA ReturnAlone ==
  ASSUME IInv, OneCaller, AloneInv, NEW c \in Callers, Return(c)
  PROVE  AloneInv'
<1>1. pc[c] = "returning" /\ Fails(c) /\ UNCHANGED <<tables, issued>>
  BY DEF Return
<1>2. CASE op[c].kind # "allowed"
  <2>1. uses' = uses
    BY <1>2 DEF Return
  <2>2. UsesTyped' /\ BookFits(tables, uses)'
    BY <1>1, <2>1 DEF AloneInv, UsesTyped
  <2> QED BY <1>1, <2>2, FailsAlone
<1>3. CASE op[c].kind = "allowed"
  <2> DEFINE a == opened[c]
             g == op[c].grant
  <2>1. uses' = [uses EXCEPT ![g] = @ + 1]
    BY <1>3 DEF Return
  <2>2. a \in BookSet(consented, issued) /\ issued \in [approvals : Nat, grants : Nat]
    BY DEF IInv, ReadsTyped, IssuedTyped
  <2>3. BookFits(a, uses) /\ BookFits(tables, uses) /\ Does(op[c], a, tables, uses, ended)
    BY <1>1 DEF AloneInv, CallFits, Outcome
  <2>4. Passes(op[c], a, tables)
    BY <1>3, <2>3 DEF Does, Requests, Resolves, CancelsEnded, Deactivates
  <2>5. /\ IsGranted(a, op[c].call) /\ g = FirstMatch(a, op[c].call)
        /\ tables = Consumed(a, g)
    BY <2>4 DEF Passes
  <2>6. g \in DOMAIN a.grants /\ ~a.grants[g].consumed
    BY <2>2, <2>5, FirstMatchCovers
  <2>7. g \in 1 .. issued.grants /\ g \in GrantIds
    <3>1. IsTable(a.grants, issued.grants, GrantsFor(consented))
      BY <2>2, BookParts
    <3> QED BY <2>6, <3>1 DEF IsTable, IInv, IssuedTyped
  <2> HIDE DEF a, g
  <2>8. UsesTyped'
    <3>1. \A h \in GrantIds : h > issued.grants => h # g
      BY <2>2, <2>7
    <3> QED BY <1>1, <2>1, <2>7, <3>1 DEF AloneInv, UsesTyped
  <2>9. UsesFit(tables, uses')
    <3>1. /\ DOMAIN tables.grants = DOMAIN a.grants
          /\ \A h \in DOMAIN a.grants : tables.grants[h].scope = a.grants[h].scope
          /\ a.grants[g].scope = "one_time" => tables.grants[g].consumed
      BY <2>2, <2>5, <2>6, ConsumedParts
    <3> SUFFICES ASSUME NEW h \in DOMAIN tables.grants, tables.grants[h].scope = "one_time"
                 PROVE  uses'[h] <= 1 /\ (~tables.grants[h].consumed => uses'[h] = 0)
      BY DEF UsesFit
    <3>2. CASE h # g
      <4>1. uses'[h] = uses[h]
        BY <2>1, <3>2 DEF AloneInv, UsesTyped
      <4> QED BY <2>3, <4>1 DEF BookFits, UsesFit
    <3>3. CASE h = g
      <4>1. a.grants[g].scope = "one_time"
        BY <3>1, <3>3
      <4>2. uses[g] = 0
        BY <2>3, <2>6, <4>1, Zenon DEF BookFits, UsesFit
      <4>3. uses'[g] = 1
        BY <2>1, <2>7, <4>2 DEF AloneInv, UsesTyped
      <4>4. tables.grants[g].consumed
        BY <3>1, <4>1, Zenon
      <4>5. uses'[g] <= 1
        BY <4>3
      <4> QED BY <3>3, <4>4, <4>5, Zenon
    <3> QED BY <3>2, <3>3
  <2>10. BookFits(tables, uses)'
    BY <1>1, <2>3, <2>9 DEF BookFits
  <2> QED BY <1>1, <2>8, <2>10, FailsAlone
<1> QED BY <1>2, <1>3

LEMMA EndRunAlone ==
  ASSUME IInv, OneCaller, AloneInv, NEW r, EndRun(r)
  PROVE  AloneInv'
<1>1. /\ ended \subseteq ended'
      /\ UNCHANGED <<tables, pc, op, opened, snap, saves, left, uses, issued>>
  BY DEF EndRun, local, history
<1>2. UsesTyped' /\ BookFits(tables, uses)'
  BY <1>1 DEF AloneInv, UsesTyped
<1> SUFFICES ASSUME NEW c \in Callers PROVE CallFits(c)'
  BY <1>2 DEF AloneInv
<1>3. Outcome(c)' = Outcome(c)
  BY <1>1 DEF Outcome, LastSaved
<1>4. Asked(op[c], ended) => Asked(op[c], ended')
  BY <1>1 DEF Asked
<1>5. Does(op[c], opened[c], Outcome(c), uses, ended)
        => Does(op[c], opened[c], Outcome(c), uses, ended')
  BY <1>1 DEF Does, CancelsEnded
<1>6. CallFits(c)
  BY DEF AloneInv
<1> QED BY <1>1, <1>3, <1>4, <1>5, <1>6 DEF CallFits

LEMMA CrashAlone ==
  ASSUME IInv, AloneInv, Crash
  PROVE  AloneInv'
<1>1. UsesTyped' /\ BookFits(tables, uses)'
  BY DEF Crash, history, AloneInv, UsesTyped
<1> SUFFICES ASSUME NEW c \in Callers PROVE CallFits(c)'
  BY <1>1 DEF AloneInv
<1>2. pc'[c] = "idle" /\ opened'[c] = NoBooks /\ snap'[c] = NoBooks /\ saves'[c] = <<>>
  BY DEF Crash
<1> QED BY <1>2, NoBooksFit, EmptyTable DEF CallFits

-----------------------------------------------------------------------------
(* The invariant, and what follows from it.                                *)

\* Empty tables, a caller at rest and no grant used.
LEMMA InitAlone == Init => AloneInv
<1> SUFFICES ASSUME Init PROVE AloneInv
  OBVIOUS
<1>1. UsesTyped /\ BookFits(tables, uses)
  BY NoBooksFit DEF Init, UsesTyped
<1>2. ASSUME NEW c \in Callers PROVE CallFits(c)
  BY NoBooksFit, EmptyTable DEF Init, CallFits
<1> QED BY <1>1, <1>2 DEF AloneInv

\* The invariant is inductive.
LEMMA NextAlone ==
  ASSUME OneCaller
  PROVE  IInv /\ IInv' /\ AloneInv /\ [Next]_vars => AloneInv'
<1> SUFFICES ASSUME IInv, IInv', AloneInv, [Next]_vars PROVE AloneInv'
  OBVIOUS
<1>1. ASSUME NEW c \in Callers, NEW call \in Calls, ToolCall(c, call) PROVE AloneInv'
  <2>1. Asked([kind |-> "toolCall", call |-> call], ended)
    BY DEF Asked
  <2> QED BY <1>1, <2>1, BeginAlone DEF ToolCall
<1>2. ASSUME NEW c \in Callers, NEW i, NEW d \in Decisions, Decide(c, i, d) PROVE AloneInv'
  <2>1. Asked([kind |-> "resolve", id |-> i, decision |-> d], ended)
    BY DEF Asked
  <2> QED BY <1>2, <2>1, BeginAlone DEF Decide
<1>3. ASSUME NEW c \in Callers, ListRequests(c) PROVE AloneInv'
  <2>1. Asked([kind |-> "list", ended |-> ended], ended)
    BY DEF Asked
  <2> QED BY <1>3, <2>1, BeginAlone DEF ListRequests
<1>4. ASSUME NEW c \in Callers, NEW r \in Runs, RunTerminalHook(c, r) PROVE AloneInv'
  <2>1. r \in ended
    BY <1>4 DEF RunTerminalHook, IInv, RunsTyped
  <2>2. Asked([kind |-> "runEnded", context |-> r], ended)
    BY <2>1 DEF Asked
  <2> QED BY <1>4, <2>2, BeginAlone DEF RunTerminalHook
<1>5. ASSUME NEW c \in Callers, NEW m \in Members, Deactivate(c, m) PROVE AloneInv'
  <2>1. Asked([kind |-> "deactivate", member |-> m], ended)
    BY DEF Asked
  <2> QED BY <1>5, <2>1, BeginAlone DEF Deactivate
<1>6. ASSUME NEW c \in Callers, NEW g, ResolveUnknown(c) \/ UpsertGrantFails(c, g) PROVE AloneInv'
  <2>1. Fails(c) /\ UNCHANGED <<tables, uses, issued>>
    BY <1>6 DEF ResolveUnknown, UpsertGrantFails, history
  <2>2. UsesTyped' /\ BookFits(tables, uses)'
    BY <2>1 DEF AloneInv, UsesTyped
  <2> QED BY <2>1, <2>2, FailsAlone
<1>7. CASE UNCHANGED vars
  <2>1. UNCHANGED <<tables, ended, pc, op, opened, snap, saves, left, uses, issued>>
    BY <1>7 DEF vars, local, history
  <2>2. ASSUME NEW c \in Callers PROVE CallFits(c)'
    <3>1. Outcome(c)' = Outcome(c)
      BY <2>1 DEF Outcome, LastSaved
    <3> QED BY <2>1, <3>1 DEF AloneInv, CallFits
  <2> QED BY <2>1, <2>2 DEF AloneInv, UsesTyped
<1>8. CASE Next
  BY <1>1, <1>2, <1>3, <1>4, <1>5, <1>6, <1>8,
     AllowCallAlone, BlockCallAlone, RequestApprovalAlone, RejectAlone, ApproveAlone,
     CancelForRunAlone, DeactivateMemberAlone, StartListAlone, CheckRunAlone, ListIsDoneAlone,
     DeleteGrantsAlone, DeleteApprovalsAlone, UpsertApprovalAlone, UpsertGrantAlone,
     ReturnAlone, EndRunAlone, CrashAlone
     DEF Next
<1> QED BY <1>7, <1>8

\* Both invariants hold in every reachable state.
LEMMA SpecAlone ==
  ASSUME OneCaller
  PROVE  Spec => [](IInv /\ AloneInv)
<1>1. IInv /\ IInv' /\ AloneInv /\ [Next]_vars => AloneInv'
  BY NextAlone
<1> QED BY <1>1, InitAlone, SpecIInv, PTL DEF Spec

\* While one call follows another, "allow once" lets one call through: for any
\* members, contexts, grants and calls, and wherever the process dies
\* (access-request-service.ts:97-102).
THEOREM GrantsAreUsedOnce ==
  ASSUME OneCaller
  PROVE  Spec => []GrantIsUsedOnce
<1>1. AloneInv => GrantIsUsedOnce
  BY DEF AloneInv, CallFits, BookFits, UsesFit, GrantIsUsedOnce
<1> QED BY <1>1, SpecAlone, PTL

\* While one call follows another, no call has two pending requests
\* (access-request-service.ts:104-120).
THEOREM CallsAskOnce ==
  ASSUME OneCaller
  PROVE  Spec => []OnePendingRequestPerCall
<1>1. AloneInv => OnePendingRequestPerCall
  <2> SUFFICES ASSUME AloneInv, NEW call \in Calls
               PROVE  Cardinality({i \in Pending(tables) : tables.approvals[i].call = call}) <= 1
    BY DEF OnePendingRequestPerCall
  <2> DEFINE P == {i \in Pending(tables) : tables.approvals[i].call = call}
  <2>1. \A i, j \in P : i = j
    BY DEF AloneInv, BookFits, OnePerCall
  <2> HIDE DEF P
  <2>2. CASE P = {}
    <3>1. Cardinality(P) = 0
      BY <2>2, FS_EmptySet
    <3> QED BY <3>1 DEF P
  <2>3. CASE P # {}
    <3>1. PICK i : P = {i}
      BY <2>1, <2>3
    <3>2. Cardinality(P) = 1
      BY <3>1, FS_Singleton
    <3> QED BY <3>2 DEF P
  <2> QED BY <2>2, <2>3
<1> QED BY <1>1, SpecAlone, PTL

\* While one call follows another, a deactivation that answers has left the
\* member no grant and no pending request
\* (member-runtime-lifecycle-service.ts:84-92).
THEOREM DeactivationsAreThorough ==
  ASSUME OneCaller
  PROVE  Spec => []DeactivatedMemberHasNoAccess
<1>1. IInv /\ AloneInv => DeactivatedMemberHasNoAccess
  <2> SUFFICES ASSUME IInv, AloneInv, NEW c \in Callers,
                      pc[c] = "returning", op[c].kind = "deactivate"
               PROVE  /\ OfMember(tables, op[c].member) = {}
                      /\ \A g \in DOMAIN tables.grants :
                           tables.grants[g].call.member # op[c].member
    BY DEF DeactivatedMemberHasNoAccess
  <2> DEFINE a == opened[c]
             m == op[c].member
             ids == OfMember(a, m)
             b == Canceled(a, ids)
  <2>1. Does(op[c], a, tables, uses, ended)
    BY DEF AloneInv, CallFits, Outcome
  <2>2. tables = Revoked(b, m)
    BY <2>1 DEF Does, Requests, Passes, Resolves, CancelsEnded, Deactivates
  <2>3. a \in BookSet(consented, issued) /\ ids \in SUBSET DOMAIN a.approvals
    BY PendingAreRows DEF IInv, ReadsTyped
  <2> HIDE DEF a, m
  <2>4. \A i \in Pending(a) : a.approvals[i].call.member = m => i \in ids
    BY DEF OfMember
  <2> HIDE DEF ids
  <2>5. /\ Pending(b) = Pending(a) \ ids
        /\ \A i \in DOMAIN a.approvals : b.approvals[i].call = a.approvals[i].call
    BY <2>3, PendingAfterCanceled
  <2>6. b \in BookSet(consented, issued)
    BY <2>3, CanceledTyped
  <2> HIDE DEF b
  <2>7. /\ tables.approvals = b.approvals
        /\ \A g \in DOMAIN tables.grants : tables.grants[g].call.member # m
    BY <2>2, <2>6, BookParts DEF Revoked
  <2>8. \A i \in Pending(tables) : tables.approvals[i].call.member # m
    BY <2>4, <2>5, <2>7 DEF Pending
  <2> QED BY <2>7, <2>8 DEF OfMember, m
<1> QED BY <1>1, SpecAlone, PTL

-----------------------------------------------------------------------------
(* The refinement.  The books of AccessRequests are those that the caller  *)
(* found, until it returns: every step of a call is a stutter but the      *)
(* return, which is the step that Does says.                               *)

\* The decisions of the abstract specification are those of the store.
LEMMA SameQuestions ==
  ASSUME NEW b, NEW call, NEW m, NEW S
  PROVE  /\ Atomic!IsGranted(b, call) = IsGranted(b, call)
         /\ Atomic!FirstMatch(b, call) = FirstMatch(b, call)
         /\ Atomic!PendingFor(b, call) = PendingFor(b, call)
         /\ Atomic!InContexts(b, S) = InContexts(b, S)
         /\ Atomic!OfMember(b, m) = OfMember(b, m)
<1>1. Atomic!Matching(b, call) = Matching(b, call)
  BY Zenon DEF Atomic!Matching, Matching, Atomic!Covers, Covers
<1>2. Atomic!Pending(b) = Pending(b)
  BY Zenon DEF Atomic!Pending, Pending
<1>3. Atomic!IsGranted(b, call) = IsGranted(b, call)
  BY <1>1, Zenon DEF Atomic!IsGranted, IsGranted
<1>4. Atomic!FirstMatch(b, call) = FirstMatch(b, call)
  BY <1>1, Zenon DEF Atomic!FirstMatch, FirstMatch, Atomic!Min, Min
<1>5. Atomic!PendingFor(b, call) = PendingFor(b, call)
  BY <1>2, Zenon DEF Atomic!PendingFor, PendingFor
<1>6. Atomic!InContexts(b, S) = InContexts(b, S)
  BY <1>2, Zenon DEF Atomic!InContexts, InContexts
<1>7. Atomic!OfMember(b, m) = OfMember(b, m)
  BY <1>2, Zenon DEF Atomic!OfMember, OfMember
<1> QED BY <1>3, <1>4, <1>5, <1>6, <1>7

\* Both modules take their decisions with the same operators.
LEMMA SameDecisions ==
  ASSUME NEW b, NEW i, NEW g, NEW call, NEW decision, NEW ids, NEW m
  PROVE  /\ Atomic!Requested(b, i, call) = Requested(b, i, call)
         /\ Atomic!Consumed(b, g) = Consumed(b, g)
         /\ Atomic!Resolved(b, i, decision) = Resolved(b, i, decision)
         /\ Atomic!Granted(b, i, g, decision) = Granted(b, i, g, decision)
         /\ Atomic!Canceled(b, ids) = Canceled(b, ids)
         /\ Atomic!Revoked(b, m) = Revoked(b, m)
<1>1. Atomic!Requested(b, i, call) = Requested(b, i, call)
  BY Zenon DEF Atomic!Requested, Requested, Atomic!Extended, Extended, Atomic!Approval, Approval
<1>2. Atomic!Consumed(b, g) = Consumed(b, g)
  BY Zenon DEF Atomic!Consumed, Consumed
<1>3. Atomic!Resolved(b, i, decision) = Resolved(b, i, decision)
  BY Zenon DEF Atomic!Resolved, Resolved, Atomic!ResolvedStatus, ResolvedStatus
<1>4. Atomic!Granted(b, i, g, decision) = Granted(b, i, g, decision)
  BY Zenon DEF Atomic!Granted, Granted, Atomic!Extended, Extended, Atomic!Grant, Grant,
               Atomic!GrantScope, GrantScope
<1>5. Atomic!Canceled(b, ids) = Canceled(b, ids)
  BY Zenon DEF Atomic!Canceled, Canceled
<1>6. Atomic!Revoked(b, m) = Revoked(b, m)
  BY Zenon DEF Atomic!Revoked, Revoked
<1> QED BY <1>1, <1>2, <1>3, <1>4, <1>5, <1>6

\* The books that a caller has in hand are the books it found.
InHand == {"writing", "checking", "returning"}

\* Books is what the one caller found, or the tables.
LEMMA BooksOfCaller ==
  ASSUME OneCaller, NEW c \in Callers
  PROVE  Books = IF pc[c] \in InHand THEN opened[c] ELSE tables
<1>1. CASE pc[c] \in InHand
  <2> DEFINE d == CHOOSE e \in Callers : pc[e] \in {"writing", "checking", "returning"}
  <2>1. d \in Callers
    BY <1>1, Zenon DEF InHand
  <2>2. d = c
    BY <2>1 DEF OneCaller
  <2>3. \E e \in Callers : pc[e] \in {"writing", "checking", "returning"}
    BY <1>1, Zenon DEF InHand
  <2>4. Books = opened[d]
    BY <2>3, Zenon DEF Books
  <2> HIDE DEF d
  <2> QED BY <1>1, <2>2, <2>4
<1>2. CASE pc[c] \notin InHand
  <2>1. \A e \in Callers : pc[e] \notin InHand
    BY <1>2 DEF OneCaller
  <2> QED BY <1>2, <2>1 DEF Books, InHand
<1> QED BY <1>1, <1>2

\* And after a step.
LEMMA BooksOfCallerNext ==
  ASSUME OneCaller, NEW c \in Callers
  PROVE  Books' = IF pc'[c] \in InHand THEN opened'[c] ELSE tables'
<1>1. CASE pc'[c] \in InHand
  <2> DEFINE d == CHOOSE e \in Callers : pc'[e] \in {"writing", "checking", "returning"}
  <2>1. d \in Callers
    BY <1>1, Zenon DEF InHand
  <2>2. d = c
    BY <2>1 DEF OneCaller
  <2>3. \E e \in Callers : pc'[e] \in {"writing", "checking", "returning"}
    BY <1>1, Zenon DEF InHand
  <2>4. Books' = opened'[d]
    BY <2>3, Zenon DEF Books
  <2> HIDE DEF d
  <2> QED BY <1>1, <2>2, <2>4
<1>2. CASE pc'[c] \notin InHand
  <2>1. \A e \in Callers : pc'[e] \notin InHand
    BY <1>2 DEF OneCaller
  <2> QED BY <1>2, <2>1 DEF Books, InHand
<1> QED BY <1>1, <1>2


\* What a step may be to the abstract specification.
Steps == Atomic!Next \/ UNCHANGED Atomic!vars

\* A step that leaves the books as they are is a stutter.
LEMMA StutterSteps ==
  ASSUME UNCHANGED <<Books, ended, uses>>
  PROVE  Steps
  BY DEF Steps, Atomic!vars

\* The operation of caller c is one of AccessRequests.
LEMMA ReturnImplements ==
  ASSUME IInv, OneCaller, AloneInv, NEW c \in Callers, Return(c)
  PROVE  Steps
<1> DEFINE a == opened[c]
           o == op[c]
<1>1. pc[c] = "returning" /\ Fails(c) /\ UNCHANGED <<tables, ended>>
  BY DEF Return
<1>2. pc'[c] = "idle"
  BY <1>1 DEF Fails, IInv, WritesTyped
<1>3. Books = a /\ Books' = tables
  BY <1>1, <1>2, BooksOfCaller, BooksOfCallerNext DEF InHand
<1>4. a \in BookSet(consented, issued)
  BY DEF IInv, ReadsTyped
<1>5. Does(o, a, tables, uses, ended)
  BY <1>1 DEF AloneInv, CallFits, Outcome
<1>6. uses' = IF o.kind = "allowed" THEN [uses EXCEPT ![o.grant] = @ + 1] ELSE uses
  BY DEF Return
<1> HIDE DEF a, o
<1>7. CASE Requests(o, a, tables)
  <2>1. uses' = uses /\ o.call \in Calls
    BY <1>6, <1>7 DEF Requests
  <2>2. CASE tables = a
    BY <1>1, <1>3, <2>1, <2>2, StutterSteps
  <2>3. CASE tables # a
    <3>1. /\ ~IsGranted(a, o.call) /\ PendingFor(a, o.call) = {}
          /\ \E i \in ApprovalIds \ DOMAIN a.approvals : tables = Requested(a, i, o.call)
      BY <1>7, <2>3 DEF Requests
    <3>2. Atomic!Request(o.call)
      BY <1>1, <1>3, <2>1, <3>1, SameQuestions, SameDecisions DEF Atomic!Request
    <3> QED BY <2>1, <3>2 DEF Steps, Atomic!Next, Atomic!Calls, Calls, Atomic!Contexts, Contexts
  <2> QED BY <2>2, <2>3
<1>8. CASE Passes(o, a, tables)
  <2>1. /\ uses' = [uses EXCEPT ![o.grant] = @ + 1] /\ o.call \in Calls
        /\ IsGranted(a, o.call) /\ o.grant = FirstMatch(a, o.call)
        /\ tables = Consumed(a, o.grant)
    BY <1>6, <1>8 DEF Passes
  <2>2. Atomic!Allow(o.call)
    BY <1>1, <1>3, <2>1, SameQuestions, SameDecisions DEF Atomic!Allow
  <2> QED BY <2>1, <2>2 DEF Steps, Atomic!Next, Atomic!Calls, Calls, Atomic!Contexts, Contexts
<1>9. CASE Resolves(o, a, tables, uses)
  <2>1. uses' = uses /\ o.id \in DOMAIN Books.approvals
    BY <1>3, <1>6, <1>9 DEF Resolves
  <2>2. CASE o.decision = "reject"
    <3>1. Atomic!Reject(o.id)
      BY <1>1, <1>3, <1>9, <2>1, <2>2, SameDecisions DEF Resolves, Atomic!Reject
    <3> QED BY <2>1, <3>1 DEF Steps, Atomic!Next
  <2>3. CASE o.decision # "reject"
    <3>1. /\ o.decision \in Decisions
          /\ \E g \in GrantIds \ DOMAIN a.grants :
               /\ uses[g] = 0
               /\ tables = Granted(Resolved(a, o.id, o.decision), o.id, g, o.decision)
      BY <1>9, <2>3 DEF Resolves
    <3>2. Atomic!Approve(o.id, o.decision)
      BY <1>1, <1>3, <2>1, <2>3, <3>1, SameDecisions DEF Atomic!Approve
    <3> QED BY <2>1, <3>1, <3>2 DEF Steps, Atomic!Next, Atomic!Decisions, Decisions
  <2> QED BY <2>2, <2>3
<1>10. CASE CancelsEnded(o, a, tables, ended)
  <2>1. uses' = uses
    BY <1>6, <1>10 DEF CancelsEnded
  <2>2. PICK S \in SUBSET ended : tables = Canceled(a, InContexts(a, S))
    BY <1>10 DEF CancelsEnded
  <2>3. CASE S = {}
    <3>1. tables = a
      BY <1>4, <2>2, <2>3, CanceledNone
    <3> QED BY <1>1, <1>3, <2>1, <3>1, StutterSteps
  <2>4. CASE S # {}
    <3>1. Atomic!CancelEnded(S)
      BY <1>1, <1>3, <2>1, <2>2, <2>4, SameQuestions, SameDecisions DEF Atomic!CancelEnded
    <3> QED BY <3>1 DEF Steps, Atomic!Next
  <2> QED BY <2>3, <2>4
<1>11. CASE Deactivates(o, a, tables)
  <2>1. /\ uses' = uses /\ o.member \in Members
        /\ tables = Revoked(Canceled(a, OfMember(a, o.member)), o.member)
    BY <1>6, <1>11 DEF Deactivates
  <2>2. Atomic!Deactivate(o.member)
    BY <1>1, <1>3, <2>1, SameQuestions, SameDecisions DEF Atomic!Deactivate
  <2> QED BY <2>1, <2>2 DEF Steps, Atomic!Next
<1> QED BY <1>5, <1>7, <1>8, <1>9, <1>10, <1>11 DEF Does


\* Until it decides, a call has read a part of the tables only.
LEMMA BeginImplements ==
  ASSUME IInv, OneCaller, NEW c \in Callers, NEW o, Begin(c, o)
  PROVE  Steps
<1>1. /\ pc[c] \notin InHand /\ pc'[c] \notin InHand
      /\ UNCHANGED <<tables, ended, uses>>
  BY DEF Begin, IInv, WritesTyped, InHand, history
<1> QED BY <1>1, BooksOfCaller, BooksOfCallerNext, StutterSteps

\* An answer to a request that is not there is a stutter.
LEMMA UnknownImplements ==
  ASSUME IInv, OneCaller, NEW c \in Callers, ResolveUnknown(c)
  PROVE  Steps
<1>1. /\ pc[c] \notin InHand /\ pc'[c] \notin InHand
      /\ UNCHANGED <<tables, ended, uses>>
  BY DEF ResolveUnknown, Fails, IInv, WritesTyped, InHand, history
<1> QED BY <1>1, BooksOfCaller, BooksOfCallerNext, StutterSteps

\* A caller that saves goes on to have the books in hand.
LEMMA SavingInHand ==
  ASSUME IInv, NEW c \in Callers, NEW bs, Saving(c, bs)
  PROVE  pc'[c] \in InHand
  BY DEF Saving, AfterSaves, IInv, WritesTyped, InHand

\* A call that decides has read the tables.
LEMMA DecidedImplements ==
  ASSUME IInv, OneCaller, AloneInv, NEW c \in Callers, NEW kind, Opens(c, kind),
         pc'[c] \in InHand, UNCHANGED <<ended, uses>>
  PROVE  Steps
<1>1. pc[c] \notin InHand
  BY DEF Opens, InHand
<1>2. opened'[c] = tables
  BY RowsAreTables DEF Opens, IInv, ReadsTyped
<1> QED BY <1>1, <1>2, BooksOfCaller, BooksOfCallerNext, StutterSteps

\* A call that has decided holds on to what it found.
LEMMA HeldImplements ==
  ASSUME OneCaller, NEW c \in Callers, pc[c] \in InHand, pc'[c] \in InHand,
         UNCHANGED <<opened, ended, uses>>
  PROVE  Steps
  BY BooksOfCaller, BooksOfCallerNext, StutterSteps

\* A statement is a stutter; the step that counts is the return.
LEMMA RanImplements ==
  ASSUME IInv, OneCaller, AloneInv, NEW c \in Callers, left[c] # NoStatements,
         NEW rest, Ran(c, rest)
  PROVE  Steps
<1>1. pc[c] = "writing" /\ UNCHANGED <<opened, ended, uses>>
  BY Writing DEF Ran, history
<1>2. pc'[c] \in InHand
  <2>1. CASE rest = NoStatements
    BY <2>1, SavingInHand DEF Ran
  <2>2. CASE rest # NoStatements
    BY <1>1, <2>2 DEF Ran, InHand
  <2> QED BY <2>1, <2>2
<1> QED BY <1>1, <1>2, HeldImplements DEF InHand

\* The foreign key holds in the snapshot, so that no insertion fails.
LEMMA NoGrantFails ==
  ASSUME IInv, AloneInv, NEW c \in Callers, NEW g, NextGrant(c, g)
  PROVE  HasApproval(c, g)
<1>1. left[c].deletes = 0 /\ left[c].approvals = {} /\ g \in left[c].grants
  BY DEF NextGrant, IsLeast
<1>2. left[c] # NoStatements
  BY <1>1 DEF NoStatements
<1>3. /\ tables.approvals = Without(snap[c].approvals, {})
      /\ g \in DOMAIN snap[c].grants /\ References(snap[c])
  BY <1>1, <1>2, Writing DEF BookFits
<1>4. DOMAIN tables.approvals = DOMAIN snap[c].approvals
  BY <1>3 DEF Without
<1> QED BY <1>3, <1>4 DEF References, HasApproval

\* A run that ends ends in both.
LEMMA EndRunImplements ==
  ASSUME IInv, OneCaller, NEW r \in Runs, EndRun(r)
  PROVE  Steps
<1>1. /\ r \notin ended /\ ended' = ended \cup {r}
      /\ UNCHANGED <<tables, pc, opened, uses>>
  BY DEF EndRun, local, history
<1>2. Books' = Books
  BY <1>1, Zenon DEF Books
<1>3. Atomic!EndRun(r)
  BY <1>1, <1>2 DEF Atomic!EndRun
<1> QED BY <1>3 DEF Steps, Atomic!Next

\* Both begin with empty books.
LEMMA InitImplements == Init => Atomic!Init
<1> SUFFICES ASSUME Init PROVE Atomic!Init
  OBVIOUS
<1>1. Books = NoBooks
  <2>1. \A c \in Callers : pc[c] \notin {"writing", "checking", "returning"}
    BY DEF Init
  <2> QED BY <2>1 DEF Books, Init
<1>2. Atomic!NoBooks = NoBooks
  BY DEF Atomic!NoBooks, NoBooks
<1> QED BY <1>1, <1>2 DEF Init, Atomic!Init

\* Each step is a step of AccessRequests or a stutter.
LEMMA NextImplements ==
  ASSUME OneCaller, MaxCrashes = 0
  PROVE  IInv /\ AloneInv /\ [Next]_vars => Steps
<1> SUFFICES ASSUME IInv, AloneInv, [Next]_vars PROVE Steps
  OBVIOUS
<1>1. ASSUME NEW c \in Callers,
             \/ \E call \in Calls : ToolCall(c, call)
             \/ \E i \in ApprovalIds, d \in Decisions : Decide(c, i, d)
             \/ ListRequests(c)
             \/ \E r \in Runs : RunTerminalHook(c, r)
             \/ \E m \in Members : Deactivate(c, m)
      PROVE  Steps
  BY <1>1, BeginImplements DEF ToolCall, Decide, ListRequests, RunTerminalHook, Deactivate
<1>2. ASSUME NEW c \in Callers,
             \/ AllowCall(c) \/ BlockCall(c) \/ RequestApproval(c)
             \/ Reject(c) \/ Approve(c) \/ CancelForRun(c) \/ DeactivateMember(c)
      PROVE  Steps
  <2>1. PICK kind : Opens(c, kind)
    BY <1>2 DEF AllowCall, BlockCall, RequestApproval, Reject, Approve, CancelForRun,
                DeactivateMember
  <2>2. \E bs : Saving(c, bs)
    BY <1>2 DEF AllowCall, BlockCall, RequestApproval, Reject, Approve, CancelForRun,
                DeactivateMember
  <2>3. UNCHANGED <<ended, uses>>
    BY <1>2 DEF AllowCall, BlockCall, RequestApproval, Reject, Approve, CancelForRun,
                DeactivateMember, history
  <2> QED BY <2>1, <2>2, <2>3, SavingInHand, DecidedImplements
<1>3. ASSUME NEW c \in Callers, StartList(c) PROVE Steps
  <2>1. Opens(c, "list") /\ pc'[c] \in InHand /\ UNCHANGED <<ended, uses>>
    BY <1>3 DEF StartList, InHand, IInv, WritesTyped, history
  <2> QED BY <2>1, DecidedImplements
<1>4. ASSUME NEW c \in Callers, NEW r \in Runs, CheckRun(c, r) PROVE Steps
  <2>1. pc[c] \in InHand /\ UNCHANGED <<opened, ended, uses>> /\ \E bs : Saving(c, bs)
    BY <1>4 DEF CheckRun, InHand, history
  <2> QED BY <2>1, SavingInHand, HeldImplements
<1>5. ASSUME NEW c \in Callers, ListIsDone(c) PROVE Steps
  <2>1. pc[c] \in InHand /\ pc'[c] \in InHand /\ UNCHANGED <<opened, ended, uses>>
    BY <1>5 DEF ListIsDone, InHand, IInv, WritesTyped, history
  <2> QED BY <2>1, HeldImplements
<1>6. ASSUME NEW c \in Callers,
             \/ DeleteGrants(c) \/ DeleteApprovals(c)
             \/ \E i \in ApprovalIds : UpsertApproval(c, i)
             \/ \E g \in GrantIds : UpsertGrant(c, g)
      PROVE  Steps
  <2>1. left[c] # NoStatements
    BY <1>6 DEF DeleteGrants, DeleteApprovals, UpsertApproval, UpsertGrant, NextGrant, IsLeast,
                NoStatements
  <2>2. \E rest : Ran(c, rest)
    BY <1>6 DEF DeleteGrants, DeleteApprovals, UpsertApproval, UpsertGrant
  <2> QED BY <2>1, <2>2, RanImplements
<1>7. ASSUME NEW c \in Callers, NEW g \in GrantIds, UpsertGrantFails(c, g) PROVE Steps
  BY <1>7, NoGrantFails DEF UpsertGrantFails
<1>8. ~Crash
  BY DEF Crash, IInv, BoundsTyped
<1>9. CASE UNCHANGED vars
  <2>1. UNCHANGED <<tables, pc, opened, ended, uses>>
    BY <1>9 DEF vars, local, history
  <2>2. Books' = Books
    BY <2>1, Zenon DEF Books
  <2> QED BY <2>1, <2>2, StutterSteps
<1>10. CASE Next
  BY <1>1, <1>2, <1>3, <1>4, <1>5, <1>6, <1>7, <1>8, <1>10,
     UnknownImplements, ReturnImplements, EndRunImplements
     DEF Next
<1> QED BY <1>9, <1>10

\* While one call follows another and the process lives, every operation on the
\* approvals and the grants is one atomic step of AccessRequests, although it
\* deletes and inserts all the rows (postgres-company-governance-store.ts:133-145).
THEOREM CallsAreOperations ==
  ASSUME OneCaller, MaxCrashes = 0
  PROVE  Spec => CallsAreAtomic
<1>1. IInv /\ AloneInv /\ [Next]_vars => Atomic!Next \/ UNCHANGED Atomic!vars
  BY NextImplements DEF Steps
<1> QED BY <1>1, InitImplements, SpecAlone, PTL DEF Spec, CallsAreAtomic, Atomic!Spec

================================================================================
