-------------------------- MODULE AccessStore_proofs --------------------------
(***************************************************************************)
(* Proofs about AccessStore: its type invariant, that no call goes through *)
(* without an approval, and that a list shows no request of a WorkRun that *)
(* had ended, for any number of callers, members, contexts, calls and      *)
(* crashes, however the calls overlap.                                     *)
(***************************************************************************)
EXTENDS AccessStore, FiniteSetTheorems, SequenceTheorems, TLAPS

-----------------------------------------------------------------------------
(* The inductive invariant.                                                *)
(*                                                                         *)
(* AllowedCallWasApproved is not inductive: a call is let through by a     *)
(* grant of the rows it has read, and these were written by some caller    *)
(* from the rows that it had read.  So every copy of the books, wherever   *)
(* it is, must hold grants for approved calls only: the tables, the rows   *)
(* that a caller has read, its snapshot, and what it has still to save.    *)

PartialFunctions(S, T) == UNION {[D -> T] : D \in SUBSET S}

GrantsFor(C) == {g \in Grants : g.call \in C}

\* Books with the ids issued so far, n, and with grants for the calls of C.
BookSet(C, n) ==
  [approvals : PartialFunctions(1 .. n.approvals, Approvals),
   grants : PartialFunctions(1 .. n.grants, GrantsFor(C))]

Statements(n) ==
  [deletes : 0 .. 2, approvals : SUBSET (1 .. n.approvals), grants : SUBSET (1 .. n.grants)]

\* What has been read.
ReadsTyped(C, n) ==
  /\ tables \in BookSet(C, n)
  /\ opened \in [Callers -> BookSet(C, n)]

\* What is still to be written: rows of the snapshot, then further books.
WritesTyped(C, n) ==
  /\ pc \in [Callers -> {"idle", "reading", "checking", "writing", "returning"}]
  /\ snap \in [Callers -> BookSet(C, n)]
  /\ saves \in [Callers -> Seq(BookSet(C, n))]
  /\ left \in [Callers -> Statements(n)]
  /\ \A c \in Callers :
       /\ left[c].approvals \subseteq DOMAIN snap[c].approvals
       /\ left[c].grants \subseteq DOMAIN snap[c].grants
       /\ pc[c] = "writing" <=> left[c] # NoStatements

\* A caller decides on the call it was asked about.
OpsTyped(C) ==
  /\ op = [c \in Callers |-> op[c]]
  /\ \A c \in Callers :
       /\ op[c].kind = "toolCall" => op[c].call \in Calls
       /\ op[c].kind = "allowed" => op[c].call \in C

RunsTyped ==
  /\ toCheck \in [Callers -> SUBSET Runs]
  /\ ended \subseteq Runs
  /\ hooks \subseteq ended

IssuedTyped ==
  /\ issued \in [approvals : Nat, grants : Nat]
  /\ 1 .. issued.approvals \subseteq ApprovalIds
  /\ 1 .. issued.grants \subseteq GrantIds

BoundsTyped == calls \in 0 .. MaxCalls /\ crashes \in 0 .. MaxCrashes

IInv ==
  /\ ReadsTyped(consented, issued)
  /\ WritesTyped(consented, issued)
  /\ OpsTyped(consented)
  /\ RunsTyped
  /\ IssuedTyped
  /\ BoundsTyped
  /\ consented \subseteq Calls

-----------------------------------------------------------------------------
(* The decisions make books of books.                                      *)

IsTable(f, n, S) ==
  /\ f = [x \in DOMAIN f |-> f[x]]
  /\ DOMAIN f \subseteq 1 .. n
  /\ \A x \in DOMAIN f : f[x] \in S

\* The two tables of a book.
LEMMA BookParts ==
  ASSUME NEW C, NEW n, NEW b \in BookSet(C, n)
  PROVE  /\ b = [approvals |-> b.approvals, grants |-> b.grants]
         /\ IsTable(b.approvals, n.approvals, Approvals)
         /\ IsTable(b.grants, n.grants, GrantsFor(C))
  BY DEF BookSet, PartialFunctions, IsTable

\* Two tables that fit make a book.
LEMMA BookOfTables ==
  ASSUME NEW C, NEW n, NEW a, NEW g,
         IsTable(a, n.approvals, Approvals), IsTable(g, n.grants, GrantsFor(C))
  PROVE  [approvals |-> a, grants |-> g] \in BookSet(C, n)
<1>1. a \in PartialFunctions(1 .. n.approvals, Approvals)
  BY DEF PartialFunctions, IsTable
<1>2. g \in PartialFunctions(1 .. n.grants, GrantsFor(C))
  BY DEF PartialFunctions, IsTable
<1> QED BY <1>1, <1>2 DEF BookSet

\* An empty table fits.
LEMMA EmptyTable ==
  ASSUME NEW n, NEW S
  PROVE  /\ DOMAIN <<>> = {}
         /\ IsTable(<<>>, n, S)
<1>1. <<>> \in Seq(S) /\ Len(<<>>) = 0
  BY EmptySeq
<1>2. DOMAIN <<>> = 1 .. 0 /\ <<>> \in [1 .. 0 -> S]
  BY <1>1, LenProperties
<1> QED BY <1>2 DEF IsTable

\* A table fits with one more row that fits.
LEMMA ExtendedTable ==
  ASSUME NEW n, NEW S, NEW f, IsTable(f, n, S), NEW x \in 1 .. n, NEW v \in S
  PROVE  /\ IsTable(Extended(f, x, v), n, S)
         /\ DOMAIN Extended(f, x, v) = DOMAIN f \cup {x}
  BY DEF IsTable, Extended

\* So do empty books.
LEMMA NoBooksTyped ==
  ASSUME NEW C, NEW n
  PROVE  NoBooks \in BookSet(C, n)
  BY EmptyTable, BookOfTables DEF NoBooks

\* Books fit when more ids are issued and more calls consented to.
LEMMA MoreBooks ==
  ASSUME NEW C, NEW D, C \subseteq D,
         NEW n \in [approvals : Nat, grants : Nat], NEW m \in [approvals : Nat, grants : Nat],
         n.approvals <= m.approvals, n.grants <= m.grants
  PROVE  BookSet(C, n) \subseteq BookSet(D, m)
<1> SUFFICES ASSUME NEW b \in BookSet(C, n) PROVE b \in BookSet(D, m)
  OBVIOUS
<1>0. 1 .. n.approvals \subseteq 1 .. m.approvals /\ 1 .. n.grants \subseteq 1 .. m.grants
  OBVIOUS
<1>1. IsTable(b.approvals, m.approvals, Approvals)
  <2>1. IsTable(b.approvals, n.approvals, Approvals)
    BY BookParts
  <2> QED BY <1>0, <2>1 DEF IsTable
<1>2. IsTable(b.grants, m.grants, GrantsFor(D))
  <2>1. IsTable(b.grants, n.grants, GrantsFor(C))
    BY BookParts
  <2> QED BY <1>0, <2>1 DEF IsTable, GrantsFor
<1>3. b = [approvals |-> b.approvals, grants |-> b.grants]
  BY BookParts
<1> QED BY <1>1, <1>2, <1>3, BookOfTables

\* What a call decides keeps the books' types: cancelations,
LEMMA CanceledTyped ==
  ASSUME NEW C, NEW n, NEW b \in BookSet(C, n), NEW ids
  PROVE  /\ Canceled(b, ids) \in BookSet(C, n)
         /\ DOMAIN Canceled(b, ids).approvals = DOMAIN b.approvals
<1> DEFINE A == [i \in DOMAIN b.approvals |->
                   IF i \in ids THEN [b.approvals[i] EXCEPT !.status = "canceled"]
                                ELSE b.approvals[i]]
<1>1. Canceled(b, ids) = [approvals |-> A, grants |-> b.grants]
  BY BookParts DEF Canceled
<1>2. IsTable(b.approvals, n.approvals, Approvals) /\ IsTable(b.grants, n.grants, GrantsFor(C))
  BY BookParts
<1>3. \A i \in DOMAIN b.approvals : A[i] \in Approvals
  BY <1>2 DEF Approvals, IsTable
<1>4. IsTable(A, n.approvals, Approvals)
  BY <1>2, <1>3 DEF IsTable
<1>5. DOMAIN A = DOMAIN b.approvals
  OBVIOUS
<1> HIDE DEF A
<1> QED BY <1>1, <1>2, <1>4, <1>5, BookOfTables

\* revocations,
LEMMA RevokedTyped ==
  ASSUME NEW C, NEW n, NEW b \in BookSet(C, n), NEW m
  PROVE  Revoked(b, m) \in BookSet(C, n)
<1> DEFINE G == [g \in {h \in DOMAIN b.grants : b.grants[h].call.member # m} |-> b.grants[g]]
<1>1. Revoked(b, m) = [approvals |-> b.approvals, grants |-> G]
  BY BookParts DEF Revoked
<1>2. IsTable(b.approvals, n.approvals, Approvals) /\ IsTable(b.grants, n.grants, GrantsFor(C))
  BY BookParts
<1>3. IsTable(G, n.grants, GrantsFor(C))
  BY <1>2 DEF IsTable
<1> HIDE DEF G
<1> QED BY <1>1, <1>2, <1>3, BookOfTables

\* requests,
LEMMA RequestedTyped ==
  ASSUME NEW C, NEW n, NEW b \in BookSet(C, n), NEW i \in 1 .. n.approvals, NEW call \in Calls
  PROVE  Requested(b, i, call) \in BookSet(C, n)
<1> DEFINE v == Approval(call, "pending")
<1>1. v \in Approvals
  BY DEF Approval, Approvals
<1>2. Requested(b, i, call) = [approvals |-> Extended(b.approvals, i, v), grants |-> b.grants]
  BY BookParts DEF Requested
<1>3. IsTable(b.approvals, n.approvals, Approvals) /\ IsTable(b.grants, n.grants, GrantsFor(C))
  BY BookParts
<1> HIDE DEF v
<1>4. IsTable(Extended(b.approvals, i, v), n.approvals, Approvals)
  BY <1>1, <1>3, ExtendedTable
<1> QED BY <1>2, <1>3, <1>4, BookOfTables

\* decisions,
LEMMA ResolvedTyped ==
  ASSUME NEW C, NEW n, NEW b \in BookSet(C, n), NEW i \in DOMAIN b.approvals, NEW decision
  PROVE  /\ Resolved(b, i, decision) \in BookSet(C, n)
         /\ DOMAIN Resolved(b, i, decision).approvals = DOMAIN b.approvals
         /\ Resolved(b, i, decision).approvals[i].call = b.approvals[i].call
<1> DEFINE A == [b.approvals EXCEPT ![i].status = ResolvedStatus(decision)]
<1>1. Resolved(b, i, decision) = [approvals |-> A, grants |-> b.grants]
  BY BookParts DEF Resolved
<1>2. ResolvedStatus(decision) \in {"approved", "rejected"}
  BY DEF ResolvedStatus
<1>3. IsTable(b.approvals, n.approvals, Approvals) /\ IsTable(b.grants, n.grants, GrantsFor(C))
  BY BookParts
<1>4. DOMAIN A = DOMAIN b.approvals /\ A = [j \in DOMAIN A |-> A[j]]
  BY <1>3 DEF IsTable
<1>5. \A j \in DOMAIN A : A[j] \in Approvals
  BY <1>2, <1>3 DEF Approvals, IsTable
<1>6. A[i].call = b.approvals[i].call
  BY <1>3 DEF Approvals, IsTable
<1> HIDE DEF A
<1>7. IsTable(A, n.approvals, Approvals)
  BY <1>3, <1>4, <1>5 DEF IsTable
<1> QED BY <1>1, <1>3, <1>4, <1>6, <1>7, BookOfTables

\* grants,
LEMMA GrantedTyped ==
  ASSUME NEW C, NEW n, NEW b \in BookSet(C, n), NEW decision,
         NEW i \in DOMAIN b.approvals, i \in ApprovalIds, b.approvals[i].call \in C,
         NEW g \in 1 .. n.grants
  PROVE  Granted(b, i, g, decision) \in BookSet(C, n)
<1> DEFINE v == Grant(i, b.approvals[i].call, GrantScope(decision))
<1>1. IsTable(b.approvals, n.approvals, Approvals) /\ IsTable(b.grants, n.grants, GrantsFor(C))
  BY BookParts
<1>2. b.approvals[i] \in Approvals
  BY <1>1 DEF IsTable
<1>3. v \in GrantsFor(C)
  BY <1>2 DEF Grant, Grants, GrantsFor, Approvals, GrantScope
<1>4. Granted(b, i, g, decision) = [approvals |-> b.approvals, grants |-> Extended(b.grants, g, v)]
  BY BookParts DEF Granted
<1> HIDE DEF v
<1>5. IsTable(Extended(b.grants, g, v), n.grants, GrantsFor(C))
  BY <1>1, <1>3, ExtendedTable
<1> QED BY <1>1, <1>4, <1>5, BookOfTables

\* and uses.
LEMMA ConsumedTyped ==
  ASSUME NEW C, NEW n, NEW b \in BookSet(C, n), NEW g
  PROVE  Consumed(b, g) \in BookSet(C, n)
<1> DEFINE G == [b.grants EXCEPT ![g].consumed = TRUE]
<1>1. CASE b.grants[g].scope = "one_time"
  <2>1. Consumed(b, g) = [approvals |-> b.approvals, grants |-> G]
    <3>1. Consumed(b, g) = [b EXCEPT !.grants = G]
      BY <1>1 DEF Consumed
    <3>2. b = [approvals |-> b.approvals, grants |-> b.grants]
      BY BookParts
    <3> HIDE DEF G
    <3> QED BY <3>1, <3>2
  <2>2. IsTable(b.approvals, n.approvals, Approvals) /\ IsTable(b.grants, n.grants, GrantsFor(C))
    BY BookParts
  <2>3. DOMAIN G = DOMAIN b.grants /\ G = [h \in DOMAIN G |-> G[h]]
    BY <2>2 DEF IsTable
  <2>4. \A h \in DOMAIN G : G[h] \in GrantsFor(C)
    BY <2>2 DEF Grants, GrantsFor, IsTable
  <2> HIDE DEF G
  <2>5. IsTable(G, n.grants, GrantsFor(C))
    BY <2>2, <2>3, <2>4 DEF IsTable
  <2> QED BY <2>1, <2>2, <2>5, BookOfTables
<1>2. CASE b.grants[g].scope # "one_time"
  BY <1>2 DEF Consumed
<1> QED BY <1>1, <1>2

\* The books that a loop of cancellations saves, one after the other.
LEMMA CancellationsTyped ==
  ASSUME NEW C, NEW n \in [approvals : Nat, grants : Nat], NEW b \in BookSet(C, n),
         NEW ids \in SUBSET DOMAIN b.approvals
  PROVE  Cancellations(b, ids) \in Seq(BookSet(C, n))
<1>1. IsFiniteSet(1 .. n.approvals)
  BY FS_Interval
<1>2. ids \subseteq 1 .. n.approvals
  BY BookParts DEF IsTable
<1>3. Cardinality(ids) \in Nat
  BY <1>1, <1>2, FS_Subset, FS_CardinalityType
<1> DEFINE Canc(k) == Canceled(b, {i \in ids : Cardinality({j \in ids : j < i}) < k})
<1>4. Cancellations(b, ids) = [k \in 1 .. Cardinality(ids) |-> Canc(k)]
  BY DEF Cancellations
<1>5. \A k \in 1 .. Cardinality(ids) : Canc(k) \in BookSet(C, n)
  BY CanceledTyped
<1> HIDE DEF Canc
<1> QED BY <1>3, <1>4, <1>5

\* What is looked up is in the books.
LEMMA PendingAreRows ==
  ASSUME NEW b
  PROVE  /\ \A S : InContexts(b, S) \in SUBSET DOMAIN b.approvals
         /\ \A m : OfMember(b, m) \in SUBSET DOMAIN b.approvals
  BY DEF InContexts, OfMember, Pending

-----------------------------------------------------------------------------
(* Reading, writing, failing.                                              *)

\* A save has a statement for each row of its books.
LEMMA StatementsTyped ==
  ASSUME NEW C, NEW n, NEW b \in BookSet(C, n)
  PROVE  /\ SaveStatements(b) \in Statements(n)
         /\ SaveStatements(b) # NoStatements
         /\ SaveStatements(b).approvals = DOMAIN b.approvals
         /\ SaveStatements(b).grants = DOMAIN b.grants
         /\ NoStatements \in Statements(n)
<1>1. DOMAIN b.approvals \subseteq 1 .. n.approvals /\ DOMAIN b.grants \subseteq 1 .. n.grants
  BY BookParts DEF IsTable
<1> QED BY <1>1 DEF SaveStatements, Statements, NoStatements

\* The next save begins, or there is none.
LEMMA SavingTyped ==
  ASSUME NEW C, NEW n, WritesTyped(C, n),
         NEW c \in Callers, NEW bs \in Seq(BookSet(C, n)), Saving(c, bs)
  PROVE  WritesTyped(C, n)'
<1>1. CASE bs = <<>>
  <2>1. /\ pc' = [pc EXCEPT ![c] = AfterSaves(c)] /\ snap' = snap
        /\ saves' = [saves EXCEPT ![c] = <<>>] /\ left' = [left EXCEPT ![c] = NoStatements]
    BY <1>1 DEF Saving
  <2>2. AfterSaves(c) \in {"checking", "returning"}
    BY DEF AfterSaves
  <2>3. NoStatements \in Statements(n) /\ NoStatements.approvals = {} /\ NoStatements.grants = {}
    BY DEF NoStatements, Statements
  <2>4. <<>> \in Seq(BookSet(C, n))
    BY EmptySeq
  <2> HIDE DEF NoStatements
  <2> QED BY <2>1, <2>2, <2>3, <2>4 DEF WritesTyped
<1>2. CASE bs # <<>>
  <2> DEFINE b == Head(bs)
  <2>1. b \in BookSet(C, n) /\ Tail(bs) \in Seq(BookSet(C, n))
    BY <1>2
  <2> HIDE DEF b
  <2>2. /\ pc' = [pc EXCEPT ![c] = "writing"] /\ snap' = [snap EXCEPT ![c] = b]
        /\ saves' = [saves EXCEPT ![c] = Tail(bs)] /\ left' = [left EXCEPT ![c] = SaveStatements(b)]
    BY <1>2 DEF Saving, b
  <2>3. /\ SaveStatements(b) \in Statements(n)
        /\ SaveStatements(b) # NoStatements
        /\ SaveStatements(b).approvals = DOMAIN b.approvals
        /\ SaveStatements(b).grants = DOMAIN b.grants
    BY <2>1, StatementsTyped
  <2> QED BY <2>1, <2>2, <2>3 DEF WritesTyped
<1> QED BY <1>1, <1>2

\* What is to be written fits when more ids are issued.
LEMMA MoreWrites ==
  ASSUME NEW C, NEW D, C \subseteq D,
         NEW n \in [approvals : Nat, grants : Nat], NEW m \in [approvals : Nat, grants : Nat],
         n.approvals <= m.approvals, n.grants <= m.grants,
         WritesTyped(C, n)
  PROVE  WritesTyped(D, m)
<1>1. BookSet(C, n) \subseteq BookSet(D, m)
  BY MoreBooks
<1>2. Statements(n) \subseteq Statements(m)
  <2>1. 1 .. n.approvals \subseteq 1 .. m.approvals /\ 1 .. n.grants \subseteq 1 .. m.grants
    OBVIOUS
  <2> QED BY <2>1 DEF Statements
<1>3. Seq(BookSet(C, n)) \subseteq Seq(BookSet(D, m))
  BY <1>1
<1> QED BY <1>1, <1>2, <1>3 DEF WritesTyped

\* So does what was read.
LEMMA MoreReads ==
  ASSUME NEW C, NEW D, C \subseteq D,
         NEW n \in [approvals : Nat, grants : Nat], NEW m \in [approvals : Nat, grants : Nat],
         n.approvals <= m.approvals, n.grants <= m.grants,
         ReadsTyped(C, n)
  PROVE  ReadsTyped(D, m)
<1>1. BookSet(C, n) \subseteq BookSet(D, m)
  BY MoreBooks
<1> QED BY <1>1 DEF ReadsTyped

\* The rows a caller decides on are books again.
LEMMA RowsTyped ==
  ASSUME NEW C, NEW n, ReadsTyped(C, n), NEW c \in Callers
  PROVE  Rows(c) \in BookSet(C, n)
<1>1. opened[c] \in BookSet(C, n) /\ tables \in BookSet(C, n)
  BY DEF ReadsTyped
<1>2. /\ opened[c] = [approvals |-> opened[c].approvals, grants |-> opened[c].grants]
      /\ IsTable(opened[c].approvals, n.approvals, Approvals)
      /\ IsTable(tables.grants, n.grants, GrantsFor(C))
  BY <1>1, BookParts
<1>3. Rows(c) = [approvals |-> opened[c].approvals, grants |-> tables.grants]
  BY <1>2 DEF Rows
<1> QED BY <1>2, <1>3, BookOfTables

LEMMA FailsTyped ==
  ASSUME IInv, NEW c \in Callers, Fails(c),
         UNCHANGED <<tables, ended, hooks, issued, consented, calls, crashes>>
  PROVE  IInv'
<1>1. NoBooks \in BookSet(consented, issued)
  BY NoBooksTyped
<1>2. NoStatements \in Statements(issued) /\ NoStatements.approvals = {} /\ NoStatements.grants = {}
  BY DEF NoStatements, Statements
<1>3. <<>> \in Seq(BookSet(consented, issued))
  BY EmptySeq
<1>4. ReadsTyped(consented, issued)'
  BY <1>1 DEF IInv, ReadsTyped, Fails
<1>5. WritesTyped(consented, issued)'
  BY <1>1, <1>2, <1>3 DEF IInv, WritesTyped, Fails
<1>6. OpsTyped(consented)'
  BY DEF IInv, OpsTyped, Fails, Idle
<1>7. RunsTyped' /\ IssuedTyped' /\ BoundsTyped' /\ consented' \subseteq Calls
  BY DEF IInv, RunsTyped, IssuedTyped, BoundsTyped, Fails
<1> QED BY <1>4, <1>5, <1>6, <1>7 DEF IInv

\* A caller has read its rows and saves what it has decided.
LEMMA DecidedTyped ==
  ASSUME IInv, NEW c \in Callers, NEW kind, Opens(c, kind),
         NEW bs \in Seq(BookSet(consented', issued')), Saving(c, bs),
         consented \subseteq consented', consented' \subseteq Calls,
         IssuedTyped', issued.approvals <= issued'.approvals, issued.grants <= issued'.grants,
         OpsTyped(consented)',
         UNCHANGED <<tables, ended, hooks, toCheck, calls, crashes>>
  PROVE  IInv'
<1> DEFINE C == consented'
           n == issued'
<1>1. issued \in [approvals : Nat, grants : Nat] /\ n \in [approvals : Nat, grants : Nat]
  BY DEF IInv, IssuedTyped
<1>2. ReadsTyped(C, n)
  BY <1>1, MoreReads DEF IInv
<1>3. WritesTyped(C, n)
  BY <1>1, MoreWrites DEF IInv
<1>4. Rows(c) \in BookSet(C, n)
  BY <1>2, RowsTyped
<1>5. ReadsTyped(consented, issued)'
  BY <1>2, <1>4 DEF ReadsTyped, Opens
<1>6. WritesTyped(consented, issued)'
  <2> HIDE DEF C, n
  <2>1. bs \in Seq(BookSet(C, n))
    BY DEF C, n
  <2> QED BY <1>3, <2>1, SavingTyped DEF WritesTyped, C, n
<1>7. RunsTyped' /\ BoundsTyped'
  BY DEF IInv, RunsTyped, BoundsTyped
<1> QED BY <1>5, <1>6, <1>7 DEF IInv

-----------------------------------------------------------------------------
(* The actions.                                                            *)

LEMMA BeginTyped ==
  ASSUME IInv, NEW c \in Callers, NEW o, Begin(c, o), hooks' \subseteq hooks,
         o.kind = "toolCall" => o.call \in Calls, o.kind # "allowed"
  PROVE  IInv'
<1>1. ReadsTyped(consented, issued)'
  <2>1. tables \in BookSet(consented, issued)
    BY DEF IInv, ReadsTyped
  <2>2. [tables EXCEPT !.grants = <<>>] = [approvals |-> tables.approvals, grants |-> <<>>]
    BY <2>1, BookParts
  <2>3. [tables EXCEPT !.grants = <<>>] \in BookSet(consented, issued)
    BY <2>1, <2>2, BookParts, EmptyTable, BookOfTables
  <2> QED BY <2>3 DEF Begin, IInv, ReadsTyped, history
<1>2. WritesTyped(consented, issued)'
  BY DEF Begin, IInv, WritesTyped, history
<1>3. OpsTyped(consented)'
  BY DEF Begin, IInv, OpsTyped, history
<1>4. RunsTyped' /\ IssuedTyped' /\ consented' \subseteq Calls
  BY DEF Begin, IInv, RunsTyped, IssuedTyped, history
<1>5. BoundsTyped'
  BY BoundsAssumption DEF Begin, IInv, BoundsTyped
<1> QED BY <1>1, <1>2, <1>3, <1>4, <1>5 DEF IInv

\* A grant that lets a call through is one for an approved call.
LEMMA AllowCallTyped ==
  ASSUME IInv, NEW c \in Callers, AllowCall(c)
  PROVE  IInv'
<1> DEFINE g == FirstMatch(Rows(c), op[c].call)
           b == Consumed(Rows(c), g)
           bs == IF b = Rows(c) THEN <<>> ELSE <<b>>
<1>1. Rows(c) \in BookSet(consented, issued)
  BY RowsTyped DEF IInv
<1>2. op[c].call \in consented
  <2>1. PICK h \in Matching(Rows(c), op[c].call) : TRUE
    BY DEF AllowCall, IsGranted
  <2>2. h \in DOMAIN Rows(c).grants /\ Rows(c).grants[h].call = op[c].call
    BY <2>1 DEF Matching, Covers
  <2>3. IsTable(Rows(c).grants, issued.grants, GrantsFor(consented))
    BY <1>1, BookParts
  <2> QED BY <2>2, <2>3 DEF IsTable, GrantsFor
<1>3. b \in BookSet(consented, issued)
  BY <1>1, ConsumedTyped
<1>4. op' = [op EXCEPT ![c] = [kind |-> "allowed", call |-> @.call, grant |-> g]]
  BY DEF AllowCall
<1>5. Saving(c, bs)
  BY DEF AllowCall
<1>6. OpsTyped(consented)'
  <2> HIDE DEF g
  <2> QED BY <1>2, <1>4 DEF IInv, OpsTyped, AllowCall, history
<1>7. bs \in Seq(BookSet(consented', issued'))
  <2>1. consented' = consented /\ issued' = issued
    BY DEF AllowCall, history
  <2> HIDE DEF b
  <2> QED BY <1>3, <2>1, EmptySeq
<1>8. IssuedTyped' /\ issued.approvals <= issued'.approvals /\ issued.grants <= issued'.grants
  BY DEF IInv, IssuedTyped, AllowCall, history
<1>9. /\ consented \subseteq consented' /\ consented' \subseteq Calls
      /\ UNCHANGED <<tables, ended, hooks, toCheck, calls, crashes>>
      /\ Opens(c, "toolCall")
  BY DEF IInv, AllowCall, history
<1> HIDE DEF bs
<1> QED BY <1>5, <1>6, <1>7, <1>8, <1>9, DecidedTyped

\* The other calls that approve nothing: op and the history stay as they are.
LEMMA UnapprovedTyped ==
  ASSUME IInv, NEW c \in Callers, NEW kind, Opens(c, kind),
         NEW bs \in Seq(BookSet(consented, issued)), Saving(c, bs),
         UNCHANGED <<tables, ended, hooks, op, toCheck, history, calls, crashes>>
  PROVE  IInv'
<1>1. consented' = consented /\ issued' = issued
  BY DEF history
<1>2. OpsTyped(consented)'
  BY <1>1 DEF IInv, OpsTyped
<1>3. IssuedTyped' /\ issued.approvals <= issued'.approvals /\ issued.grants <= issued'.grants
  BY <1>1 DEF IInv, IssuedTyped
<1>4. bs \in Seq(BookSet(consented', issued'))
  BY <1>1
<1>5. consented \subseteq consented' /\ consented' \subseteq Calls
  BY <1>1 DEF IInv
<1> QED BY <1>2, <1>3, <1>4, <1>5, DecidedTyped

LEMMA BlockCallTyped ==
  ASSUME IInv, NEW c \in Callers, BlockCall(c)
  PROVE  IInv'
<1>1. <<>> \in Seq(BookSet(consented, issued))
  BY EmptySeq
<1> QED BY <1>1, UnapprovedTyped DEF BlockCall

LEMMA RejectTyped ==
  ASSUME IInv, NEW c \in Callers, Reject(c)
  PROVE  IInv'
<1>1. Rows(c) \in BookSet(consented, issued)
  BY RowsTyped DEF IInv
<1>2. Resolved(Rows(c), op[c].id, "reject") \in BookSet(consented, issued)
  BY <1>1, ResolvedTyped DEF Reject
<1>3. <<Resolved(Rows(c), op[c].id, "reject")>> \in Seq(BookSet(consented, issued))
  BY <1>2
<1> QED BY <1>3, UnapprovedTyped DEF Reject

LEMMA CancelForRunTyped ==
  ASSUME IInv, NEW c \in Callers, CancelForRun(c)
  PROVE  IInv'
<1> DEFINE bs == Cancellations(Rows(c), InContexts(Rows(c), {op[c].context}))
<1>1. Rows(c) \in BookSet(consented, issued)
  BY RowsTyped DEF IInv
<1>2. bs \in Seq(BookSet(consented, issued))
  BY <1>1, CancellationsTyped, PendingAreRows DEF IInv, IssuedTyped
<1>3. /\ Opens(c, "runEnded") /\ Saving(c, bs)
      /\ UNCHANGED <<tables, ended, hooks, op, toCheck, history, calls, crashes>>
  BY DEF CancelForRun
<1> HIDE DEF bs
<1> QED BY <1>2, <1>3, UnapprovedTyped

LEMMA DeactivateMemberTyped ==
  ASSUME IInv, NEW c \in Callers, DeactivateMember(c)
  PROVE  IInv'
<1> DEFINE m == op[c].member
           ids == OfMember(Rows(c), m)
           last == Revoked(Canceled(Rows(c), ids), m)
           bs == Append(Cancellations(Rows(c), ids), last)
<1>1. Rows(c) \in BookSet(consented, issued)
  BY RowsTyped DEF IInv
<1>2. Cancellations(Rows(c), ids) \in Seq(BookSet(consented, issued))
  BY <1>1, CancellationsTyped, PendingAreRows DEF IInv, IssuedTyped
<1>3. last \in BookSet(consented, issued)
  BY <1>1, CanceledTyped, RevokedTyped
<1>4. /\ Opens(c, "deactivate") /\ Saving(c, bs)
      /\ UNCHANGED <<tables, ended, hooks, op, toCheck, history, calls, crashes>>
  BY DEF DeactivateMember
<1> HIDE DEF last, ids
<1>5. bs \in Seq(BookSet(consented, issued))
  BY <1>2, <1>3, AppendProperties
<1> HIDE DEF bs
<1> QED BY <1>4, <1>5, UnapprovedTyped

LEMMA RequestApprovalTyped ==
  ASSUME IInv, NEW c \in Callers, RequestApproval(c)
  PROVE  IInv'
<1> DEFINE i == issued.approvals + 1
<1>1. /\ issued' = [issued EXCEPT !.approvals = i] /\ i \in ApprovalIds
      /\ consented' = consented
      /\ Opens(c, "toolCall") /\ Saving(c, <<Requested(Rows(c), i, op[c].call)>>)
      /\ UNCHANGED <<tables, ended, hooks, op, toCheck, calls, crashes>>
  BY DEF RequestApproval
<1>2. issued \in [approvals : Nat, grants : Nat]
  BY DEF IInv, IssuedTyped
<1>3. /\ issued' \in [approvals : Nat, grants : Nat] /\ i \in 1 .. issued'.approvals
      /\ issued.approvals <= issued'.approvals /\ issued.grants <= issued'.grants
  BY <1>1, <1>2
<1>4. IssuedTyped'
  <2>1. 1 .. issued'.approvals = 1 .. issued.approvals \cup {i} /\ issued'.grants = issued.grants
    BY <1>1, <1>2
  <2> QED BY <1>1, <1>3, <2>1 DEF IInv, IssuedTyped
<1>5. Rows(c) \in BookSet(consented', issued')
  BY <1>1, <1>2, <1>3, MoreReads, RowsTyped DEF IInv
<1>6. op[c].call \in Calls
  BY <1>1 DEF IInv, OpsTyped, Opens
<1>7. Requested(Rows(c), i, op[c].call) \in BookSet(consented', issued')
  BY <1>3, <1>5, <1>6, RequestedTyped
<1>8. <<Requested(Rows(c), i, op[c].call)>> \in Seq(BookSet(consented', issued'))
  BY <1>7
<1>9. /\ OpsTyped(consented)'
      /\ consented \subseteq consented' /\ consented' \subseteq Calls
  BY <1>1 DEF IInv, OpsTyped
<1> QED BY <1>1, <1>3, <1>4, <1>8, <1>9, DecidedTyped

\* Only here a call becomes an approved one, and the grant is for that call.
LEMMA ApproveTyped ==
  ASSUME IInv, NEW c \in Callers, Approve(c)
  PROVE  IInv'
<1> DEFINE id == op[c].id
           g == issued.grants + 1
           b == Resolved(Rows(c), id, op[c].decision)
           d == Granted(b, id, g, op[c].decision)
<1>1. /\ issued' = [issued EXCEPT !.grants = g] /\ g \in GrantIds
      /\ id \in DOMAIN Rows(c).approvals
      /\ consented' = consented \cup {Rows(c).approvals[id].call}
      /\ Opens(c, "resolve") /\ Saving(c, <<b, d>>)
      /\ UNCHANGED <<tables, ended, hooks, op, toCheck, calls, crashes>>
  BY DEF Approve
<1>2. issued \in [approvals : Nat, grants : Nat]
  BY DEF IInv, IssuedTyped
<1>3. /\ issued' \in [approvals : Nat, grants : Nat] /\ g \in 1 .. issued'.grants
      /\ issued.approvals <= issued'.approvals /\ issued.grants <= issued'.grants
  BY <1>1, <1>2
<1>4. IssuedTyped'
  <2>1. 1 .. issued'.grants = 1 .. issued.grants \cup {g} /\ issued'.approvals = issued.approvals
    BY <1>1, <1>2
  <2> QED BY <1>1, <1>3, <2>1 DEF IInv, IssuedTyped
<1>5. Rows(c) \in BookSet(consented', issued')
  BY <1>1, <1>2, <1>3, MoreReads, RowsTyped DEF IInv
<1>6. /\ id \in ApprovalIds
      /\ Rows(c).approvals[id].call \in Calls
  <2>1. IsTable(Rows(c).approvals, issued'.approvals, Approvals)
    BY <1>5, BookParts
  <2> QED BY <1>1, <1>4, <2>1 DEF IsTable, IssuedTyped, Approvals
<1>7. /\ b \in BookSet(consented', issued')
      /\ DOMAIN b.approvals = DOMAIN Rows(c).approvals
      /\ b.approvals[id].call = Rows(c).approvals[id].call
  BY <1>1, <1>5, ResolvedTyped
<1>8. d \in BookSet(consented', issued')
  <2> HIDE DEF b, id, g
  <2>1. id \in DOMAIN b.approvals /\ b.approvals[id].call \in consented'
    BY <1>1, <1>7
  <2> QED BY <1>3, <1>6, <1>7, <2>1, GrantedTyped DEF d
<1>9. <<b, d>> \in Seq(BookSet(consented', issued'))
  <2> HIDE DEF b, d
  <2> QED BY <1>7, <1>8
<1>10. /\ consented \subseteq consented' /\ consented' \subseteq Calls
       /\ OpsTyped(consented)'
  BY <1>1, <1>6 DEF IInv, OpsTyped
<1> HIDE DEF b, d
<1> QED BY <1>1, <1>3, <1>4, <1>9, <1>10, DecidedTyped

LEMMA StartListTyped ==
  ASSUME IInv, NEW c \in Callers, StartList(c)
  PROVE  IInv'
<1>1. Rows(c) \in BookSet(consented, issued)
  BY RowsTyped DEF IInv
<1>2. /\ pc[c] = "reading" /\ opened' = [opened EXCEPT ![c] = Rows(c)]
      /\ toCheck' = [toCheck EXCEPT ![c] = RunsToCheck(Rows(c))]
      /\ snap' = [snap EXCEPT ![c] = Rows(c)]
      /\ pc' = [pc EXCEPT ![c] = "checking"]
      /\ UNCHANGED <<tables, ended, hooks, op, saves, left, issued, consented, calls, crashes>>
  BY DEF StartList, Opens, history
<1>3. ReadsTyped(consented, issued)'
  BY <1>1, <1>2 DEF IInv, ReadsTyped
<1>4. WritesTyped(consented, issued)'
  <2>1. left[c].approvals = {} /\ left[c].grants = {} /\ left[c] = NoStatements
    BY <1>2 DEF IInv, WritesTyped, NoStatements
  <2> QED BY <1>1, <1>2, <2>1 DEF IInv, WritesTyped
<1>5. RunsToCheck(Rows(c)) \in SUBSET Runs
  BY DEF RunsToCheck
<1>6. RunsTyped'
  BY <1>2, <1>5 DEF IInv, RunsTyped
<1>7. OpsTyped(consented)' /\ IssuedTyped' /\ BoundsTyped' /\ consented' \subseteq Calls
  BY <1>2 DEF IInv, OpsTyped, IssuedTyped, BoundsTyped
<1> QED BY <1>3, <1>4, <1>6, <1>7 DEF IInv

LEMMA CheckRunTyped ==
  ASSUME IInv, NEW c \in Callers, NEW r \in Runs, CheckRun(c, r)
  PROVE  IInv'
<1> DEFINE bs == IF r \in ended THEN Cancellations(snap[c], InContexts(snap[c], {r})) ELSE <<>>
<1>1. /\ toCheck' = [toCheck EXCEPT ![c] = @ \ {r}]
      /\ Saving(c, bs)
      /\ UNCHANGED <<tables, ended, hooks, op, opened, issued, consented, calls, crashes>>
  BY DEF CheckRun, history
<1>2. snap[c] \in BookSet(consented, issued)
  BY DEF IInv, WritesTyped
<1>3. bs \in Seq(BookSet(consented, issued))
  BY <1>2, CancellationsTyped, PendingAreRows, EmptySeq DEF IInv, IssuedTyped
<1> HIDE DEF bs
<1>4. WritesTyped(consented, issued)'
  BY <1>1, <1>3, SavingTyped DEF IInv, WritesTyped
<1>5. ReadsTyped(consented, issued)' /\ RunsTyped'
  BY <1>1 DEF IInv, ReadsTyped, RunsTyped
<1>6. OpsTyped(consented)' /\ IssuedTyped' /\ BoundsTyped' /\ consented' \subseteq Calls
  BY <1>1 DEF IInv, OpsTyped, IssuedTyped, BoundsTyped
<1> QED BY <1>4, <1>5, <1>6 DEF IInv

LEMMA ListIsDoneTyped ==
  ASSUME IInv, NEW c \in Callers, ListIsDone(c)
  PROVE  IInv'
<1>1. WritesTyped(consented, issued)'
  BY DEF ListIsDone, history, IInv, WritesTyped
<1>2. ReadsTyped(consented, issued)' /\ RunsTyped'
  BY DEF ListIsDone, history, IInv, ReadsTyped, RunsTyped
<1>3. OpsTyped(consented)' /\ IssuedTyped' /\ BoundsTyped' /\ consented' \subseteq Calls
  BY DEF ListIsDone, history, IInv, OpsTyped, IssuedTyped, BoundsTyped
<1> QED BY <1>1, <1>2, <1>3 DEF IInv

\* A statement of a save has run.
LEMMA RanTyped ==
  ASSUME IInv, NEW c \in Callers, left[c] # NoStatements,
         NEW rest \in Statements(issued), Ran(c, rest),
         rest.approvals \subseteq left[c].approvals, rest.grants \subseteq left[c].grants,
         tables' \in BookSet(consented, issued)
  PROVE  IInv'
<1>1. /\ consented' = consented /\ issued' = issued
      /\ UNCHANGED <<ended, hooks, op, opened, toCheck, calls, crashes>>
  BY DEF Ran, history
<1>2. WritesTyped(consented, issued)'
  <2>1. CASE rest = NoStatements
    <3>1. saves[c] \in Seq(BookSet(consented, issued)) /\ Saving(c, saves[c])
      BY <2>1 DEF IInv, WritesTyped, Ran
    <3> QED BY <1>1, <3>1, SavingTyped DEF IInv, WritesTyped
  <2>2. CASE rest # NoStatements
    <3>1. left' = [left EXCEPT ![c] = rest] /\ UNCHANGED <<pc, snap, saves>>
      BY <2>2 DEF Ran
    <3> QED BY <1>1, <2>2, <3>1 DEF IInv, WritesTyped
  <2> QED BY <2>1, <2>2
<1>3. ReadsTyped(consented, issued)' /\ RunsTyped'
  BY <1>1 DEF IInv, ReadsTyped, RunsTyped
<1>4. OpsTyped(consented)' /\ IssuedTyped' /\ BoundsTyped' /\ consented' \subseteq Calls
  BY <1>1 DEF IInv, OpsTyped, IssuedTyped, BoundsTyped
<1> QED BY <1>2, <1>3, <1>4 DEF IInv

LEMMA DeleteGrantsTyped ==
  ASSUME IInv, NEW c \in Callers, DeleteGrants(c)
  PROVE  IInv'
<1> DEFINE rest == [left[c] EXCEPT !.deletes = 1]
<1>1. left[c].deletes = 2 /\ tables' = [tables EXCEPT !.grants = <<>>] /\ Ran(c, rest)
  BY DEF DeleteGrants
<1>2. left[c] \in Statements(issued) /\ left[c] # NoStatements
  BY <1>1 DEF IInv, WritesTyped, NoStatements
<1>3. /\ rest \in Statements(issued)
      /\ rest.approvals = left[c].approvals /\ rest.grants = left[c].grants
  BY <1>2 DEF Statements
<1>4. tables' \in BookSet(consented, issued)
  <2>1. tables \in BookSet(consented, issued)
    BY DEF IInv, ReadsTyped
  <2>2. tables' = [approvals |-> tables.approvals, grants |-> <<>>]
    BY <1>1, <2>1, BookParts
  <2> QED BY <2>1, <2>2, BookParts, EmptyTable, BookOfTables
<1> HIDE DEF rest
<1> QED BY <1>1, <1>2, <1>3, <1>4, RanTyped

LEMMA DeleteApprovalsTyped ==
  ASSUME IInv, NEW c \in Callers, DeleteApprovals(c)
  PROVE  IInv'
<1> DEFINE rest == [left[c] EXCEPT !.deletes = 0]
<1>1. left[c].deletes = 1 /\ tables' = NoBooks /\ Ran(c, rest)
  BY DEF DeleteApprovals
<1>2. left[c] \in Statements(issued) /\ left[c] # NoStatements
  BY <1>1 DEF IInv, WritesTyped, NoStatements
<1>3. /\ rest \in Statements(issued)
      /\ rest.approvals = left[c].approvals /\ rest.grants = left[c].grants
  BY <1>2 DEF Statements
<1>4. tables' \in BookSet(consented, issued)
  BY <1>1, NoBooksTyped
<1> HIDE DEF rest
<1> QED BY <1>1, <1>2, <1>3, <1>4, RanTyped

LEMMA UpsertApprovalTyped ==
  ASSUME IInv, NEW c \in Callers, NEW i, UpsertApproval(c, i)
  PROVE  IInv'
<1> DEFINE v == snap[c].approvals[i]
           rest == [left[c] EXCEPT !.approvals = @ \ {i}]
<1>1. /\ i \in left[c].approvals /\ Ran(c, rest)
      /\ tables' = [tables EXCEPT !.approvals = Extended(@, i, v)]
  BY DEF UpsertApproval, IsLeast
<1>2. left[c] \in Statements(issued) /\ left[c] # NoStatements
  BY <1>1 DEF IInv, WritesTyped, NoStatements
<1>3. /\ rest \in Statements(issued)
      /\ rest.approvals \subseteq left[c].approvals /\ rest.grants = left[c].grants
  BY <1>2 DEF Statements
<1>4. IsTable(snap[c].approvals, issued.approvals, Approvals) /\ i \in DOMAIN snap[c].approvals
  BY <1>1, BookParts DEF IInv, WritesTyped
<1>5. v \in Approvals /\ i \in 1 .. issued.approvals
  BY <1>4 DEF IsTable
<1> HIDE DEF v, rest
<1>6. tables' \in BookSet(consented, issued)
  <2>1. /\ tables = [approvals |-> tables.approvals, grants |-> tables.grants]
        /\ IsTable(tables.approvals, issued.approvals, Approvals)
        /\ IsTable(tables.grants, issued.grants, GrantsFor(consented))
    BY BookParts DEF IInv, ReadsTyped
  <2>2. IsTable(Extended(tables.approvals, i, v), issued.approvals, Approvals)
    BY <1>5, <2>1, ExtendedTable
  <2>3. tables' = [approvals |-> Extended(tables.approvals, i, v), grants |-> tables.grants]
    BY <1>1, <2>1
  <2> QED BY <2>1, <2>2, <2>3, BookOfTables
<1> QED BY <1>1, <1>2, <1>3, <1>6, RanTyped

LEMMA UpsertGrantTyped ==
  ASSUME IInv, NEW c \in Callers, NEW g, UpsertGrant(c, g)
  PROVE  IInv'
<1> DEFINE v == snap[c].grants[g]
           rest == [left[c] EXCEPT !.grants = @ \ {g}]
<1>1. /\ g \in left[c].grants /\ Ran(c, rest)
      /\ tables' = [tables EXCEPT !.grants = Extended(@, g, v)]
  BY DEF UpsertGrant, NextGrant, IsLeast
<1>2. left[c] \in Statements(issued) /\ left[c] # NoStatements
  BY <1>1 DEF IInv, WritesTyped, NoStatements
<1>3. /\ rest \in Statements(issued)
      /\ rest.approvals = left[c].approvals /\ rest.grants \subseteq left[c].grants
  BY <1>2 DEF Statements
<1>4. IsTable(snap[c].grants, issued.grants, GrantsFor(consented)) /\ g \in DOMAIN snap[c].grants
  BY <1>1, BookParts DEF IInv, WritesTyped
<1>5. v \in GrantsFor(consented) /\ g \in 1 .. issued.grants
  BY <1>4 DEF IsTable
<1> HIDE DEF v, rest
<1>6. tables' \in BookSet(consented, issued)
  <2>1. /\ tables = [approvals |-> tables.approvals, grants |-> tables.grants]
        /\ IsTable(tables.approvals, issued.approvals, Approvals)
        /\ IsTable(tables.grants, issued.grants, GrantsFor(consented))
    BY BookParts DEF IInv, ReadsTyped
  <2>2. IsTable(Extended(tables.grants, g, v), issued.grants, GrantsFor(consented))
    BY <1>5, <2>1, ExtendedTable
  <2>3. tables' = [approvals |-> tables.approvals, grants |-> Extended(tables.grants, g, v)]
    BY <1>1, <2>1
  <2> QED BY <2>1, <2>2, <2>3, BookOfTables
<1> QED BY <1>1, <1>2, <1>3, <1>6, RanTyped

LEMMA EndRunTyped ==
  ASSUME IInv, NEW r \in Runs, EndRun(r)
  PROVE  IInv'
<1>1. /\ ended' = ended \cup {r} /\ hooks' = hooks \cup {r}
      /\ UNCHANGED <<tables, pc, op, opened, snap, saves, left, toCheck, issued, consented, calls, crashes>>
  BY DEF EndRun, local, history
<1>2. ReadsTyped(consented, issued)' /\ WritesTyped(consented, issued)'
  BY <1>1 DEF IInv, ReadsTyped, WritesTyped
<1>3. RunsTyped' /\ OpsTyped(consented)' /\ IssuedTyped' /\ BoundsTyped' /\ consented' \subseteq Calls
  BY <1>1 DEF IInv, RunsTyped, OpsTyped, IssuedTyped, BoundsTyped
<1> QED BY <1>2, <1>3 DEF IInv

LEMMA CrashTyped ==
  ASSUME IInv, Crash
  PROVE  IInv'
<1>1. NoBooks \in BookSet(consented, issued)
  BY NoBooksTyped
<1>2. NoStatements \in Statements(issued) /\ NoStatements.approvals = {} /\ NoStatements.grants = {}
  BY DEF NoStatements, Statements
<1>3. <<>> \in Seq(BookSet(consented, issued))
  BY EmptySeq
<1>4. ReadsTyped(consented, issued)' /\ WritesTyped(consented, issued)'
  BY <1>1, <1>2, <1>3 DEF IInv, ReadsTyped, WritesTyped, Crash, history
<1>5. OpsTyped(consented)' /\ RunsTyped'
  BY DEF IInv, OpsTyped, RunsTyped, Crash, Idle, history
<1>6. IssuedTyped' /\ consented' \subseteq Calls
  BY DEF IInv, IssuedTyped, Crash, history
<1>7. BoundsTyped'
  BY BoundsAssumption DEF IInv, BoundsTyped, Crash
<1> QED BY <1>4, <1>5, <1>6, <1>7 DEF IInv

-----------------------------------------------------------------------------
(* The invariant.                                                          *)

\* Empty tables and callers at rest.
LEMMA InitIInv == Init => IInv
<1> SUFFICES ASSUME Init PROVE IInv
  OBVIOUS
<1>1. NoBooks \in BookSet(consented, issued)
  BY NoBooksTyped
<1>2. NoStatements \in Statements(issued) /\ NoStatements.approvals = {} /\ NoStatements.grants = {}
  BY DEF NoStatements, Statements
<1>3. <<>> \in Seq(BookSet(consented, issued))
  BY EmptySeq
<1>4. ReadsTyped(consented, issued) /\ WritesTyped(consented, issued)
  BY <1>1, <1>2, <1>3 DEF Init, ReadsTyped, WritesTyped
<1>5. OpsTyped(consented) /\ RunsTyped /\ consented \subseteq Calls
  BY DEF Init, OpsTyped, RunsTyped, Idle
<1>6. IssuedTyped
  BY DEF Init, IssuedTyped
<1>7. BoundsTyped
  BY BoundsAssumption DEF Init, BoundsTyped
<1> QED BY <1>4, <1>5, <1>6, <1>7 DEF IInv

\* The invariant is inductive.
LEMMA NextIInv == IInv /\ [Next]_vars => IInv'
<1> SUFFICES ASSUME IInv, [Next]_vars PROVE IInv'
  OBVIOUS
<1>1. ASSUME NEW c \in Callers, NEW call \in Calls, ToolCall(c, call) PROVE IInv'
  BY <1>1, BeginTyped DEF ToolCall
<1>2. ASSUME NEW c \in Callers, NEW i, NEW d, Decide(c, i, d) PROVE IInv'
  BY <1>2, BeginTyped DEF Decide
<1>3. ASSUME NEW c \in Callers, ListRequests(c) PROVE IInv'
  BY <1>3, BeginTyped DEF ListRequests
<1>4. ASSUME NEW c \in Callers, NEW r \in Runs, RunTerminalHook(c, r) PROVE IInv'
  BY <1>4, BeginTyped DEF RunTerminalHook
<1>5. ASSUME NEW c \in Callers, NEW m \in Members, Deactivate(c, m) PROVE IInv'
  BY <1>5, BeginTyped DEF Deactivate
<1>6. ASSUME NEW c \in Callers, ResolveUnknown(c) PROVE IInv'
  BY <1>6, FailsTyped DEF ResolveUnknown, history
<1>7. ASSUME NEW c \in Callers, NEW g, UpsertGrantFails(c, g) PROVE IInv'
  BY <1>7, FailsTyped DEF UpsertGrantFails, history
<1>8. ASSUME NEW c \in Callers, Return(c) PROVE IInv'
  BY <1>8, FailsTyped DEF Return
<1>9. CASE UNCHANGED vars
  <2>1. UNCHANGED <<tables, ended, hooks, pc, op, opened, snap, saves, left, toCheck,
                    issued, consented, calls, crashes>>
    BY <1>9 DEF vars, local, history
  <2> QED BY <2>1 DEF IInv, ReadsTyped, WritesTyped, OpsTyped, RunsTyped, IssuedTyped, BoundsTyped
<1>10. CASE Next
  BY <1>1, <1>2, <1>3, <1>4, <1>5, <1>6, <1>7, <1>8, <1>10,
     AllowCallTyped, BlockCallTyped, RequestApprovalTyped, RejectTyped, ApproveTyped,
     CancelForRunTyped, DeactivateMemberTyped, StartListTyped, CheckRunTyped, ListIsDoneTyped,
     DeleteGrantsTyped, DeleteApprovalsTyped, UpsertApprovalTyped, UpsertGrantTyped,
     EndRunTyped, CrashTyped
     DEF Next
<1> QED BY <1>9, <1>10

\* The invariant holds in every reachable state.
LEMMA SpecIInv == Spec => []IInv
  BY InitIInv, NextIInv, PTL DEF Spec

\* Types, and the tables and the snapshots hold rows with issued ids only: for
\* any callers, members, contexts, ids and bounds.
THEOREM TypeCorrect == Spec => []TypeOK
<1>1. IInv => TypeOK
  <2> SUFFICES ASSUME IInv PROVE TypeOK
    OBVIOUS
  <2>1. ASSUME NEW b \in BookSet(consented, issued) PROVE IsBooks(b)
    BY <2>1, BookParts DEF IsTable, IsBooks, GrantsFor
  <2>2. IsBooks(tables) /\ \A c \in Callers : IsBooks(snap[c]) /\ IsBooks(opened[c])
    BY <2>1 DEF IInv, ReadsTyped, WritesTyped
  <2>3. issued \in [approvals : ApprovalIds \cup {0}, grants : GrantIds \cup {0}]
    <3>1. issued.approvals = 0 \/ issued.approvals \in 1 .. issued.approvals
      BY DEF IInv, IssuedTyped
    <3>2. issued.grants = 0 \/ issued.grants \in 1 .. issued.grants
      BY DEF IInv, IssuedTyped
    <3> QED BY <3>1, <3>2 DEF IInv, IssuedTyped
  <2>4. \A c \in Callers :
          /\ pc[c] \in {"idle", "reading", "checking", "writing", "returning"}
          /\ pc[c] = "writing" <=> left[c] # NoStatements
    BY DEF IInv, WritesTyped
  <2>5. \A c \in Callers : toCheck[c] \subseteq Runs
    BY DEF IInv, RunsTyped
  <2> QED BY <2>2, <2>3, <2>4, <2>5 DEF TypeOK, IInv, RunsTyped, BoundsTyped
<1> QED BY <1>1, SpecIInv, PTL

\* Whatever calls overlap, whichever statements fail and however often the
\* process dies, a guarded call goes through only where somebody has approved
\* that member in that context (access-request-service.ts:177-191).
THEOREM AllowedCallsAreApproved == Spec => []AllowedCallWasApproved
<1>1. IInv => AllowedCallWasApproved
  BY DEF IInv, OpsTyped, AllowedCallWasApproved
<1> QED BY <1>1, SpecIInv, PTL

-----------------------------------------------------------------------------
(* Lists.                                                                  *)
(*                                                                         *)
(* ListShowsNoEndedRun is not inductive: what is to hold at the end is     *)
(* that the list has looked at every WorkRun that could show a card.  So   *)
(* every pending request of a WorkRun that had ended is, in the snapshot   *)
(* or in what the last save of a loop of cancellations will leave, one of  *)
(* a WorkRun that is still to be looked at.  The other callers do not      *)
(* matter: a list decides on its own snapshot.                             *)

Covered(b, E, S) ==
  \A i \in Pending(b) : b.approvals[i].call.context \in E => b.approvals[i].call.context \in S

\* The snapshot that the saves of caller c leave.
LastSaved(c) == IF saves[c] = <<>> THEN snap[c] ELSE saves[c][Len(saves[c])]

ListFits(c) ==
  op[c].kind = "list" =>
    /\ op[c].ended \subseteq ended
    /\ pc[c] = "checking" => Covered(snap[c], op[c].ended, toCheck[c])
    /\ pc[c] = "writing" => Covered(LastSaved(c), op[c].ended, toCheck[c])
    /\ pc[c] = "returning" => InContexts(snap[c], op[c].ended) = {}

ListInv == \A c \in Callers : ListFits(c)

\* The requests that are pending when some of them are canceled.
LEMMA PendingAfterCanceled ==
  ASSUME NEW C, NEW n, NEW b \in BookSet(C, n), NEW ids \in SUBSET DOMAIN b.approvals
  PROVE  /\ Pending(Canceled(b, ids)) = Pending(b) \ ids
         /\ \A i \in DOMAIN b.approvals :
              Canceled(b, ids).approvals[i].call = b.approvals[i].call
<1> DEFINE A == [i \in DOMAIN b.approvals |->
                   IF i \in ids THEN [b.approvals[i] EXCEPT !.status = "canceled"]
                                ELSE b.approvals[i]]
<1>1. Canceled(b, ids).approvals = A
  BY BookParts DEF Canceled
<1>2. \A i \in DOMAIN b.approvals : b.approvals[i] \in Approvals
  BY BookParts DEF IsTable
<1>3. \A i \in DOMAIN b.approvals :
        /\ A[i].call = b.approvals[i].call
        /\ A[i].status = IF i \in ids THEN "canceled" ELSE b.approvals[i].status
  BY <1>2 DEF Approvals
<1>4. DOMAIN A = DOMAIN b.approvals
  OBVIOUS
<1> HIDE DEF A
<1> QED BY <1>1, <1>3, <1>4 DEF Pending

\* One save for each canceled request: the last leaves them all canceled.
LEMMA LastCancellation ==
  ASSUME NEW C, NEW n \in [approvals : Nat, grants : Nat], NEW b \in BookSet(C, n),
         NEW ids \in SUBSET DOMAIN b.approvals
  PROVE  /\ Cancellations(b, ids) \in Seq(BookSet(C, n))
         /\ Cancellations(b, ids) = <<>> <=> ids = {}
         /\ ids # {} => /\ Len(Cancellations(b, ids)) \in Nat \ {0}
                        /\ Cancellations(b, ids)[Len(Cancellations(b, ids))] = Canceled(b, ids)
<1>1. IsFiniteSet(1 .. n.approvals)
  BY FS_Interval
<1>2. ids \subseteq 1 .. n.approvals
  BY BookParts DEF IsTable
<1>3. IsFiniteSet(ids) /\ Cardinality(ids) \in Nat
  BY <1>1, <1>2, FS_Subset, FS_CardinalityType
<1>4. Cardinality(ids) = 0 <=> ids = {}
  BY <1>3, FS_EmptySet
<1> DEFINE K == Cardinality(ids)
           Canc(k) == Canceled(b, {i \in ids : Cardinality({j \in ids : j < i}) < k})
<1>5. Cancellations(b, ids) = [k \in 1 .. K |-> Canc(k)]
  BY DEF Cancellations
<1>6. Cancellations(b, ids) \in Seq(BookSet(C, n))
  BY CancellationsTyped
<1>7. {i \in ids : Cardinality({j \in ids : j < i}) < K} = ids
  <2> SUFFICES ASSUME NEW i \in ids PROVE Cardinality({j \in ids : j < i}) < K
    OBVIOUS
  <2> DEFINE T == {j \in ids : j < i}
  <2>1. T \in SUBSET ids /\ i \notin T
    BY <1>2
  <2> HIDE DEF T
  <2>2. Cardinality(T) <= K /\ (K = Cardinality(T) => ids = T) /\ IsFiniteSet(T)
    BY <1>3, <2>1, FS_Subset
  <2>3. Cardinality(T) \in Nat
    BY <2>2, FS_CardinalityType
  <2>4. Cardinality(T) < K
    BY <1>3, <2>1, <2>2, <2>3
  <2> QED BY <2>4 DEF T
<1>8. Canc(K) = Canceled(b, ids)
  BY <1>7
<1> HIDE DEF Canc, K
<1>9. K \in Nat /\ (K = 0 <=> ids = {})
  BY <1>3, <1>4 DEF K
<1>10. Len(Cancellations(b, ids)) = K
  BY <1>5, <1>9
<1>11. ids # {} => Cancellations(b, ids)[K] = Canceled(b, ids)
  BY <1>5, <1>8, <1>9
<1>12. Cancellations(b, ids) = <<>> <=> ids = {}
  BY <1>6, <1>9, <1>10, EmptySeq
<1> QED BY <1>6, <1>9, <1>10, <1>11, <1>12

\* Canceling the requests of a WorkRun leaves those of the others.
LEMMA CoveredAfterCheck ==
  ASSUME NEW C, NEW n, NEW b \in BookSet(C, n), NEW E, NEW S, NEW r, Covered(b, E, S)
  PROVE  /\ Covered(Canceled(b, InContexts(b, {r})), E, S \ {r})
         /\ r \notin E => Covered(b, E, S \ {r})
         /\ InContexts(b, {r}) = {} => Covered(b, E, S \ {r})
<1> DEFINE ids == InContexts(b, {r})
<1>1. ids \in SUBSET DOMAIN b.approvals
  BY PendingAreRows
<1>3. Pending(b) \subseteq DOMAIN b.approvals
  BY DEF Pending
<1>4. \A i \in Pending(b) : i \in ids <=> b.approvals[i].call.context = r
  BY DEF InContexts
<1> HIDE DEF ids
<1>2. /\ Pending(Canceled(b, ids)) = Pending(b) \ ids
      /\ \A i \in DOMAIN b.approvals :
           Canceled(b, ids).approvals[i].call = b.approvals[i].call
  BY <1>1, PendingAfterCanceled
<1>5. /\ Covered(Canceled(b, ids), E, S \ {r})
      /\ r \notin E => Covered(b, E, S \ {r})
      /\ ids = {} => Covered(b, E, S \ {r})
  BY <1>2, <1>3, <1>4 DEF Covered
<1> QED BY <1>5 DEF ids

\* The last of what is left when the first is taken.
LEMMA LastOfTail ==
  ASSUME NEW T, NEW s \in Seq(T), s # <<>>
  PROVE  s[Len(s)] = IF Tail(s) = <<>> THEN Head(s) ELSE Tail(s)[Len(Tail(s))]
<1>1. Len(s) \in Nat \ {0}
  BY EmptySeq, LenProperties
<1>2. /\ Tail(s) \in Seq(T) /\ Len(Tail(s)) = Len(s) - 1 /\ Head(s) = s[1]
      /\ \A i \in 1 .. Len(Tail(s)) : Tail(s)[i] = s[i + 1]
  BY <1>1
<1>3. Tail(s) = <<>> <=> Len(Tail(s)) = 0
  BY <1>2, EmptySeq
<1>4. CASE Len(s) = 1
  BY <1>2, <1>3, <1>4
<1>5. CASE Len(s) # 1
  BY <1>1, <1>2, <1>3, <1>5
<1> QED BY <1>4, <1>5

\* What a step does not touch of a list stays right.
LEMMA ListKept ==
  ASSUME NEW c \in Callers, ListFits(c), ended \subseteq ended',
         op'[c] = op[c], pc'[c] = pc[c], snap'[c] = snap[c], saves'[c] = saves[c],
         toCheck'[c] = toCheck[c]
  PROVE  ListFits(c)'
<1>1. LastSaved(c)' = LastSaved(c)
  BY DEF LastSaved
<1>2. ASSUME op[c].kind = "list" PROVE op[c].ended \subseteq ended'
  BY <1>2 DEF ListFits
<1> QED BY <1>1, <1>2, Zenon DEF ListFits

\* The steps of c change nothing of the other callers.
LEMMA SavingIsOwn ==
  ASSUME IInv, NEW c \in Callers, NEW bs, Saving(c, bs), NEW d \in Callers \ {c}
  PROVE  pc'[d] = pc[d] /\ snap'[d] = snap[d] /\ saves'[d] = saves[d]
  BY DEF Saving, IInv, WritesTyped

\* A step of c while it is, or comes to be, no list.
LEMMA NoListFits ==
  ASSUME IInv, ListInv, NEW c \in Callers, op'[c].kind # "list", ended' = ended,
         \A d \in Callers \ {c} :
           /\ op'[d] = op[d] /\ pc'[d] = pc[d] /\ snap'[d] = snap[d]
           /\ saves'[d] = saves[d] /\ toCheck'[d] = toCheck[d]
  PROVE  ListInv'
<1> SUFFICES ASSUME NEW d \in Callers PROVE ListFits(d)'
  BY DEF ListInv
<1>1. CASE d = c
  BY <1>1 DEF ListFits
<1>2. CASE d # c
  BY <1>2, ListKept DEF ListInv
<1> QED BY <1>1, <1>2

\* The same for a step that decides and begins to save.
LEMMA DecisionFits ==
  ASSUME IInv, ListInv, NEW c \in Callers, NEW bs, Saving(c, bs), op'[c].kind # "list",
         \A d \in Callers \ {c} : op'[d] = op[d],
         ended' = ended, toCheck' = toCheck
  PROVE  ListInv'
  BY SavingIsOwn, NoListFits

LEMMA BeginFits ==
  ASSUME IInv, ListInv, NEW c \in Callers, NEW o, Begin(c, o),
         o.kind = "list" => o.ended \subseteq ended
  PROVE  ListInv'
<1>1. /\ pc' = [pc EXCEPT ![c] = "reading"] /\ op' = [op EXCEPT ![c] = o]
      /\ UNCHANGED <<ended, snap, saves, toCheck>>
  BY DEF Begin
<1>2. op'[c] = o /\ pc'[c] = "reading"
  BY <1>1 DEF IInv, OpsTyped, WritesTyped
<1>3. \A d \in Callers \ {c} : op'[d] = op[d] /\ pc'[d] = pc[d]
  BY <1>1 DEF IInv, OpsTyped, WritesTyped
<1> SUFFICES ASSUME NEW d \in Callers PROVE ListFits(d)'
  BY DEF ListInv
<1>4. CASE d = c
  BY <1>1, <1>2, <1>4 DEF ListFits
<1>5. CASE d # c
  BY <1>1, <1>3, <1>5, ListKept DEF ListInv
<1> QED BY <1>4, <1>5

LEMMA FailsFits ==
  ASSUME IInv, ListInv, NEW c \in Callers, Fails(c), ended' = ended
  PROVE  ListInv'
<1>1. op'[c].kind # "list" /\ \A d \in Callers \ {c} : op'[d] = op[d]
  BY DEF Fails, Idle, IInv, OpsTyped
<1>2. \A d \in Callers \ {c} :
        pc'[d] = pc[d] /\ snap'[d] = snap[d] /\ saves'[d] = saves[d] /\ toCheck'[d] = toCheck[d]
  BY DEF Fails, IInv, WritesTyped, RunsTyped
<1> QED BY <1>1, <1>2, NoListFits

LEMMA AllowCallFits ==
  ASSUME IInv, ListInv, NEW c \in Callers, AllowCall(c)
  PROVE  ListInv'
<1> DEFINE g == FirstMatch(Rows(c), op[c].call)
           b == Consumed(Rows(c), g)
           bs == IF b = Rows(c) THEN <<>> ELSE <<b>>
<1>1. /\ op' = [op EXCEPT ![c] = [kind |-> "allowed", call |-> op[c].call, grant |-> g]]
      /\ Saving(c, bs) /\ UNCHANGED <<ended, toCheck>>
  BY DEF AllowCall
<1> HIDE DEF bs, g, b
<1>2. op'[c].kind # "list" /\ \A d \in Callers \ {c} : op'[d] = op[d]
  BY <1>1 DEF IInv, OpsTyped
<1> QED BY <1>1, <1>2, DecisionFits

\* A list takes every WorkRun with a pending request down to look at.
LEMMA StartListFits ==
  ASSUME IInv, ListInv, NEW c \in Callers, StartList(c)
  PROVE  ListInv'
<1>1. /\ toCheck' = [toCheck EXCEPT ![c] = RunsToCheck(Rows(c))]
      /\ snap' = [snap EXCEPT ![c] = Rows(c)]
      /\ pc' = [pc EXCEPT ![c] = "checking"]
      /\ UNCHANGED <<ended, op, saves>> /\ op[c].kind = "list"
  BY DEF StartList, Opens
<1>2. /\ toCheck'[c] = RunsToCheck(Rows(c)) /\ snap'[c] = Rows(c) /\ pc'[c] = "checking"
      /\ \A d \in Callers \ {c} :
           toCheck'[d] = toCheck[d] /\ snap'[d] = snap[d] /\ pc'[d] = pc[d]
  BY <1>1 DEF IInv, WritesTyped, RunsTyped
<1>3. op[c].ended \subseteq ended /\ ended \subseteq Runs
  BY <1>1 DEF ListInv, ListFits, IInv, RunsTyped
<1>4. Covered(Rows(c), op[c].ended, RunsToCheck(Rows(c)))
  BY <1>3 DEF Covered, RunsToCheck
<1> SUFFICES ASSUME NEW d \in Callers PROVE ListFits(d)'
  BY DEF ListInv
<1>5. CASE d = c
  BY <1>1, <1>2, <1>3, <1>4, <1>5 DEF ListFits
<1>6. CASE d # c
  BY <1>1, <1>2, <1>6, ListKept DEF ListInv
<1> QED BY <1>5, <1>6

\* A list begins or goes on to save, or has saved all.
LEMMA ListSavingFits ==
  ASSUME IInv, ListInv, NEW c \in Callers, op[c].kind = "list",
         NEW bs \in Seq(BookSet(consented, issued)), Saving(c, bs), NEW S,
         toCheck' = [toCheck EXCEPT ![c] = S], op' = op, ended' = ended,
         Covered(IF bs = <<>> THEN snap[c] ELSE bs[Len(bs)], op[c].ended, S)
  PROVE  ListInv'
<1>1. toCheck'[c] = S /\ \A d \in Callers \ {c} : toCheck'[d] = toCheck[d]
  BY DEF IInv, RunsTyped
<1> SUFFICES ASSUME NEW d \in Callers PROVE ListFits(d)'
  BY DEF ListInv
<1>2. CASE d # c
  BY <1>1, <1>2, SavingIsOwn, ListKept DEF ListInv
<1>3. ASSUME bs = <<>> PROVE ListFits(c)'
  <2>1. pc'[c] = "checking" /\ snap'[c] = snap[c]
    BY <1>3 DEF Saving, AfterSaves, IInv, WritesTyped
  <2>2. Covered(snap[c], op[c].ended, S) /\ op[c].ended \subseteq ended
    BY <1>3 DEF ListFits, ListInv
  <2> QED BY <1>1, <2>1, <2>2 DEF ListFits
<1>4. ASSUME bs # <<>> PROVE ListFits(c)'
  <2>1. pc'[c] = "writing" /\ snap'[c] = Head(bs) /\ saves'[c] = Tail(bs)
    BY <1>4 DEF Saving, IInv, WritesTyped
  <2>2. bs[Len(bs)] = IF Tail(bs) = <<>> THEN Head(bs) ELSE Tail(bs)[Len(Tail(bs))]
    BY <1>4, LastOfTail
  <2>4. LastSaved(c)' = bs[Len(bs)]
    <3>1. LastSaved(c)' = IF Tail(bs) = <<>> THEN Head(bs) ELSE Tail(bs)[Len(Tail(bs))]
      BY <2>1, Zenon DEF LastSaved
    <3> QED BY <2>2, <3>1
  <2>5. Covered(bs[Len(bs)], op[c].ended, S) /\ op[c].ended \subseteq ended
    BY <1>4 DEF ListFits, ListInv
  <2> QED BY <1>1, <2>1, <2>4, <2>5 DEF ListFits
<1> QED BY <1>2, <1>3, <1>4

LEMMA CheckRunFits ==
  ASSUME IInv, ListInv, NEW c \in Callers, NEW r \in Runs, CheckRun(c, r)
  PROVE  ListInv'
<1> DEFINE b == snap[c]
           ids == InContexts(b, {r})
           bs == IF r \in ended THEN Cancellations(b, ids) ELSE <<>>
           S == toCheck[c] \ {r}
<1>1. /\ pc[c] = "checking" /\ toCheck' = [toCheck EXCEPT ![c] = S]
      /\ Saving(c, bs) /\ UNCHANGED <<ended, op>>
  BY DEF CheckRun
<1>2. b \in BookSet(consented, issued) /\ issued \in [approvals : Nat, grants : Nat]
  BY DEF IInv, WritesTyped, IssuedTyped
<1>3. ids \in SUBSET DOMAIN b.approvals
  BY PendingAreRows
<1> HIDE DEF ids
<1>4. /\ Cancellations(b, ids) \in Seq(BookSet(consented, issued))
      /\ Cancellations(b, ids) = <<>> <=> ids = {}
      /\ ids # {} => /\ Len(Cancellations(b, ids)) \in Nat \ {0}
                     /\ Cancellations(b, ids)[Len(Cancellations(b, ids))] = Canceled(b, ids)
  BY <1>2, <1>3, LastCancellation
<1>5. bs \in Seq(BookSet(consented, issued))
  BY <1>4, EmptySeq
<1>6. CASE op[c].kind # "list"
  <2>1. \A d \in Callers \ {c} : toCheck'[d] = toCheck[d]
    BY <1>1 DEF IInv, RunsTyped
  <2> HIDE DEF bs
  <2> QED BY <1>1, <1>6, <2>1, SavingIsOwn, NoListFits
<1>7. CASE op[c].kind = "list"
  <2> DEFINE E == op[c].ended
  <2>1. Covered(b, E, toCheck[c]) /\ E \subseteq ended
    BY <1>1, <1>7 DEF ListInv, ListFits
  <2>2. /\ Covered(Canceled(b, ids), E, S)
        /\ r \notin E => Covered(b, E, S)
        /\ ids = {} => Covered(b, E, S)
    BY <1>2, <2>1, CoveredAfterCheck DEF ids
  <2>3. Covered(IF bs = <<>> THEN b ELSE bs[Len(bs)], E, S)
    <3>1. CASE r \notin ended
      BY <2>1, <2>2, <3>1
    <3>2. CASE r \in ended /\ ids = {}
      BY <1>4, <2>2, <3>2
    <3>3. CASE r \in ended /\ ids # {}
      BY <1>4, <2>2, <3>3
    <3> QED BY <3>1, <3>2, <3>3
  <2> HIDE DEF bs, S
  <2> QED BY <1>1, <1>5, <1>7, <2>3, ListSavingFits
<1> QED BY <1>6, <1>7

LEMMA ListIsDoneFits ==
  ASSUME IInv, ListInv, NEW c \in Callers, ListIsDone(c)
  PROVE  ListInv'
<1>1. /\ pc[c] = "checking" /\ toCheck[c] = {} /\ pc' = [pc EXCEPT ![c] = "returning"]
      /\ UNCHANGED <<ended, op, snap, saves, toCheck>>
  BY DEF ListIsDone
<1>2. pc'[c] = "returning" /\ \A d \in Callers \ {c} : pc'[d] = pc[d]
  BY <1>1 DEF IInv, WritesTyped
<1> SUFFICES ASSUME NEW d \in Callers PROVE ListFits(d)'
  BY DEF ListInv
<1>3. CASE d = c
  <2>1. ASSUME op[c].kind = "list" PROVE InContexts(snap[c], op[c].ended) = {}
    <3>1. Covered(snap[c], op[c].ended, {})
      BY <1>1, <2>1 DEF ListInv, ListFits
    <3> QED BY <3>1 DEF Covered, InContexts
  <2>2. op[c].kind = "list" => op[c].ended \subseteq ended
    BY DEF ListInv, ListFits
  <2> QED BY <1>1, <1>2, <1>3, <2>1, <2>2 DEF ListFits
<1>4. CASE d # c
  BY <1>1, <1>2, <1>4, ListKept DEF ListInv
<1> QED BY <1>3, <1>4

\* A statement of a save has run.
LEMMA RanFits ==
  ASSUME IInv, ListInv, NEW c \in Callers, left[c] # NoStatements, NEW rest, Ran(c, rest)
  PROVE  ListInv'
<1>1. /\ UNCHANGED <<ended, op, toCheck>> /\ pc[c] = "writing"
      /\ saves[c] \in Seq(BookSet(consented, issued))
  BY DEF Ran, IInv, WritesTyped
<1>2. CASE rest # NoStatements
  <2>1. UNCHANGED <<pc, snap, saves>>
    BY <1>2 DEF Ran
  <2> QED BY <1>1, <2>1, ListKept DEF ListInv
<1>3. CASE rest = NoStatements
  <2>1. Saving(c, saves[c])
    BY <1>3 DEF Ran
  <2>2. CASE op[c].kind # "list"
    BY <1>1, <2>1, <2>2, DecisionFits
  <2>3. CASE op[c].kind = "list"
    <3>1. Covered(IF saves[c] = <<>> THEN snap[c] ELSE saves[c][Len(saves[c])],
                  op[c].ended, toCheck[c])
      BY <1>1, <2>3 DEF ListInv, ListFits, LastSaved
    <3>2. toCheck' = [toCheck EXCEPT ![c] = toCheck[c]]
      BY <1>1 DEF IInv, RunsTyped
    <3> QED BY <1>1, <2>1, <2>3, <3>1, <3>2, ListSavingFits
  <2> QED BY <2>2, <2>3
<1> QED BY <1>2, <1>3

\* The invariant of the lists is inductive.
LEMMA NextListInv == IInv /\ ListInv /\ [Next]_vars => ListInv'
<1> SUFFICES ASSUME IInv, ListInv, [Next]_vars PROVE ListInv'
  OBVIOUS
<1>1. ASSUME NEW c \in Callers, NEW call \in Calls, ToolCall(c, call) PROVE ListInv'
  BY <1>1, BeginFits DEF ToolCall
<1>2. ASSUME NEW c \in Callers, NEW i, NEW d, Decide(c, i, d) PROVE ListInv'
  BY <1>2, BeginFits DEF Decide
<1>3. ASSUME NEW c \in Callers, ListRequests(c) PROVE ListInv'
  BY <1>3, BeginFits DEF ListRequests
<1>4. ASSUME NEW c \in Callers, NEW r \in Runs, RunTerminalHook(c, r) PROVE ListInv'
  BY <1>4, BeginFits DEF RunTerminalHook
<1>5. ASSUME NEW c \in Callers, NEW m \in Members, Deactivate(c, m) PROVE ListInv'
  BY <1>5, BeginFits DEF Deactivate
<1>6. ASSUME NEW c \in Callers,
             \/ BlockCall(c) \/ RequestApproval(c) \/ Reject(c) \/ Approve(c)
             \/ CancelForRun(c) \/ DeactivateMember(c)
      PROVE  ListInv'
  <2>1. PICK bs : Saving(c, bs)
    BY <1>6 DEF BlockCall, RequestApproval, Reject, Approve, CancelForRun, DeactivateMember
  <2>2. UNCHANGED <<ended, op, toCheck>>
    BY <1>6 DEF BlockCall, RequestApproval, Reject, Approve, CancelForRun, DeactivateMember
  <2>3. op[c].kind # "list"
    BY <1>6 DEF BlockCall, RequestApproval, Reject, Approve, CancelForRun, DeactivateMember, Opens
  <2> QED BY <2>1, <2>2, <2>3, DecisionFits
<1>7. ASSUME NEW c \in Callers, NEW g,
             ResolveUnknown(c) \/ UpsertGrantFails(c, g) \/ Return(c)
      PROVE  ListInv'
  BY <1>7, FailsFits DEF ResolveUnknown, UpsertGrantFails, Return
<1>8. ASSUME NEW c \in Callers, NEW i,
             \/ DeleteGrants(c) \/ DeleteApprovals(c) \/ UpsertApproval(c, i) \/ UpsertGrant(c, i)
      PROVE  ListInv'
  <2>1. left[c] # NoStatements
    BY <1>8 DEF DeleteGrants, DeleteApprovals, UpsertApproval, UpsertGrant, NextGrant, IsLeast,
                NoStatements
  <2>2. PICK rest : Ran(c, rest)
    BY <1>8 DEF DeleteGrants, DeleteApprovals, UpsertApproval, UpsertGrant
  <2> QED BY <2>1, <2>2, RanFits
<1>9. ASSUME NEW r \in Runs, EndRun(r) PROVE ListInv'
  BY <1>9, ListKept DEF EndRun, local, ListInv
<1>10. CASE Crash
  BY <1>10 DEF Crash, Idle, ListInv, ListFits
<1>11. CASE UNCHANGED vars
  BY <1>11, ListKept DEF vars, local, ListInv
<1>12. CASE Next
  BY <1>1, <1>2, <1>3, <1>4, <1>5, <1>6, <1>7, <1>8, <1>9, <1>10, <1>12,
     AllowCallFits, StartListFits, CheckRunFits, ListIsDoneFits
     DEF Next
<1> QED BY <1>11, <1>12

\* Whatever calls overlap and whenever the process dies, a list that returns
\* shows no card of a WorkRun that had ended when it began
\* (access-request-service.ts:39-49).
THEOREM ListsShowNoEndedRun == Spec => []ListShowsNoEndedRun
<1>1. Init => ListInv
  BY DEF Init, Idle, ListInv, ListFits
<1>2. IInv /\ ListInv => ListShowsNoEndedRun
  BY DEF ListInv, ListFits, ListShowsNoEndedRun
<1> QED BY <1>1, <1>2, SpecIInv, NextListInv, PTL DEF Spec

================================================================================
