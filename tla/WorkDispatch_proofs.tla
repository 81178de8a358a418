-------------------------- MODULE WorkDispatch_proofs --------------------------
(***************************************************************************)
(* Proofs about WorkDispatch: every invariant that its runs check, for any *)
(* number of runs, members, operators, replies, leases and crashes.        *)
(***************************************************************************)
EXTENDS WorkDispatch, SequenceTheorems, WellFoundedInduction, TLAPS

-----------------------------------------------------------------------------
(* The inductive invariant: the shapes of the variables, and what a chain  *)
(* may rely on of the rows it works on.                                    *)

RunStates == {"absent"} \cup ActiveRun \cup TerminalRun

LeaseRows ==
  [status : {"pending", "acknowledged", "failed", "canceled"}, retry : BOOLEAN, ttl : 0 .. Ttl]

Preparing == {"leasing", "resolving", "acknowledging", "starting", "moving"}
Free == {"idle", "selecting", "unsent", "handled"}

ChainPcs ==
  Free \cup Preparing
    \cup {"turn", "opening", "messaging", "settling", "concluding", "closing"}

Continuations == {None, "idle", "settling", "concluding", "canceled", "resolved"}

WorkChains ==
  [pc : ChainPcs, run : Runs \cup {None}, repaired : BOOLEAN,
   then : Continuations]

OpPcs == {"idle", "cancelLease", "cancelRecovery", "abort", "retrying", "inserting"}

OpRequests == [pc : OpPcs, run : Runs \cup {None}]

Typed ==
  /\ run \in [Runs -> RunStates]
  /\ progress \in [Runs -> BOOLEAN]
  /\ leases \in [Runs -> Seq(LeaseRows)]
  /\ request \in [Runs -> {"none", "open", "resolved", "canceled"}]
  /\ worker \in [Workers -> WorkChains]
  /\ op \in [Operators -> OpRequests]
  /\ starts \in [Runs -> 0 .. 1]
  /\ crashes \in Nat

\* The steps each kind of chain has, and where it goes on from a recovery request.
ChainFits(w) ==
  /\ Job(w) \in Runs <=> worker[w].pc \notin Free
  /\ w = ControlPlane =>
       worker[w].pc \in {"idle", "selecting", "turn", "opening", "messaging"} \cup Preparing
  /\ w # ControlPlane =>
       worker[w].pc \in {"unsent", "handled", "turn", "settling", "opening", "messaging",
                         "concluding", "closing"}
  /\ worker[w].pc \in {"opening", "messaging"} =>
       IF w = ControlPlane THEN worker[w].then = "idle"
                           ELSE worker[w].then \in {"settling", "concluding"}
  /\ worker[w].pc = "closing" => worker[w].then \in {"canceled", "resolved"}

\* Of the leases of a run, one was acknowledged; the latest is pending.
HasOwner(ls) == \E i \in DOMAIN ls : ls[i].status = "acknowledged"
IsPromised(ls) == ls # <<>> /\ Last(ls).status = "pending"

Owned(r) == HasOwner(leases[r])
Promised(r) == IsPromised(leases[r])

\* A run that no control plane began to execute has no history, one that is
\* being executed has one and an owner.
RunFits(r) ==
  /\ starts[r] = 0 => run[r] \in {"absent", "queued", "canceled"} /\ request[r] = "none"
  /\ run[r] \in {"absent", "queued"} => starts[r] = 0
  /\ run[r] \in {"in_progress", "blocked"} => Owned(r)

\* In progress on behalf of the control plane, not of a recovery reply.
Fresh(r) == run[r] = "in_progress" /\ request[r] = "none"

OneFreshPerMember ==
  \A q, r \in Runs : Assignee[q] = Assignee[r] /\ Fresh(q) /\ Fresh(r) => q = r

\* What holds of the run of the control plane: until the turn begins it waits
\* or is canceled, it has a lease, and its member has no other.
DispatchFits ==
  LET r == Job(ControlPlane)
      pc == worker[ControlPlane].pc
  IN /\ pc \in Preparing =>
          /\ starts[r] = 0
          /\ run[r] \in {"queued", "canceled"}
          /\ \A q \in Runs : Assignee[q] = Assignee[r] => ~Fresh(q)
     /\ pc \in {"resolving", "acknowledging"} => run[r] = "canceled" \/ Promised(r)
     /\ pc \in {"starting", "moving"} => run[r] = "canceled" \/ Owned(r)
     /\ pc \in {"turn", "opening", "messaging"} => starts[r] # 0 /\ request[r] = "none"
     /\ pc = "turn" => run[r] \in {"in_progress", "canceled"}
     /\ pc \in {"opening", "messaging"} => run[r] \in {"blocked", "canceled"}

\* A reply is about a run whose recovery request was opened.
ReplyFits(h) == worker[h].pc \notin Free => request[Job(h)] # "none"

OpFits(o) ==
  /\ op[o].run \in Runs <=> op[o].pc # "idle"
  /\ op[o].pc \in {"cancelLease", "cancelRecovery", "abort"} => run[op[o].run] = "canceled"

\* Who answers for a run in progress: the control plane in its turn, or, when it
\* was blocked before, the handler that is about to settle it.
InProgressIsSettled ==
  crashes = 0 =>
    \A r \in Runs : run[r] = "in_progress" =>
      \/ /\ request[r] = "none"
         /\ progress[r] \/ (At(ControlPlane, "turn") /\ Job(ControlPlane) = r)
      \/ \E h \in Replies : At(h, "settling") /\ Job(h) = r

\* Replies that are handled one at a time find their run as they left it.
Alone ==
  ~Overlap =>
    /\ \A h, k \in Replies : worker[h].pc \notin Free /\ worker[k].pc \notin Free => h = k
    /\ \A h \in Replies :
         /\ worker[h].pc \in {"opening", "messaging", "concluding"} => run[Job(h)] # "in_progress"
         /\ worker[h].pc = "closing" => run[Job(h)] \in TerminalRun

Answerable == ~Overlap => BlockedRunCanBeAnswered

IInv ==
  /\ Typed
  /\ \A w \in Workers : ChainFits(w)
  /\ \A r \in Runs : RunFits(r)
  /\ DispatchFits
  /\ OneFreshPerMember
  /\ \A h \in Replies : ReplyFits(h)
  /\ \A o \in Operators : OpFits(o)
  /\ InProgressIsSettled
  /\ Alone
  /\ Answerable

-----------------------------------------------------------------------------
(* The leases.                                                             *)

\* A lease is its three columns; settling it and aging it change one or two.
LEMMA LeaseShapes ==
  ASSUME NEW l \in LeaseRows
  PROVE  /\ \A status \in {"acknowledged", "failed", "canceled"} :
              Settled(l, status) \in LeaseRows /\ Settled(l, status).status = status
         /\ Aged(l) \in LeaseRows /\ Aged(l).status = l.status
<1>1. /\ l = [status |-> l.status, retry |-> l.retry, ttl |-> l.ttl]
      /\ l.status \in {"pending", "acknowledged", "failed", "canceled"}
      /\ l.retry \in BOOLEAN /\ l.ttl \in 0 .. Ttl
  BY DEF LeaseRows
<1> DEFINE row(s, t) == [status |-> s, retry |-> l.retry, ttl |-> t]
<1>2. ASSUME NEW s \in {"acknowledged", "failed", "canceled"}
      PROVE  Settled(l, s) = row(s, 0)
  <2> DEFINE m == [l EXCEPT !.status = s]
  <2>1. m = row(s, l.ttl)
    BY <1>1
  <2>2. Settled(l, s) = [m EXCEPT !.ttl = 0]
    BY Zenon DEF Settled
  <2> HIDE DEF m
  <2> QED BY <2>1, <2>2
<1>3. l.ttl > 0 => Aged(l) = row(l.status, l.ttl - 1)
  <2> DEFINE n == l.ttl - 1
  <2>1. l.ttl > 0 => Aged(l) = [l EXCEPT !.ttl = n]
    BY Zenon DEF Aged
  <2> HIDE DEF n
  <2>2. l.ttl > 0 => Aged(l) = row(l.status, n)
    BY <1>1, <2>1
  <2> QED BY <2>2 DEF n
<1>4. ~(l.ttl > 0) => Aged(l) = l
  BY DEF Aged
<1>5. /\ \A s \in {"acknowledged", "failed", "canceled"} : row(s, 0) \in LeaseRows
      /\ l.ttl > 0 => row(l.status, l.ttl - 1) \in LeaseRows
  BY <1>1, TtlAssumption DEF LeaseRows
<1> QED BY <1>1, <1>2, <1>3, <1>4, <1>5

\* Adding a lease makes it the latest, and takes no owner away.
LEMMA LeaseAdded ==
  ASSUME leases \in [Runs -> Seq(LeaseRows)], NEW r \in Runs, NEW retry \in BOOLEAN,
         AddLease(r, retry)
  PROVE  /\ leases' \in [Runs -> Seq(LeaseRows)]
         /\ \A q \in Runs \ {r} : leases'[q] = leases[q]
         /\ IsPromised(leases'[r])
         /\ HasOwner(leases[r]) => HasOwner(leases'[r])
<1> DEFINE l == PendingLease(retry)
<1>1. l \in LeaseRows /\ l.status = "pending"
  BY TtlAssumption DEF PendingLease, LeaseRows
<1>2. leases' = [leases EXCEPT ![r] = Append(leases[r], l)]
  BY DEF AddLease
<1> HIDE DEF l
<1>3. leases[r] \in Seq(LeaseRows) /\ leases'[r] = Append(leases[r], l)
  BY <1>2
<1>4. /\ leases'[r] \in Seq(LeaseRows) /\ Len(leases'[r]) = Len(leases[r]) + 1
      /\ leases'[r][Len(leases[r]) + 1] = l
      /\ \A i \in 1 .. Len(leases[r]) : leases'[r][i] = leases[r][i]
  BY <1>1, <1>3
<1>5. IsPromised(leases'[r])
  <2>1. leases'[r] # <<>>
    BY <1>3, <1>4, EmptySeq
  <2> QED BY <1>1, <1>3, <1>4, <2>1 DEF IsPromised, Last
<1>6. HasOwner(leases[r]) => HasOwner(leases'[r])
  BY <1>3, <1>4 DEF HasOwner
<1> QED BY <1>1, <1>2, <1>5, <1>6

\* Settling the latest lease of a run leaves the others alone.
LEMMA LeaseSettled ==
  ASSUME leases \in [Runs -> Seq(LeaseRows)], NEW r \in Runs,
         NEW status \in {"acknowledged", "failed", "canceled"},
         leases[r] # <<>>, SettleLatest(r, status)
  PROVE  /\ leases' \in [Runs -> Seq(LeaseRows)]
         /\ \A q \in Runs \ {r} : leases'[q] = leases[q]
         /\ status = "acknowledged" => HasOwner(leases'[r])
         /\ IsPromised(leases[r]) /\ HasOwner(leases[r]) => HasOwner(leases'[r])
<1> DEFINE n == Len(leases[r])
           l == Settled(Last(leases[r]), status)
<1>1. leases[r] \in Seq(LeaseRows) /\ n \in Nat \ {0}
  BY EmptySeq
<1>2. l \in LeaseRows /\ l.status = status
  BY <1>1, LeaseShapes DEF Last
<1>3. leases' = [leases EXCEPT ![r] = [leases[r] EXCEPT ![n] = l]]
  BY Zenon DEF SettleLatest, ReplaceAt
<1> HIDE DEF l
<1>4. leases'[r] = [leases[r] EXCEPT ![n] = l]
  BY <1>3
<1>5. /\ leases'[r] \in Seq(LeaseRows) /\ Len(leases'[r]) = n
      /\ leases'[r][n] = l
      /\ \A i \in 1 .. n : i # n => leases'[r][i] = leases[r][i]
  BY <1>1, <1>2, <1>4
<1>6. status = "acknowledged" => HasOwner(leases'[r])
  BY <1>1, <1>2, <1>5 DEF HasOwner
<1>7. IsPromised(leases[r]) /\ HasOwner(leases[r]) => HasOwner(leases'[r])
  BY <1>1, <1>5 DEF HasOwner, IsPromised, Last
<1> QED BY <1>3, <1>5, <1>6, <1>7

\* Time changes no lease but its age.
LEMMA LeasesAge ==
  ASSUME leases \in [Runs -> Seq(LeaseRows)], Tick
  PROVE  /\ leases' \in [Runs -> Seq(LeaseRows)]
         /\ \A r \in Runs : IsPromised(leases[r]) => IsPromised(leases'[r])
         /\ \A r \in Runs : HasOwner(leases[r]) => HasOwner(leases'[r])
<1>1. leases' = [r \in Runs |-> [i \in DOMAIN leases[r] |-> Aged(leases[r][i])]]
  BY DEF Tick
<1>2. ASSUME NEW r \in Runs
      PROVE  /\ leases'[r] \in Seq(LeaseRows)
             /\ IsPromised(leases[r]) => IsPromised(leases'[r])
             /\ HasOwner(leases[r]) => HasOwner(leases'[r])
  <2>1. leases[r] \in Seq(LeaseRows) /\ leases'[r] = [i \in 1 .. Len(leases[r]) |-> Aged(leases[r][i])]
    BY <1>1
  <2>2. /\ leases'[r] \in Seq(LeaseRows) /\ Len(leases'[r]) = Len(leases[r])
        /\ \A i \in 1 .. Len(leases[r]) : leases'[r][i].status = leases[r][i].status
    BY <2>1, LeaseShapes
  <2>3. HasOwner(leases[r]) => HasOwner(leases'[r])
    <3>1. DOMAIN leases[r] = 1 .. Len(leases[r]) /\ DOMAIN leases'[r] = 1 .. Len(leases[r])
      BY <2>1
    <3> QED BY <2>2, <3>1 DEF HasOwner
  <2>4. ASSUME leases[r] # <<>>
        PROVE  leases'[r] # <<>> /\ Last(leases[r]).status = Last(leases'[r]).status
    <3>1. Len(leases[r]) \in Nat \ {0}
      BY <2>1, <2>4, EmptySeq
    <3> QED BY <2>2, <3>1, EmptySeq DEF Last
  <2>5. IsPromised(leases[r]) => IsPromised(leases'[r])
    BY <2>4 DEF IsPromised
  <2> QED BY <2>2, <2>3, <2>5
<1> QED BY <1>1, <1>2

\* An expired lease was a pending one.
LEMMA LeasesExpire ==
  ASSUME leases \in [Runs -> Seq(LeaseRows)],
         leases' = [r \in Runs |-> [i \in DOMAIN leases[r] |-> Expired(leases[r][i])]]
  PROVE  /\ leases' \in [Runs -> Seq(LeaseRows)]
         /\ \A r \in Runs : HasOwner(leases[r]) => HasOwner(leases'[r])
<1>1. \A l \in LeaseRows :
        Expired(l) \in LeaseRows /\ (l.status = "acknowledged" => Expired(l) = l)
  BY LeaseShapes DEF Expired
<1>2. ASSUME NEW r \in Runs
      PROVE  leases'[r] \in Seq(LeaseRows) /\ (HasOwner(leases[r]) => HasOwner(leases'[r]))
  <2>1. leases[r] \in Seq(LeaseRows) /\ leases'[r] = [i \in 1 .. Len(leases[r]) |-> Expired(leases[r][i])]
    OBVIOUS
  <2> QED BY <1>1, <2>1 DEF HasOwner
<1> QED BY <1>2

-----------------------------------------------------------------------------
(* The chains.                                                             *)

\* One chain goes to p, with the run r and the continuation t; the others stay.
ChainStep(w, p, r, t) ==
  /\ worker' \in [Workers -> WorkChains]
  /\ \A v \in Workers \ {w} : worker'[v] = worker[v]
  /\ worker'[w].pc = p /\ worker'[w].run = r /\ worker'[w].then = t

Rested(w) == IF w = ControlPlane THEN "idle" ELSE "handled"

\* A chain that rests has no run.
LEMMA RestingType ==
  ASSUME NEW w \in Workers
  PROVE  /\ Resting(w) \in WorkChains
         /\ Resting(w).pc = Rested(w) /\ Resting(w).run = None /\ Resting(w).then = None
  BY DEF Resting, Rested, WorkChains, ChainPcs, Free, Continuations

\* Each way the actions write a chain is a ChainStep.
LEMMA GotoStep ==
  ASSUME worker \in [Workers -> WorkChains], NEW w \in Workers, NEW p \in ChainPcs, Goto(w, p)
  PROVE  ChainStep(w, p, Job(w), worker[w].then)
<1> DEFINE a == [worker[w] EXCEPT !.pc = p]
<1>1. a \in WorkChains /\ a.pc = p /\ a.run = worker[w].run /\ a.then = worker[w].then
  BY DEF WorkChains
<1>2. worker' = [worker EXCEPT ![w] = a]
  BY Zenon DEF Goto
<1> HIDE DEF a
<1> QED BY <1>1, <1>2 DEF ChainStep, Job

\* Each way a chain is assigned is a ChainStep: it rests,
LEMMA RestStep ==
  ASSUME worker \in [Workers -> WorkChains], NEW w \in Workers, Rest(w)
  PROVE  ChainStep(w, Rested(w), None, None)
<1>1. worker' = [worker EXCEPT ![w] = Resting(w)]
  BY DEF Rest
<1> QED BY <1>1, RestingType DEF ChainStep

\* it goes to another point and knows where to go on,
LEMMA ForkStep ==
  ASSUME worker \in [Workers -> WorkChains], NEW w \in Workers, NEW p \in ChainPcs,
         NEW t \in Continuations,
         worker' = [worker EXCEPT ![w].pc = p, ![w].then = t]
  PROVE  ChainStep(w, p, Job(w), t)
<1> DEFINE a == [worker[w] EXCEPT !.pc = p]
           f == [worker EXCEPT ![w] = a]
           b == [a EXCEPT !.then = t]
<1>1. a \in WorkChains /\ a.pc = p /\ a.run = worker[w].run
  BY DEF WorkChains
<1>2. f[w] = a
  OBVIOUS
<1>3. worker' = [f EXCEPT ![w] = b]
  BY <1>2, Zenon
<1> HIDE DEF a
<1>4. b \in WorkChains /\ b.pc = p /\ b.run = worker[w].run /\ b.then = t
  BY <1>1 DEF WorkChains
<1>5. /\ f \in [Workers -> WorkChains]
      /\ \A v \in Workers \ {w} : f[v] = worker[v]
  BY <1>1
<1> HIDE DEF b, f
<1> QED BY <1>3, <1>4, <1>5 DEF ChainStep, Job

\* it takes a run,
LEMMA TakeStep ==
  ASSUME worker \in [Workers -> WorkChains], NEW w \in Workers, NEW p \in ChainPcs,
         NEW r \in Runs,
         \/ worker' = [worker EXCEPT ![w] = [@ EXCEPT !.pc = p, !.run = r]]
         \/ worker' = [worker EXCEPT ![w] = [@ EXCEPT !.run = r, !.pc = p]]
  PROVE  ChainStep(w, p, r, worker[w].then)
<1> DEFINE a == [worker[w] EXCEPT !.pc = p]
           b == [a EXCEPT !.run = r]
           c == [worker[w] EXCEPT !.run = r]
           d == [c EXCEPT !.pc = p]
<1>1. \/ worker' = [worker EXCEPT ![w] = b]
      \/ worker' = [worker EXCEPT ![w] = d]
  BY Zenon
<1>2. a \in WorkChains /\ a.pc = p /\ a.then = worker[w].then
  BY DEF WorkChains
<1>3. c \in WorkChains /\ c.run = r /\ c.then = worker[w].then
  BY DEF WorkChains
<1> HIDE DEF a, c
<1>4. b \in WorkChains /\ b.pc = p /\ b.run = r /\ b.then = worker[w].then
  BY <1>2 DEF WorkChains
<1>5. d \in WorkChains /\ d.pc = p /\ d.run = r /\ d.then = worker[w].then
  BY <1>3 DEF WorkChains
<1> HIDE DEF b, d
<1> QED BY <1>1, <1>4, <1>5 DEF ChainStep

\* or it has used its repair turn.
LEMMA RepairStep ==
  ASSUME worker \in [Workers -> WorkChains], NEW w \in Workers,
         worker' = [worker EXCEPT ![w].repaired = TRUE]
  PROVE  ChainStep(w, worker[w].pc, Job(w), worker[w].then)
<1> DEFINE a == [worker[w] EXCEPT !.repaired = TRUE]
<1>1. a \in WorkChains /\ a.pc = worker[w].pc /\ a.run = worker[w].run /\ a.then = worker[w].then
  BY DEF WorkChains
<1>2. worker' = [worker EXCEPT ![w] = a]
  BY Zenon
<1> HIDE DEF a
<1> QED BY <1>1, <1>2 DEF ChainStep, Job

\* A move of a run: where it may come from, and what it leaves alone.
LEMMA RunMoved ==
  ASSUME Typed, NEW r \in Runs, NEW to \in RunStates, MoveRun(r, to)
  PROVE  /\ run' \in [Runs -> RunStates] /\ progress' \in [Runs -> BOOLEAN]
         /\ \A q \in Runs \ {r} : run'[q] = run[q] /\ progress'[q] = progress[q]
         /\ run'[r] = to /\ progress'[r] = FALSE
         /\ run[r] \in {"queued", "in_progress", "blocked"}
         /\ to \in {"in_progress", "canceled"} \/ run[r] # "queued"
         /\ to = "in_progress" => run[r] # "in_progress"
         /\ to \notin {"absent", "queued"}
  BY DEF Typed, MoveRun, CanMove, RunTransitions, TerminalRun

\* A reply and the control plane never work on the same run, and while replies are
\* handled one at a time, nobody else answers for the run of a chain.
LEMMA AnswersItself ==
  ASSUME IInv, NEW w \in Workers, worker[w].pc \notin Free \cup Preparing,
         ~Overlap, crashes = 0, run[Job(w)] = "blocked", request[Job(w)] # "open"
  PROVE  worker[w].pc \in {"opening", "messaging"}
<1>1. Job(w) \in Runs /\ \A v \in Workers : ChainFits(v)
  BY DEF IInv, ChainFits
<1>2. PICK v \in Workers : Job(v) = Job(w) /\ worker[v].pc \in {"opening", "messaging"}
  BY <1>1 DEF IInv, Answerable, BlockedRunCanBeAnswered
<1>3. CASE v = ControlPlane /\ w # ControlPlane
  BY <1>1, <1>2, <1>3 DEF IInv, DispatchFits, ReplyFits, Job, Workers
<1>4. CASE v # ControlPlane /\ w = ControlPlane
  BY <1>1, <1>2, <1>4 DEF IInv, DispatchFits, ReplyFits, ChainFits, Free, Preparing, Workers
<1>5. CASE v # ControlPlane /\ w # ControlPlane
  BY <1>1, <1>2, <1>5 DEF IInv, Alone, Free, Workers
<1> QED BY <1>2, <1>3, <1>4, <1>5

-----------------------------------------------------------------------------
(* What a step has to respect.                                             *)

\* The chain w goes on to p, keeps its run until it rests, and fits.
Continues(w, p, t) ==
  /\ ChainStep(w, p, IF p = Rested(w) THEN None ELSE Job(w), t)
  /\ p \in (IF w = ControlPlane THEN {"turn", "opening", "messaging"}
            ELSE {"turn", "settling", "opening", "messaging", "concluding", "closing"})
           \cup {Rested(w)}
  /\ p \in {"opening", "messaging"} =>
       t \in IF w = ControlPlane THEN {"idle"} ELSE {"settling", "concluding"}
  /\ p = "closing" => t \in {"canceled", "resolved"}

\* Only the columns of r change.
RowsOf(r) ==
  /\ run' \in [Runs -> RunStates] /\ progress' \in [Runs -> BOOLEAN]
  /\ request' \in [Runs -> {"none", "open", "resolved", "canceled"}]
  /\ \A q \in Runs \ {r} :
       run'[q] = run[q] /\ progress'[q] = progress[q] /\ request'[q] = request[q]

\* What becomes of the run of w on the way to p.
RunContinues(w, p) ==
  LET r == Job(w)
  IN /\ run'[r] \notin {"absent", "queued"}
     /\ run[r] = "canceled" => run'[r] = "canceled"
     /\ run'[r] \in {"in_progress", "blocked"} => run[r] \in {"in_progress", "blocked"}
     /\ run'[r] = "in_progress" => w # ControlPlane \/ run[r] = "in_progress"
     /\ request[r] # "none" => request'[r] # "none"
     /\ w = ControlPlane /\ p # "idle" => request'[r] = "none"
     /\ w = ControlPlane /\ p = "turn" => run'[r] \in {"in_progress", "canceled"}
     /\ w = ControlPlane /\ p \in {"opening", "messaging"} => run'[r] \in {"blocked", "canceled"}
     /\ crashes = 0 /\ run'[r] = "in_progress" =>
          IF w = ControlPlane THEN request'[r] = "none" /\ (progress'[r] \/ p = "turn")
          ELSE p = "settling" \/ \E h \in Replies \ {w} : At(h, "settling") /\ Job(h) = r
     /\ ~Overlap /\ w # ControlPlane /\ p \in {"opening", "messaging", "concluding"} =>
          run'[r] # "in_progress"
     /\ ~Overlap /\ w # ControlPlane /\ p = "closing" => run'[r] \in TerminalRun
     /\ ~Overlap /\ crashes = 0 /\ run'[r] = "blocked" =>
          request'[r] = "open" \/ p \in {"opening", "messaging"}

\* What the control plane relies on stays, when its chain and history stay, and
\* the rows of its run do, or the run is canceled.
LEMMA DispatchStays ==
  ASSUME DispatchFits, ChainFits(ControlPlane), UNCHANGED starts,
         worker'[ControlPlane] = worker[ControlPlane],
         \A q \in Runs : Fresh(q)' => Fresh(q),
         Job(ControlPlane) \in Runs =>
           LET d == Job(ControlPlane)
           IN /\ request[d] = "none" => request'[d] = "none"
              /\ run'[d] = "canceled"
                 \/ /\ run'[d] = run[d]
                    /\ Owned(d) => Owned(d)'
                    /\ Promised(d) => Promised(d)'
  PROVE  DispatchFits'
<1> DEFINE d == Job(ControlPlane)
           pc == worker[ControlPlane].pc
<1>1. d' = d /\ pc' = pc
  BY DEF Job
<1>2. pc \in Preparing \cup {"turn", "opening", "messaging"} => d \in Runs
  BY DEF ChainFits, Free, Preparing
<1>3. Owned(d)' = HasOwner(leases'[d]) /\ Promised(d)' = IsPromised(leases'[d])
  BY <1>1 DEF Owned, Promised
<1> QED BY <1>1, <1>2, <1>3 DEF DispatchFits, Fresh, Owned, Promised, Preparing

\* A step of a chain on its run, from its turn to its rest.
LEMMA WorkStep ==
  ASSUME IInv, NEW w \in Workers, worker[w].pc \notin Free \cup Preparing,
         NEW p, NEW t, Continues(w, p, t),
         RowsOf(Job(w)), RunContinues(w, p), UNCHANGED <<leases, op, starts, crashes>>
  PROVE  IInv'
<1> DEFINE r == Job(w)
<1>1. /\ Typed /\ r \in Runs /\ r # None /\ None \notin Runs
      /\ \A v \in Workers : ChainFits(v)
      /\ \A q \in Runs : RunFits(q)
  BY ActorsAssumption DEF IInv, ChainFits
<1>2. /\ w = ControlPlane => worker[w].pc \in {"turn", "opening", "messaging"}
                            /\ request[r] = "none" /\ run[r] \in {"in_progress", "blocked", "canceled"}
      /\ w # ControlPlane => w \in Replies /\ request[r] # "none"
  BY <1>1 DEF IInv, DispatchFits, ReplyFits, ChainFits, Workers, Free, Preparing
<1>3. /\ worker' \in [Workers -> WorkChains]
      /\ \A v \in Workers \ {w} : worker'[v] = worker[v]
      /\ worker'[w].pc = p /\ worker'[w].then = t
      /\ p # Rested(w) => worker'[w].run = r
      /\ p = Rested(w) => worker'[w].run = None
  BY DEF Continues, ChainStep
<1>4. starts[r] # 0
  BY <1>1, <1>2 DEF IInv, DispatchFits, RunFits
<1>5. UNCHANGED <<leases, op, starts, crashes>>
  OBVIOUS
<1>6. Typed'
  BY <1>1, <1>3, <1>5 DEF Typed, RowsOf
<1>7. ASSUME NEW v \in Workers PROVE ChainFits(v)'
  <2>1. CASE v # w
    <3>1. worker'[v] = worker[v] /\ ChainFits(v)
      BY <1>1, <1>3, <2>1
    <3> QED BY <3>1 DEF ChainFits, Job
  <2>2. CASE v = w
    <3>1. p = Rested(w) <=> p \in Free
      BY DEF Continues, Rested, Free
    <3>2. worker'[w].run \in Runs <=> p \notin Free
      BY <1>1, <1>3, <3>1
    <3>3. CASE w = ControlPlane
      BY <1>3, <2>2, <3>2, <3>3 DEF ChainFits, Continues, Rested, Job
    <3>4. CASE w # ControlPlane
      BY <1>3, <2>2, <3>2, <3>4 DEF ChainFits, Continues, Rested, Job
    <3> QED BY <3>3, <3>4
  <2> QED BY <2>1, <2>2
<1>8. ASSUME NEW q \in Runs PROVE RunFits(q)'
  <2>1. RunFits(q) /\ (Owned(q)' <=> Owned(q))
    BY <1>1, <1>5 DEF Owned
  <2>2. CASE q = r
    BY <2>1, <2>2, <1>4, <1>5 DEF RunFits, RunContinues
  <2>3. CASE q # r
    BY <2>1, <2>3, <1>5 DEF RunFits, RowsOf
  <2> QED BY <2>2, <2>3
<1>9. ASSUME NEW q \in Runs, Fresh(q)' PROVE Fresh(q)
  BY <1>2, <1>9 DEF Fresh, RowsOf, RunContinues
<1>10. DispatchFits'
  <2>1. CASE w = ControlPlane
    <3>1. p \in {"idle", "turn", "opening", "messaging"}
      BY <2>1 DEF Continues, Rested
    <3>2. p # "idle" => worker'[w].run = r
      BY <1>3, <2>1 DEF Rested
    <3>3. p # "idle" => request'[r] = "none" /\ starts'[r] # 0
      BY <1>4, <1>5, <2>1 DEF RunContinues
    <3> QED
      BY <1>3, <2>1, <3>1, <3>2, <3>3 DEF DispatchFits, RunContinues, Preparing, Job
  <2>2. CASE w # ControlPlane
    <3> DEFINE d == Job(ControlPlane)
    <3>1. worker'[ControlPlane] = worker[ControlPlane] /\ DispatchFits /\ ChainFits(ControlPlane)
      BY <1>3, <2>2 DEF IInv, Workers
    <3>2. d \in Runs => d # r
      BY <1>1, <1>2, <1>4, <2>2, <3>1 DEF DispatchFits, ChainFits, Free, Preparing, Workers
    <3>3. d \in Runs => run'[d] = run[d] /\ request'[d] = request[d]
      BY <3>2 DEF RowsOf
    <3>4. /\ Promised(d) => Promised(d)'
          /\ Owned(d) => Owned(d)'
      BY <1>5, <3>1 DEF Promised, Owned, Job
    <3> QED BY <1>5, <1>9, <3>1, <3>3, <3>4, DispatchStays
  <2> QED BY <2>1, <2>2
<1>11. OneFreshPerMember'
  BY <1>9 DEF IInv, OneFreshPerMember, Fresh
<1>12. \A h \in Replies : ReplyFits(h)'
  BY <1>1, <1>2, <1>3 DEF IInv, ReplyFits, ChainFits, RowsOf, RunContinues, Job, Workers, Rested, Free
<1>13. \A o \in Operators : OpFits(o)'
  BY <1>5 DEF IInv, OpFits, RowsOf, RunContinues
<1>14. InProgressIsSettled'
  <2> SUFFICES ASSUME crashes' = 0, NEW q \in Runs, run'[q] = "in_progress"
               PROVE  \/ /\ request'[q] = "none"
                         /\ progress'[q] \/ (At(ControlPlane, "turn") /\ Job(ControlPlane) = q)'
                      \/ \E h \in Replies : (At(h, "settling") /\ Job(h) = q)'
    BY DEF InProgressIsSettled
  <2>1. CASE q = r
    <3>1. CASE w = ControlPlane
      BY <1>2, <1>3, <1>5, <2>1, <3>1 DEF RunContinues, Rested, At, Job
    <3>2. CASE w # ControlPlane /\ p = "settling"
      BY <1>2, <1>3, <2>1, <3>2 DEF Rested, At, Job
    <3>3. CASE w # ControlPlane /\ p # "settling"
      <4>1. PICK h \in Replies \ {w} : At(h, "settling") /\ Job(h) = r
        BY <1>5, <2>1, <3>3 DEF RunContinues
      <4> QED BY <1>3, <2>1, <4>1 DEF At, Job, Workers
    <3> QED BY <3>1, <3>2, <3>3
  <2>2. CASE q # r
    <3>1. /\ run[q] = "in_progress" /\ progress'[q] = progress[q] /\ request'[q] = request[q]
          /\ crashes = 0 /\ InProgressIsSettled
      BY <1>5, <2>2 DEF IInv, RowsOf
    <3>2. \A v \in Workers : Job(v) = q => worker'[v] = worker[v]
      BY <1>3, <2>2 DEF Job
    <3> QED BY <3>1, <3>2 DEF InProgressIsSettled, At, Job, Workers
  <2> QED BY <2>1, <2>2
<1>15. Alone'
  <2> SUFFICES ASSUME ~Overlap
               PROVE  /\ \A h, k \in Replies :
                           worker'[h].pc \notin Free /\ worker'[k].pc \notin Free => h = k
                      /\ \A h \in Replies :
                           /\ worker'[h].pc \in {"opening", "messaging", "concluding"} =>
                                run'[worker'[h].run] # "in_progress"
                           /\ worker'[h].pc = "closing" => run'[worker'[h].run] \in TerminalRun
    BY DEF Alone, Job
  <2>1. \A h, k \in Replies : worker[h].pc \notin Free /\ worker[k].pc \notin Free => h = k
    BY DEF IInv, Alone
  <2>2. \A h \in Replies : worker'[h].pc \notin Free => worker[h].pc \notin Free
    BY <1>3 DEF Workers
  <2>3. ASSUME NEW h \in Replies, h # w, worker'[h].pc \notin Free
        PROVE  /\ worker[h].pc \in {"opening", "messaging", "concluding"} =>
                    run'[worker[h].run] # "in_progress"
               /\ worker[h].pc = "closing" => run'[worker[h].run] \in TerminalRun
    <3>1. w = ControlPlane
      BY <1>2, <2>1, <2>2, <2>3
    <3>2. worker[h].run \in Runs \ {r} /\ Alone
      BY <1>1, <1>2, <2>2, <2>3, <3>1 DEF IInv, ReplyFits, ChainFits, Job, Workers
    <3> QED BY <2>3, <3>2 DEF Alone, RowsOf, Job
  <2>4. ASSUME w # ControlPlane, worker'[w].pc \notin Free
        PROVE  /\ p \in {"opening", "messaging", "concluding"} => run'[worker'[w].run] # "in_progress"
               /\ p = "closing" => run'[worker'[w].run] \in TerminalRun
    BY <1>3, <2>4 DEF RunContinues, Rested, Free
  <2>5. ControlPlane \notin Replies
    BY ActorsAssumption
  <2> QED BY <1>3, <2>1, <2>2, <2>3, <2>4, <2>5 DEF Workers, Free
<1>16. Answerable'
  <2> SUFFICES ASSUME ~Overlap, crashes' = 0, NEW q \in Runs,
                      run'[q] = "blocked", request'[q] # "open"
               PROVE  \E v \in Workers : worker'[v].run = q /\ worker'[v].pc \in {"opening", "messaging"}
    BY DEF Answerable, BlockedRunCanBeAnswered, Job
  <2>1. CASE q = r
    BY <1>3, <1>5, <2>1 DEF RunContinues, Rested
  <2>2. CASE q # r
    <3>1. run[q] = "blocked" /\ request[q] # "open" /\ crashes = 0
      BY <1>5, <2>2 DEF RowsOf
    <3>2. PICK v \in Workers : Job(v) = q /\ worker[v].pc \in {"opening", "messaging"}
      BY <3>1 DEF IInv, Answerable, BlockedRunCanBeAnswered
    <3> QED BY <1>3, <2>2, <3>2 DEF Job
  <2> QED BY <2>1, <2>2
<1> QED BY <1>6, <1>7, <1>8, <1>10, <1>11, <1>12, <1>13, <1>14, <1>15, <1>16 DEF IInv

-----------------------------------------------------------------------------
(* The turns and what follows them.                                        *)

\* What a chain at work knows of its run.
LEMMA AtWork ==
  ASSUME IInv, NEW w \in Workers, worker[w].pc \notin Free \cup Preparing
  PROVE  /\ Typed /\ Job(w) \in Runs /\ ChainFits(w)
         /\ run[Job(w)] \in {"in_progress", "blocked"} \cup TerminalRun
         /\ w = ControlPlane =>
              /\ worker[w].pc \in {"turn", "opening", "messaging"}
              /\ request[Job(w)] = "none"
              /\ run[Job(w)] \in {IF worker[w].pc = "turn" THEN "in_progress" ELSE "blocked", "canceled"}
         /\ w # ControlPlane =>
              /\ w \in Replies
              /\ request[Job(w)] # "none"
              /\ crashes = 0 /\ run[Job(w)] = "in_progress" =>
                   \/ worker[w].pc = "settling"
                   \/ \E h \in Replies \ {w} : At(h, "settling") /\ Job(h) = Job(w)
              /\ ~Overlap /\ worker[w].pc \in {"opening", "messaging", "concluding"} =>
                   run[Job(w)] # "in_progress"
              /\ ~Overlap /\ worker[w].pc = "closing" => run[Job(w)] \in TerminalRun
<1>1. Typed /\ Job(w) \in Runs /\ ChainFits(w) /\ RunFits(Job(w))
  BY DEF IInv, ChainFits
<1>2. w = ControlPlane =>
        /\ worker[w].pc \in {"turn", "opening", "messaging"}
        /\ request[Job(w)] = "none" /\ starts[Job(w)] # 0
        /\ run[Job(w)] \in {IF worker[w].pc = "turn" THEN "in_progress" ELSE "blocked", "canceled"}
  BY <1>1 DEF IInv, ChainFits, DispatchFits, Free, Preparing
<1>3. w # ControlPlane => w \in Replies /\ request[Job(w)] # "none"
  BY DEF IInv, ReplyFits, Workers
<1>4. run[Job(w)] \in {"in_progress", "blocked"} \cup TerminalRun
  BY <1>1, <1>2, <1>3 DEF Typed, RunStates, ActiveRun, RunFits
<1>5. w # ControlPlane /\ crashes = 0 /\ run[Job(w)] = "in_progress" =>
        \/ worker[w].pc = "settling"
        \/ \E h \in Replies \ {w} : At(h, "settling") /\ Job(h) = Job(w)
  BY <1>1, <1>3 DEF IInv, InProgressIsSettled, At
<1>6. w # ControlPlane /\ ~Overlap =>
        /\ worker[w].pc \in {"opening", "messaging", "concluding"} => run[Job(w)] # "in_progress"
        /\ worker[w].pc = "closing" => run[Job(w)] \in TerminalRun
  BY <1>3 DEF IInv, Alone
<1> QED BY <1>1, <1>2, <1>3, <1>4, <1>5, <1>6

\* A canceled run: the control plane rests, a reply handler closes the request.
LEMMA CanceledContinues ==
  ASSUME worker \in [Workers -> WorkChains], NEW w \in Workers, Job(w) \in Runs,
         worker' = [worker EXCEPT ![w] = Canceled(w)]
  PROVE  \E t : Continues(w, IF w = ControlPlane THEN "idle" ELSE "concluding", t)
<1>1. CASE w = ControlPlane
  <2>1. ChainStep(w, "idle", None, None)
    BY <1>1, RestingType DEF Canceled, ChainStep, Rested
  <2> QED BY <1>1, <2>1 DEF Continues, Rested
<1>2. CASE w # ControlPlane
  <2>1. ChainStep(w, "concluding", Job(w), worker[w].then)
    BY <1>2, GotoStep DEF Canceled, Goto, ChainPcs
  <2> QED BY <1>2, <2>1 DEF Continues, Rested
<1> QED BY <1>1, <1>2

\* A chain that rests has let go of its run.
LEMMA RestContinues ==
  ASSUME worker \in [Workers -> WorkChains], NEW w \in Workers, Rest(w)
  PROVE  Continues(w, Rested(w), None)
  BY RestStep DEF Continues, Rested

\* Once the request is open, the control plane rests, and a reply handler goes on.
LEMMA OpenedContinues ==
  ASSUME worker \in [Workers -> WorkChains], NEW w \in Workers, ChainFits(w), Opened(w),
         worker[w].pc \in {"opening", "messaging"}
  PROVE  \E t, p : /\ p \in IF w = ControlPlane THEN {"idle"} ELSE {"settling", "concluding"}
                   /\ Continues(w, p, t)
<1>1. CASE w = ControlPlane
  <2>1. Continues(w, "idle", None)
    BY <1>1, RestContinues DEF ChainFits, Opened, Rested
  <2> QED BY <1>1, <2>1
<1>2. CASE w # ControlPlane
  <2> DEFINE p == worker[w].then
  <2>1. p \in {"settling", "concluding"}
    BY <1>2 DEF ChainFits
  <2>2. Goto(w, p)
    BY <2>1 DEF Opened
  <2>3. ChainStep(w, p, Job(w), worker[w].then)
    BY <2>1, <2>2, GotoStep DEF ChainPcs
  <2>4. Continues(w, p, worker[w].then)
    BY <1>2, <2>1, <2>3 DEF Continues, Rested
  <2> QED BY <1>2, <2>1, <2>4
<1> QED BY <1>1, <1>2

\* The actions of a chain at work, one lemma each: WorkStep, with what the action
\* does to the chain and to its run.
LEMMA DiscardTurnFits ==
  ASSUME IInv, NEW w \in Workers, DiscardTurn(w)
  PROVE  IInv'
<1> DEFINE p == IF w = ControlPlane THEN "idle" ELSE "concluding"
<1>1. worker[w].pc = "turn" /\ worker[w].pc \notin Free \cup Preparing
  BY DEF DiscardTurn, At, Free, Preparing
<1>2. run[Job(w)] = "canceled" /\ UNCHANGED <<run, progress, request, leases, op, starts, crashes>>
  BY DEF DiscardTurn
<1>3. PICK t : Continues(w, p, t)
  BY <1>1, AtWork, CanceledContinues DEF Typed, DiscardTurn
<1>4. RowsOf(Job(w))
  BY <1>1, <1>2, AtWork DEF Typed, RowsOf
<1>5. RunContinues(w, p)
  BY <1>1, <1>2, AtWork DEF RunContinues
<1> QED BY <1>1, <1>2, <1>3, <1>4, <1>5, WorkStep

LEMMA RepairTurnFits ==
  ASSUME IInv, NEW w \in Workers, RepairTurn(w)
  PROVE  IInv'
<1>1. worker[w].pc = "turn" /\ worker[w].pc \notin Free \cup Preparing
  BY DEF RepairTurn, InTurn, At, Free, Preparing
<1>2. /\ progress' = [progress EXCEPT ![Job(w)] = FALSE]
      /\ UNCHANGED <<run, request, leases, op, starts, crashes>>
  BY DEF RepairTurn, RecordEvent
<1>3. Continues(w, "turn", worker[w].then)
  <2>1. ChainStep(w, worker[w].pc, Job(w), worker[w].then)
    BY <1>1, AtWork, RepairStep DEF Typed, RepairTurn
  <2> QED BY <1>1, <2>1 DEF Continues, Rested
<1>4. RowsOf(Job(w))
  BY <1>1, <1>2, AtWork DEF Typed, RowsOf
<1>5. RunContinues(w, "turn")
  BY <1>1, <1>2, AtWork, AnswersItself DEF RunContinues, TerminalRun
<1> QED BY <1>1, <1>2, <1>3, <1>4, <1>5, WorkStep

LEMMA TurnInProgressFits ==
  ASSUME IInv, NEW w \in Workers, TurnInProgress(w)
  PROVE  IInv'
<1> DEFINE r == Job(w)
           p == IF w = ControlPlane THEN "idle" ELSE "settling"
<1>1. worker[w].pc = "turn" /\ worker[w].pc \notin Free \cup Preparing
  BY DEF TurnInProgress, InTurn, At, Free, Preparing
<1>2. run[r] # "canceled" /\ UNCHANGED <<request, leases, op, starts, crashes>>
  BY DEF TurnInProgress, InTurn
<1>3. PICK t : Continues(w, p, t)
  <2>1. CASE w = ControlPlane
    BY <1>1, <2>1, AtWork, RestContinues DEF TurnInProgress, Applied, Typed, Rested
  <2>2. CASE w # ControlPlane
    <3>1. ChainStep(w, "settling", r, worker[w].then)
      BY <1>1, <2>2, AtWork, GotoStep DEF TurnInProgress, Applied, Typed, ChainPcs
    <3> QED BY <2>2, <3>1 DEF Continues, Rested
  <2> QED BY <2>1, <2>2
<1>4. CASE run[r] = "blocked"
  <2>1. MoveRun(r, "in_progress") /\ "in_progress" \in RunStates
    BY <1>4 DEF TurnInProgress, RunStates, ActiveRun
  <2>2. RowsOf(r) /\ run'[r] = "in_progress"
    BY <1>1, <1>2, <2>1, AtWork, RunMoved DEF RowsOf, Typed
  <2>3. RunContinues(w, p)
    BY <1>1, <1>2, <1>4, <2>2, AtWork DEF RunContinues
  <2> QED BY <1>1, <1>2, <1>3, <2>2, <2>3, WorkStep
<1>5. CASE run[r] # "blocked"
  <2>1. progress' = [progress EXCEPT ![r] = TRUE] /\ run' = run
    BY <1>5 DEF TurnInProgress, RecordEvent
  <2>2. RowsOf(r) /\ progress'[r]
    BY <1>1, <1>2, <2>1, AtWork DEF RowsOf, Typed
  <2>3. RunContinues(w, p)
    BY <1>1, <1>2, <1>5, <2>1, <2>2, AtWork DEF RunContinues, TerminalRun
  <2> QED BY <1>1, <1>2, <1>3, <2>2, <2>3, WorkStep
<1> QED BY <1>4, <1>5

LEMMA TurnEndsFits ==
  ASSUME IInv, NEW w \in Workers, NEW status \in TerminalRun, TurnEnds(w, status)
  PROVE  IInv'
<1> DEFINE r == Job(w)
           p == IF w = ControlPlane THEN "idle" ELSE "settling"
<1>1. worker[w].pc = "turn" /\ worker[w].pc \notin Free \cup Preparing
  BY DEF TurnEnds, InTurn, At, Free, Preparing
<1>2. run[r] # "canceled" /\ UNCHANGED <<request, leases, op, starts, crashes>>
  BY DEF TurnEnds, InTurn
<1>3. PICK t : Continues(w, p, t)
  <2>1. CASE w = ControlPlane
    BY <1>1, <2>1, AtWork, RestContinues DEF TurnEnds, Applied, Typed, Rested
  <2>2. CASE w # ControlPlane
    <3>1. ChainStep(w, "settling", r, worker[w].then)
      BY <1>1, <2>2, AtWork, GotoStep DEF TurnEnds, Applied, Typed, ChainPcs
    <3> QED BY <2>2, <3>1 DEF Continues, Rested
  <2> QED BY <2>1, <2>2
<1>4. MoveRun(r, status) /\ status \in RunStates
  BY DEF TurnEnds, RunStates
<1>5. RowsOf(r) /\ run'[r] = status
  BY <1>1, <1>2, <1>4, AtWork, RunMoved DEF RowsOf, Typed
<1>6. RunContinues(w, p)
  BY <1>1, <1>2, <1>5, AtWork DEF RunContinues, TerminalRun
<1> QED BY <1>1, <1>2, <1>3, <1>5, <1>6, WorkStep

LEMMA TurnBlocksFits ==
  ASSUME IInv, NEW w \in Workers, TurnBlocks(w)
  PROVE  IInv'
<1> DEFINE r == Job(w)
           t == IF w = ControlPlane THEN "idle" ELSE "settling"
<1>1. worker[w].pc = "turn" /\ worker[w].pc \notin Free \cup Preparing
  BY DEF TurnBlocks, InTurn, At, Free, Preparing
<1>2. run[r] # "canceled" /\ UNCHANGED <<request, leases, op, starts, crashes>>
  BY DEF TurnBlocks, InTurn
<1>3. Continues(w, "opening", t)
  <2>1. ChainStep(w, "opening", r, t)
    BY <1>1, AtWork, ForkStep DEF TurnBlocks, Typed, ChainPcs, Continuations
  <2> QED BY <2>1 DEF Continues, Rested
<1>4. MoveRun(r, "blocked") /\ "blocked" \in RunStates
  BY DEF TurnBlocks, RunStates, ActiveRun
<1>5. RowsOf(r) /\ run'[r] = "blocked" /\ run[r] \in {"in_progress", "blocked"}
  BY <1>1, <1>2, <1>4, AtWork, RunMoved DEF RowsOf, Typed, TerminalRun
<1>6. RunContinues(w, "opening")
  BY <1>1, <1>2, <1>5, AtWork DEF RunContinues, TerminalRun
<1> HIDE DEF t
<1> QED BY <1>1, <1>2, <1>3, <1>5, <1>6, WorkStep

LEMMA TurnFailsFits ==
  ASSUME IInv, NEW w \in Workers, TurnFails(w)
  PROVE  IInv'
<1> DEFINE r == Job(w)
<1>1. worker[w].pc = "turn" /\ worker[w].pc \notin Free \cup Preparing
  BY DEF TurnFails, InTurn, At, Free, Preparing
<1>2. run[r] # "canceled" /\ UNCHANGED <<request, leases, op, starts, crashes>>
  BY DEF TurnFails, InTurn
<1>3. Continues(w, Rested(w), None)
  BY <1>1, AtWork, RestContinues DEF TurnFails, Typed
<1>4. CASE w = ControlPlane
  <2>1. MoveRun(r, "failed") /\ "failed" \in RunStates
    BY <1>1, <1>2, <1>4, AtWork DEF TurnFails, RunStates, TerminalRun
  <2>2. RowsOf(r) /\ run'[r] = "failed"
    BY <1>1, <1>2, <2>1, AtWork, RunMoved DEF RowsOf, Typed
  <2>3. RunContinues(w, Rested(w))
    BY <1>1, <1>2, <2>2, AtWork DEF RunContinues, Rested, TerminalRun
  <2> QED BY <1>1, <1>2, <1>3, <2>2, <2>3, WorkStep
<1>5. CASE w # ControlPlane
  <2>1. RowsOf(r) /\ run' = run
    BY <1>1, <1>2, <1>5, AtWork DEF TurnFails, RowsOf, Typed
  <2>2. RunContinues(w, Rested(w))
    BY <1>1, <1>2, <1>5, <2>1, AtWork, AnswersItself DEF RunContinues, Rested, TerminalRun
  <2> QED BY <1>1, <1>2, <1>3, <2>1, <2>2, WorkStep
<1> QED BY <1>4, <1>5

LEMMA SettleRunFits ==
  ASSUME IInv, NEW h \in Replies, SettleRun(h)
  PROVE  IInv'
<1> DEFINE r == Job(h)
<1>1. /\ worker[h].pc = "settling" /\ worker[h].pc \notin Free \cup Preparing
      /\ h \in Workers /\ h # ControlPlane
  BY ActorsAssumption DEF SettleRun, At, Free, Preparing, Workers
<1>2. UNCHANGED <<request, leases, op, starts, crashes>>
  BY DEF SettleRun
<1>3. CASE run[r] = "in_progress"
  <2>1. MoveRun(r, "blocked") /\ "blocked" \in RunStates
    BY <1>3 DEF SettleRun, RunStates, ActiveRun
  <2>2. RowsOf(r) /\ run'[r] = "blocked"
    BY <1>1, <1>2, <2>1, AtWork, RunMoved DEF RowsOf, Typed
  <2>3. ChainStep(h, "opening", r, "concluding")
    BY <1>1, <1>3, AtWork, ForkStep DEF SettleRun, Typed, ChainPcs, Continuations
  <2>4. Continues(h, "opening", "concluding")
    BY <1>1, <2>3 DEF Continues, Rested
  <2>5. RunContinues(h, "opening")
    BY <1>1, <1>2, <1>3, <2>2, AtWork DEF RunContinues
  <2> QED BY <1>1, <1>2, <2>2, <2>4, <2>5, WorkStep
<1>4. CASE run[r] # "in_progress"
  <2>1. RowsOf(r) /\ run' = run
    BY <1>1, <1>2, <1>4, AtWork DEF SettleRun, RowsOf, Typed
  <2>2. ChainStep(h, "concluding", r, worker[h].then)
    BY <1>1, <1>4, AtWork, GotoStep DEF SettleRun, Typed, ChainPcs
  <2>3. Continues(h, "concluding", worker[h].then)
    BY <1>1, <2>2 DEF Continues, Rested
  <2>4. RunContinues(h, "concluding")
    BY <1>1, <1>2, <1>4, <2>1, AtWork, AnswersItself DEF RunContinues, TerminalRun
  <2> QED BY <1>1, <1>2, <2>1, <2>3, <2>4, WorkStep
<1> QED BY <1>3, <1>4

LEMMA OpenRecoveryFits ==
  ASSUME IInv, NEW w \in Workers, OpenRecovery(w)
  PROVE  IInv'
<1> DEFINE r == Job(w)
<1>1. worker[w].pc = "opening" /\ worker[w].pc \notin Free \cup Preparing
  BY DEF OpenRecovery, At, Free, Preparing
<1>2. UNCHANGED <<run, progress, request, leases, op, starts, crashes>>
  BY DEF OpenRecovery
<1>3. RowsOf(r)
  BY <1>1, <1>2, AtWork DEF RowsOf, Typed
<1>4. CASE request[r] = "open" /\ Opened(w)
  <2>1. w # ControlPlane
    BY <1>1, <1>4, AtWork
  <2>2. PICK t, p : p \in {"settling", "concluding"} /\ Continues(w, p, t)
    BY <1>1, <1>4, <2>1, AtWork, OpenedContinues DEF Typed
  <2>3. RunContinues(w, p)
    BY <1>1, <1>2, <1>4, <2>1, <2>2, AtWork DEF RunContinues, TerminalRun
  <2> QED BY <1>1, <1>2, <1>3, <2>2, <2>3, WorkStep
<1>5. CASE request[r] # "open" /\ run[r] = "blocked" /\ Goto(w, "messaging")
  <2>1. ChainFits(w) /\ ChainStep(w, "messaging", r, worker[w].then)
    BY <1>1, <1>5, AtWork, GotoStep DEF Typed, ChainPcs
  <2>2. Continues(w, "messaging", worker[w].then)
    BY <1>1, <2>1 DEF Continues, ChainFits, Rested
  <2>3. RunContinues(w, "messaging")
    BY <1>1, <1>2, <1>5, AtWork DEF RunContinues
  <2> QED BY <1>1, <1>2, <1>3, <2>2, <2>3, WorkStep
<1> QED BY <1>4, <1>5 DEF OpenRecovery

LEMMA SaveRequestFits ==
  ASSUME IInv, NEW w \in Workers, SaveRequest(w)
  PROVE  IInv'
<1> DEFINE r == Job(w)
<1>1. worker[w].pc = "messaging" /\ worker[w].pc \notin Free \cup Preparing
  BY DEF SaveRequest, At, Free, Preparing
<1>2. /\ UNCHANGED <<run, progress, leases, op, starts, crashes>>
      /\ request' = [request EXCEPT ![r] = "open"]
  BY DEF SaveRequest
<1>3. RowsOf(r) /\ request'[r] = "open"
  BY <1>1, <1>2, AtWork DEF RowsOf, Typed
<1>4. PICK t, p : /\ p \in IF w = ControlPlane THEN {"idle"} ELSE {"settling", "concluding"}
                 /\ Continues(w, p, t)
  BY <1>1, AtWork, OpenedContinues DEF Typed, SaveRequest
<1>5. RunContinues(w, p)
  BY <1>1, <1>2, <1>3, <1>4, AtWork DEF RunContinues, TerminalRun
<1> QED BY <1>1, <1>2, <1>3, <1>4, <1>5, WorkStep

LEMMA RecoveryFailsFits ==
  ASSUME IInv, NEW w \in Workers, RecoveryFails(w)
  PROVE  IInv'
<1> DEFINE r == Job(w)
<1>1. worker[w].pc \in {"opening", "messaging"} /\ worker[w].pc \notin Free \cup Preparing
  BY DEF RecoveryFails, At, Free, Preparing
<1>2. /\ UNCHANGED <<leases, op, starts, crashes>>
      /\ request' = request \/ request' = [request EXCEPT ![r] = "open"]
  BY DEF RecoveryFails
<1>3. /\ run' \in [Runs -> RunStates] /\ progress' \in [Runs -> BOOLEAN]
      /\ \A q \in Runs \ {r} : run'[q] = run[q] /\ progress'[q] = progress[q]
      /\ run'[r] \in TerminalRun /\ (run[r] = "canceled" => run'[r] = "canceled")
  <2>1. CASE MoveRun(r, "failed")
    BY <1>1, <2>1, AtWork, RunMoved DEF RunStates, TerminalRun
  <2>2. CASE ~CanMove(r, "failed") /\ UNCHANGED <<run, progress>>
    BY <1>1, <2>2, AtWork DEF CanMove, RunTransitions, Typed
  <2> QED BY <2>1, <2>2 DEF RecoveryFails
<1>4. RowsOf(r) /\ (request[r] # "none" => request'[r] # "none")
  BY <1>1, <1>2, <1>3, AtWork DEF RowsOf, Typed
<1>5. CASE run[r] = "canceled"
  <2> DEFINE p == IF w = ControlPlane THEN "idle" ELSE "concluding"
  <2>1. PICK t : Continues(w, p, t)
    BY <1>1, <1>5, AtWork, CanceledContinues DEF Typed, RecoveryFails
  <2>2. RunContinues(w, p)
    BY <1>3, <1>4, <1>5 DEF RunContinues
  <2> QED BY <1>1, <1>2, <1>4, <2>1, <2>2, WorkStep
<1>6. CASE run[r] # "canceled"
  <2>1. Continues(w, Rested(w), None)
    BY <1>1, <1>6, AtWork, RestContinues DEF Typed, RecoveryFails, Rest
  <2>2. RunContinues(w, Rested(w))
    BY <1>3, <1>4, <1>6 DEF RunContinues, Rested, TerminalRun
  <2> QED BY <1>1, <1>2, <1>4, <2>1, <2>2, WorkStep
<1> QED BY <1>5, <1>6

LEMMA ReadOutcomeFits ==
  ASSUME IInv, NEW h \in Replies, ReadOutcome(h)
  PROVE  IInv'
<1> DEFINE r == Job(h)
<1>1. /\ worker[h].pc = "concluding" /\ worker[h].pc \notin Free \cup Preparing
      /\ h \in Workers /\ h # ControlPlane
  BY ActorsAssumption DEF ReadOutcome, At, Free, Preparing, Workers
<1>2. UNCHANGED <<run, progress, request, leases, op, starts, crashes>>
  BY DEF ReadOutcome
<1>3. RowsOf(r)
  BY <1>1, <1>2, AtWork DEF RowsOf, Typed
<1>4. CASE run[r] = "blocked"
  <2>1. Continues(h, Rested(h), None)
    BY <1>1, <1>4, AtWork, RestContinues DEF ReadOutcome, Typed
  <2>2. RunContinues(h, Rested(h))
    BY <1>1, <1>2, <1>4, AtWork, AnswersItself DEF RunContinues, Rested
  <2> QED BY <1>1, <1>2, <1>3, <2>1, <2>2, WorkStep
<1>5. CASE run[r] # "blocked"
  <2> DEFINE t == IF run[r] = "canceled" THEN "canceled" ELSE "resolved"
  <2>1. ChainStep(h, "closing", r, t)
    BY <1>1, <1>5, AtWork, ForkStep DEF ReadOutcome, Typed, ChainPcs, Continuations
  <2>2. Continues(h, "closing", t)
    BY <1>1, <2>1 DEF Continues, Rested
  <2>3. RunContinues(h, "closing")
    BY <1>1, <1>2, <1>5, AtWork DEF RunContinues, TerminalRun
  <2> HIDE DEF t
  <2> QED BY <1>1, <1>2, <1>3, <2>2, <2>3, WorkStep
<1> QED BY <1>4, <1>5

LEMMA CloseRequestFits ==
  ASSUME IInv, NEW h \in Replies, CloseRequest(h)
  PROVE  IInv'
<1> DEFINE r == Job(h)
<1>1. /\ worker[h].pc = "closing" /\ worker[h].pc \notin Free \cup Preparing
      /\ h \in Workers /\ h # ControlPlane
  BY ActorsAssumption DEF CloseRequest, At, Free, Preparing, Workers
<1>2. /\ UNCHANGED <<run, progress, leases, op, starts, crashes>>
      /\ request' = [request EXCEPT ![r] = worker[h].then]
      /\ worker[h].then \in {"canceled", "resolved"}
  BY <1>1, AtWork DEF CloseRequest, ChainFits
<1>3. RowsOf(r) /\ request'[r] \in {"canceled", "resolved"}
  BY <1>1, <1>2, AtWork DEF RowsOf, Typed
<1>4. Continues(h, Rested(h), None)
  BY <1>1, AtWork, RestContinues DEF CloseRequest, Typed
<1>5. RunContinues(h, Rested(h))
  BY <1>1, <1>2, <1>3, AtWork DEF RunContinues, Rested, TerminalRun
<1> QED BY <1>1, <1>2, <1>3, <1>4, <1>5, WorkStep

\* The steps that the control plane and the reply handlers share.
LEMMA TurnFits ==
  ASSUME IInv, NEW w \in Workers, Turn(w)
  PROVE  IInv'
  BY DiscardTurnFits, RepairTurnFits, TurnInProgressFits, TurnEndsFits, TurnBlocksFits,
     TurnFailsFits, OpenRecoveryFits, SaveRequestFits, RecoveryFailsFits DEF Turn

-----------------------------------------------------------------------------
(* A reply arrives.                                                        *)

\* The reply takes a run that is blocked and whose request is open.
LEMMA ReceiveReplyFits ==
  ASSUME IInv, NEW h \in Replies, NEW r \in Runs, ReceiveReply(h, r)
  PROVE  IInv'
<1>1. /\ Typed /\ h \in Workers /\ h # ControlPlane /\ r # None
      /\ \A v \in Workers : ChainFits(v)
  BY ActorsAssumption DEF IInv, Workers
<1>2. /\ At(h, "unsent") /\ request[r] = "open" /\ run[r] = "blocked"
      /\ Overlap \/ \A k \in Replies : worker[k].pc \in {"unsent", "handled"}
      /\ UNCHANGED <<run, progress, leases, request, op, starts, crashes>>
  BY DEF ReceiveReply
<1>3. ChainStep(h, "turn", r, worker[h].then)
  BY <1>1, TakeStep DEF ReceiveReply, Typed, ChainPcs
<1>4. /\ worker' \in [Workers -> WorkChains]
      /\ \A v \in Workers \ {h} : worker'[v] = worker[v]
      /\ worker'[h].pc = "turn" /\ worker'[h].run = r
  BY <1>3 DEF ChainStep
<1>5. Typed'
  BY <1>1, <1>2, <1>4 DEF Typed
<1>6. ASSUME NEW v \in Workers PROVE ChainFits(v)'
  <2>1. CASE v = h
    BY <1>1, <1>4, <2>1 DEF ChainFits, Job, Free
  <2>2. CASE v # h
    <3>1. worker'[v] = worker[v] /\ ChainFits(v)
      BY <1>1, <1>4, <2>2
    <3> QED BY <3>1 DEF ChainFits, Job
  <2> QED BY <2>1, <2>2
<1>7. ASSUME NEW q \in Runs PROVE RunFits(q)'
  BY <1>2 DEF IInv, RunFits, Owned
<1>8. DispatchFits'
  <2> DEFINE d == Job(ControlPlane)
  <2>1. DispatchFits /\ ChainFits(ControlPlane) /\ worker'[ControlPlane] = worker[ControlPlane]
    BY <1>1, <1>4 DEF IInv, Workers
  <2>2. /\ Promised(d) => Promised(d)'
        /\ Owned(d) => Owned(d)'
    BY <1>2, <2>1 DEF Promised, Owned, Job
  <2>3. \A q \in Runs : Fresh(q)' => Fresh(q)
    BY <1>2 DEF Fresh
  <2> QED BY <1>2, <2>1, <2>2, <2>3, DispatchStays
<1>9. OneFreshPerMember'
  BY <1>2 DEF IInv, OneFreshPerMember, Fresh
<1>10. \A k \in Replies : ReplyFits(k)'
  BY <1>1, <1>2, <1>4 DEF IInv, ReplyFits, Job, Workers
<1>11. \A o \in Operators : OpFits(o)'
  BY <1>2 DEF IInv, OpFits
<1>12. \A v \in Workers : worker[v].pc \notin Free => worker'[v] = worker[v]
  BY <1>2, <1>4 DEF At, Free
<1>13. InProgressIsSettled'
  <2> SUFFICES ASSUME crashes' = 0, NEW q \in Runs, run'[q] = "in_progress"
               PROVE  \/ /\ request'[q] = "none"
                         /\ progress'[q] \/ (At(ControlPlane, "turn") /\ Job(ControlPlane) = q)'
                      \/ \E k \in Replies : (At(k, "settling") /\ Job(k) = q)'
    BY DEF InProgressIsSettled
  <2>1. crashes = 0 /\ run[q] = "in_progress" /\ InProgressIsSettled
    BY <1>2 DEF IInv
  <2> QED BY <1>2, <1>12, <2>1 DEF InProgressIsSettled, At, Job, Workers, Free
<1>14. Alone'
  BY <1>1, <1>2, <1>4 DEF IInv, Alone, Job, Workers, Free, At
<1>15. Answerable'
  <2> SUFFICES ASSUME ~Overlap, crashes' = 0, NEW q \in Runs,
                      run'[q] = "blocked", request'[q] # "open"
               PROVE  \E v \in Workers : worker'[v].run = q /\ worker'[v].pc \in {"opening", "messaging"}
    BY DEF Answerable, BlockedRunCanBeAnswered, Job
  <2>1. PICK v \in Workers : Job(v) = q /\ worker[v].pc \in {"opening", "messaging"}
    BY <1>2 DEF IInv, Answerable, BlockedRunCanBeAnswered
  <2> QED BY <1>12, <2>1 DEF Job, Free
<1> QED
  BY <1>5, <1>6, <1>7, <1>8, <1>9, <1>10, <1>11, <1>13, <1>14, <1>15 DEF IInv

-----------------------------------------------------------------------------
(* The dispatch loop.                                                      *)

\* A step of the control plane on the way to a turn: it changes leases, and the
\* history of the run whose turn begins.
LEMMA DispatchStep ==
  ASSUME IInv, worker[ControlPlane].pc \in {"idle", "selecting"} \cup Preparing,
         NEW p, NEW r, NEW t, ChainStep(ControlPlane, p, r, t),
         p \in {"idle", "selecting", "turn"} \cup Preparing,
         IF p \in {"idle", "selecting"} THEN r = None ELSE r \in Runs,
         leases' \in [Runs -> Seq(LeaseRows)], starts' \in [Runs -> 0 .. 1],
         \A q \in Runs : RunFits(q)', DispatchFits',
         UNCHANGED <<run, progress, request, op, crashes>>
  PROVE  IInv'
<1>1. /\ Typed /\ \A v \in Workers : ChainFits(v)
      /\ ControlPlane \in Workers /\ ControlPlane \notin Replies /\ None \notin Runs
  BY ActorsAssumption DEF IInv, Workers
<1>2. /\ worker' \in [Workers -> WorkChains]
      /\ \A v \in Workers \ {ControlPlane} : worker'[v] = worker[v]
      /\ worker'[ControlPlane].pc = p /\ worker'[ControlPlane].run = r
  BY DEF ChainStep
<1>3. UNCHANGED <<run, progress, request, op, crashes>>
  OBVIOUS
<1>4. \A h \in Replies : h \in Workers /\ h # ControlPlane /\ worker'[h] = worker[h]
  BY <1>1, <1>2 DEF Workers
<1>5. Typed'
  BY <1>1, <1>2, <1>3 DEF Typed
<1>6. ASSUME NEW v \in Workers PROVE ChainFits(v)'
  <2>1. CASE v = ControlPlane
    <3>1. r \in Runs <=> p \notin Free
      BY <1>1 DEF Free, Preparing
    <3> QED BY <1>2, <2>1, <3>1 DEF ChainFits, Job, Preparing
  <2>2. CASE v # ControlPlane
    <3>1. worker'[v] = worker[v] /\ ChainFits(v)
      BY <1>1, <1>2, <2>2
    <3> QED BY <3>1 DEF ChainFits, Job
  <2> QED BY <2>1, <2>2
<1>7. OneFreshPerMember'
  BY <1>3 DEF IInv, OneFreshPerMember, Fresh
<1>8. \A k \in Replies : ReplyFits(k)'
  BY <1>3, <1>4 DEF IInv, ReplyFits, Job
<1>9. \A o \in Operators : OpFits(o)'
  BY <1>3 DEF IInv, OpFits
<1>10. InProgressIsSettled'
  <2> SUFFICES ASSUME crashes' = 0, NEW q \in Runs, run'[q] = "in_progress"
               PROVE  \/ /\ request'[q] = "none"
                         /\ progress'[q] \/ (At(ControlPlane, "turn") /\ Job(ControlPlane) = q)'
                      \/ \E k \in Replies : (At(k, "settling") /\ Job(k) = q)'
    BY DEF InProgressIsSettled
  <2>1. crashes = 0 /\ run[q] = "in_progress" /\ InProgressIsSettled /\ ~At(ControlPlane, "turn")
    BY <1>3 DEF IInv, At, Preparing
  <2> QED BY <1>3, <1>4, <2>1 DEF InProgressIsSettled, At, Job
<1>11. Alone'
  BY <1>3, <1>4 DEF IInv, Alone, Job
<1>12. Answerable'
  <2> SUFFICES ASSUME ~Overlap, crashes' = 0, NEW q \in Runs,
                      run'[q] = "blocked", request'[q] # "open"
               PROVE  \E v \in Workers : worker'[v].run = q /\ worker'[v].pc \in {"opening", "messaging"}
    BY DEF Answerable, BlockedRunCanBeAnswered, Job
  <2>1. PICK v \in Workers : Job(v) = q /\ worker[v].pc \in {"opening", "messaging"}
    BY <1>3 DEF IInv, Answerable, BlockedRunCanBeAnswered
  <2>2. v # ControlPlane
    BY <2>1 DEF Preparing
  <2> QED BY <1>2, <2>1, <2>2 DEF Job
<1> QED
  BY <1>5, <1>6, <1>7, <1>8, <1>9, <1>10, <1>11, <1>12 DEF IInv

\* Runs are numbered by createdAt, so that there is an oldest one among any of them.
LEMMA OldestExists ==
  ASSUME NEW rs \in SUBSET Runs, rs # {}
  PROVE  Oldest(rs) \in rs
<1>1. rs \subseteq Nat
  BY RunsAssumption
<1>2. PICK x \in rs : \A y \in rs : ~(<<y, x>> \in OpToRel(<, Nat))
  BY <1>1, NatLessThanWellFounded, WFMin
<1>3. \A y \in rs : ~(y < x)
  BY <1>1, <1>2 DEF OpToRel
<1>4. \A y \in rs : x <= y
  BY <1>1, <1>3
<1> QED BY <1>4 DEF Oldest

\* The actions of the dispatch loop, one lemma each: DispatchStep, with what the
\* action does to the leases and to the history.
LEMMA ExpireLeasesFits ==
  ASSUME IInv, ExpireLeases
  PROVE  IInv'
<1>1. /\ worker[ControlPlane].pc = "idle" /\ ControlPlane \in Workers
      /\ Typed /\ ChainFits(ControlPlane) /\ Job(ControlPlane) = None
  BY DEF ExpireLeases, At, IInv, Typed, ChainFits, Job, Workers, WorkChains, Free
<1>2. ChainStep(ControlPlane, "selecting", None, worker[ControlPlane].then)
  BY <1>1, GotoStep DEF ExpireLeases, Typed, ChainPcs, Free
<1>3. /\ leases' \in [Runs -> Seq(LeaseRows)]
      /\ \A q \in Runs : HasOwner(leases[q]) => HasOwner(leases'[q])
  BY <1>1, LeasesExpire DEF ExpireLeases, Typed
<1>4. UNCHANGED <<run, progress, request, op, starts, crashes>>
  BY DEF ExpireLeases
<1>5. ASSUME NEW q \in Runs PROVE RunFits(q)'
  BY <1>3, <1>4 DEF IInv, RunFits, Owned
<1>6. DispatchFits'
  BY <1>2 DEF DispatchFits, ChainStep, Preparing
<1> QED BY <1>1, <1>2, <1>3, <1>4, <1>5, <1>6, DispatchStep DEF Typed

LEMMA FindCandidateFits ==
  ASSUME IInv, FindCandidate
  PROVE  IInv'
<1> DEFINE candidates == {r \in Runs : IsCandidate(r)}
           retries == {r \in candidates : IsExplicitRetry(r)}
<1>1. /\ worker[ControlPlane].pc = "selecting" /\ ControlPlane \in Workers
      /\ Typed /\ \A q \in Runs : RunFits(q)
  BY DEF FindCandidate, At, IInv, Workers
<1>2. UNCHANGED <<run, progress, leases, request, op, starts, crashes>>
  BY DEF FindCandidate
<1>3. ASSUME NEW q \in Runs PROVE RunFits(q)'
  BY <1>1, <1>2 DEF RunFits, Owned
<1>4. CASE candidates = {}
  <2>1. ChainStep(ControlPlane, "idle", None, None)
    BY <1>1, <1>4, RestStep DEF FindCandidate, Rest, Typed, Rested
  <2>2. DispatchFits'
    BY <2>1 DEF DispatchFits, ChainStep, Preparing
  <2> QED BY <1>1, <1>2, <1>3, <2>1, <2>2, DispatchStep DEF Typed
<1>5. CASE candidates # {}
  <2> DEFINE r == IF retries # {} THEN Oldest(retries) ELSE Oldest(candidates)
             p == IF retries # {} THEN "resolving" ELSE "leasing"
  <2>1. r \in candidates /\ (p = "resolving" => IsExplicitRetry(r))
    BY <1>5, OldestExists
  <2>2. worker' = [worker EXCEPT ![ControlPlane] = [@ EXCEPT !.run = r, !.pc = p]]
    BY <1>5 DEF FindCandidate
  <2> HIDE DEF r
  <2>3. p \in {"resolving", "leasing"} /\ r \in Runs /\ IsCandidate(r)
    BY <2>1
  <2> HIDE DEF p, candidates
  <2>4. ChainStep(ControlPlane, p, r, worker[ControlPlane].then)
    BY <1>1, <2>2, <2>3, TakeStep DEF Typed, ChainPcs, Preparing
  <2>5. /\ starts[r] = 0 /\ run[r] = "queued"
        /\ \A q \in Runs : Assignee[q] = Assignee[r] => ~Fresh(q)
        /\ p = "resolving" => Promised(r)
    BY <1>1, <2>1, <2>3
       DEF IsCandidate, IsAssigneeIdle, IsExplicitRetry, LatestIs, RunFits, Fresh, Promised, IsPromised
  <2>6. DispatchFits'
    BY <1>2, <2>3, <2>4, <2>5 DEF DispatchFits, ChainStep, Preparing, Job, Fresh, Promised
  <2> QED BY <1>1, <1>2, <1>3, <2>3, <2>4, <2>6, DispatchStep DEF Typed, Preparing
<1> QED BY <1>4, <1>5

\* What the control plane knows of the run it prepares.
Prepares(r) ==
  /\ Job(ControlPlane) = r
  /\ Typed /\ ControlPlane \in Workers /\ \A q \in Runs : RunFits(q)
  /\ starts[r] = 0 /\ run[r] \in {"queued", "canceled"} /\ request[r] = "none"
  /\ \A q \in Runs : Assignee[q] = Assignee[r] => ~Fresh(q)

\* A dispatch under way is of one run, which was never started.
LEMMA Preparation ==
  ASSUME IInv, worker[ControlPlane].pc \in Preparing
  PROVE  \E r \in Runs : Prepares(r)
<1> DEFINE r == Job(ControlPlane)
<1>1. Typed /\ ControlPlane \in Workers /\ r \in Runs /\ \A q \in Runs : RunFits(q)
  BY DEF IInv, ChainFits, Workers, Free, Preparing
<1>2. Prepares(r)
  BY <1>1 DEF IInv, DispatchFits, RunFits, Prepares
<1> HIDE DEF r
<1> QED BY <1>1, <1>2

LEMMA CreateLeaseFits ==
  ASSUME IInv, CreateLease
  PROVE  IInv'
<1>1. worker[ControlPlane].pc = "leasing" /\ worker[ControlPlane].pc \in Preparing
  BY DEF CreateLease, At, Preparing
<1>2. PICK r \in Runs : Prepares(r)
  BY <1>1, Preparation
<1>3. UNCHANGED <<run, progress, request, op, starts, crashes>>
  BY DEF CreateLease
<1>4. CASE LatestIs(r, {"pending"})
  <2>1. ChainStep(ControlPlane, "idle", None, None) /\ leases' = leases
    BY <1>2, <1>4, RestStep DEF CreateLease, Prepares, Typed, Rested
  <2>2. DispatchFits'
    BY <2>1 DEF DispatchFits, ChainStep, Preparing
  <2>3. ASSUME NEW q \in Runs PROVE RunFits(q)'
    BY <1>2, <1>3, <2>1 DEF Prepares, RunFits, Owned
  <2> QED BY <1>1, <1>2, <1>3, <2>1, <2>2, <2>3, DispatchStep DEF Prepares, Typed
<1>5. CASE ~LatestIs(r, {"pending"})
  <2>1. AddLease(r, FALSE)
    BY <1>2, <1>5 DEF CreateLease, Prepares
  <2>2. ChainStep(ControlPlane, "resolving", r, worker[ControlPlane].then)
    BY <1>2, <1>5, GotoStep DEF CreateLease, Prepares, Typed, ChainPcs, Preparing
  <2>3. /\ leases' \in [Runs -> Seq(LeaseRows)]
        /\ \A q \in Runs \ {r} : leases'[q] = leases[q]
        /\ IsPromised(leases'[r]) /\ (HasOwner(leases[r]) => HasOwner(leases'[r]))
    BY <1>2, <2>1, LeaseAdded DEF Prepares, Typed
  <2>4. DispatchFits'
    BY <1>2, <1>3, <2>2, <2>3 DEF Prepares, DispatchFits, ChainStep, Preparing, Job, Fresh, Promised
  <2>5. ASSUME NEW q \in Runs PROVE RunFits(q)'
    BY <1>2, <1>3, <2>3 DEF Prepares, RunFits, Owned
  <2> QED BY <1>1, <1>2, <1>3, <2>2, <2>3, <2>4, <2>5, DispatchStep DEF Prepares, Typed, Preparing
<1> QED BY <1>4, <1>5

LEMMA EmployeeFoundFits ==
  ASSUME IInv, EmployeeFound
  PROVE  IInv'
<1>1. worker[ControlPlane].pc = "resolving" /\ worker[ControlPlane].pc \in Preparing
  BY DEF EmployeeFound, At, Preparing
<1>2. PICK r \in Runs : Prepares(r)
  BY <1>1, Preparation
<1>3. UNCHANGED <<run, progress, leases, request, op, starts, crashes>>
  BY DEF EmployeeFound
<1>4. ChainStep(ControlPlane, "acknowledging", r, worker[ControlPlane].then)
  BY <1>2, GotoStep DEF EmployeeFound, Prepares, Typed, ChainPcs, Preparing
<1>5. DispatchFits'
  BY <1>1, <1>2, <1>3, <1>4
     DEF IInv, Prepares, DispatchFits, ChainStep, Preparing, Job, Fresh, Promised
<1>6. ASSUME NEW q \in Runs PROVE RunFits(q)'
  BY <1>2, <1>3 DEF Prepares, RunFits, Owned
<1> QED BY <1>1, <1>2, <1>3, <1>4, <1>5, <1>6, DispatchStep DEF Prepares, Typed, Preparing

\* A pending lease of the run is settled, and the others are left alone.
LEMMA PromiseSettled ==
  ASSUME Typed, NEW r \in Runs, NEW status \in {"acknowledged", "failed"},
         IF LatestIs(r, {"pending"}) THEN SettleLatest(r, status) ELSE UNCHANGED leases
  PROVE  /\ leases' \in [Runs -> Seq(LeaseRows)]
         /\ \A q \in Runs \ {r} : leases'[q] = leases[q]
         /\ HasOwner(leases[r]) => HasOwner(leases'[r])
         /\ IsPromised(leases[r]) /\ status = "acknowledged" => HasOwner(leases'[r])
<1>1. LatestIs(r, {"pending"}) <=> IsPromised(leases[r])
  BY DEF LatestIs, IsPromised
<1>2. CASE IsPromised(leases[r])
  BY <1>1, <1>2, LeaseSettled DEF Typed, IsPromised
<1>3. CASE ~IsPromised(leases[r])
  BY <1>1, <1>3 DEF Typed
<1> QED BY <1>2, <1>3

LEMMA EmployeeMissingFits ==
  ASSUME IInv, EmployeeMissing
  PROVE  IInv'
<1>1. worker[ControlPlane].pc = "resolving" /\ worker[ControlPlane].pc \in Preparing
  BY DEF EmployeeMissing, At, Preparing
<1>2. PICK r \in Runs : Prepares(r)
  BY <1>1, Preparation
<1>3. UNCHANGED <<run, progress, request, op, starts, crashes>>
  BY DEF EmployeeMissing
<1>4. ChainStep(ControlPlane, "idle", None, None)
  BY <1>2, RestStep DEF EmployeeMissing, Prepares, Typed, Rested
<1>5. /\ leases' \in [Runs -> Seq(LeaseRows)]
      /\ \A q \in Runs \ {r} : leases'[q] = leases[q]
      /\ HasOwner(leases[r]) => HasOwner(leases'[r])
  BY <1>2, PromiseSettled DEF EmployeeMissing, Prepares
<1>6. DispatchFits'
  BY <1>4 DEF DispatchFits, ChainStep, Preparing
<1>7. ASSUME NEW q \in Runs PROVE RunFits(q)'
  BY <1>2, <1>3, <1>5 DEF Prepares, RunFits, Owned
<1> QED BY <1>1, <1>2, <1>3, <1>4, <1>5, <1>6, <1>7, DispatchStep DEF Prepares, Typed

LEMMA AcknowledgeFits ==
  ASSUME IInv, Acknowledge
  PROVE  IInv'
<1>1. worker[ControlPlane].pc = "acknowledging" /\ worker[ControlPlane].pc \in Preparing
  BY DEF Acknowledge, At, Preparing
<1>2. PICK r \in Runs : Prepares(r)
  BY <1>1, Preparation
<1>3. UNCHANGED <<run, progress, request, op, starts, crashes>>
  BY DEF Acknowledge
<1>4. ChainStep(ControlPlane, "starting", r, worker[ControlPlane].then)
  BY <1>2, GotoStep DEF Acknowledge, Prepares, Typed, ChainPcs, Preparing
<1>5. /\ leases' \in [Runs -> Seq(LeaseRows)]
      /\ \A q \in Runs \ {r} : leases'[q] = leases[q]
      /\ HasOwner(leases[r]) => HasOwner(leases'[r])
      /\ IsPromised(leases[r]) => HasOwner(leases'[r])
  BY <1>2, PromiseSettled DEF Acknowledge, Prepares
<1>6. run[r] = "canceled" \/ IsPromised(leases[r])
  BY <1>1, <1>2 DEF IInv, Prepares, DispatchFits, Promised
<1>7. DispatchFits'
  BY <1>2, <1>3, <1>4, <1>5, <1>6 DEF Prepares, DispatchFits, ChainStep, Preparing, Job, Fresh, Owned
<1>8. ASSUME NEW q \in Runs PROVE RunFits(q)'
  BY <1>2, <1>3, <1>5 DEF Prepares, RunFits, Owned
<1> QED BY <1>1, <1>2, <1>3, <1>4, <1>5, <1>7, <1>8, DispatchStep DEF Prepares, Typed, Preparing

LEMMA ReadRunFits ==
  ASSUME IInv, ReadRun
  PROVE  IInv'
<1>1. worker[ControlPlane].pc = "starting" /\ worker[ControlPlane].pc \in Preparing
  BY DEF ReadRun, At, Preparing
<1>2. PICK r \in Runs : Prepares(r)
  BY <1>1, Preparation
<1>3. UNCHANGED <<run, progress, leases, request, op, crashes>>
  BY DEF ReadRun
<1>4. CASE run[r] = "queued"
  <2>1. ChainStep(ControlPlane, "moving", r, worker[ControlPlane].then) /\ starts' = starts
    BY <1>2, <1>4, GotoStep DEF ReadRun, Prepares, Typed, ChainPcs, Preparing
  <2>2. DispatchFits'
    BY <1>1, <1>2, <1>3, <2>1
       DEF IInv, Prepares, DispatchFits, ChainStep, Preparing, Job, Fresh, Owned
  <2>3. ASSUME NEW q \in Runs PROVE RunFits(q)'
    BY <1>2, <1>3, <2>1 DEF Prepares, RunFits, Owned
  <2> QED BY <1>1, <1>2, <1>3, <2>1, <2>2, <2>3, DispatchStep DEF Prepares, Typed, Preparing
<1>5. CASE run[r] # "queued"
  <2>1. ChainStep(ControlPlane, "turn", r, worker[ControlPlane].then)
    BY <1>2, <1>5, GotoStep DEF ReadRun, Prepares, Typed, ChainPcs, Preparing
  <2>2. /\ starts' \in [Runs -> 0 .. 1] /\ starts'[r] = 1
        /\ \A q \in Runs \ {r} : starts'[q] = starts[q]
    BY <1>2, <1>5 DEF ReadRun, Prepares, Typed
  <2>3. DispatchFits'
    BY <1>2, <1>3, <1>5, <2>1, <2>2 DEF Prepares, DispatchFits, ChainStep, Preparing, Job
  <2>4. ASSUME NEW q \in Runs PROVE RunFits(q)'
    BY <1>2, <1>3, <1>5, <2>2 DEF Prepares, RunFits, Owned
  <2> QED BY <1>1, <1>2, <1>3, <2>1, <2>2, <2>3, <2>4, DispatchStep DEF Prepares, Typed
<1> QED BY <1>4, <1>5

\* The run becomes the one that its assignee executes: no other of them is.
LEMMA RunStarts ==
  ASSUME IInv, NEW r \in Runs, Prepares(r), Owned(r), At(ControlPlane, "moving"),
         MoveRun(r, "in_progress"), ChainStep(ControlPlane, "turn", r, worker[ControlPlane].then),
         starts' = [starts EXCEPT ![r] = @ + 1],
         UNCHANGED <<leases, request, op, crashes>>
  PROVE  IInv'
<1>1. /\ Typed /\ (\A v \in Workers : ChainFits(v)) /\ (\A q \in Runs : RunFits(q))
      /\ ControlPlane \in Workers /\ ControlPlane \notin Replies /\ None \notin Runs
      /\ starts[r] = 0 /\ request[r] = "none"
      /\ \A q \in Runs : Assignee[q] = Assignee[r] => ~Fresh(q)
  BY ActorsAssumption DEF IInv, Prepares, Workers
<1>2. UNCHANGED <<leases, request, op, crashes>>
  OBVIOUS
<1>3. /\ run' \in [Runs -> RunStates] /\ progress' \in [Runs -> BOOLEAN]
      /\ \A q \in Runs \ {r} : run'[q] = run[q] /\ progress'[q] = progress[q]
      /\ run'[r] = "in_progress" /\ run[r] # "canceled"
  BY <1>1, RunMoved DEF RunStates, ActiveRun
<1>4. /\ starts' \in [Runs -> 0 .. 1] /\ starts'[r] = 1
      /\ \A q \in Runs \ {r} : starts'[q] = starts[q]
  BY <1>1 DEF Typed
<1>5. /\ worker' \in [Workers -> WorkChains]
      /\ \A v \in Workers \ {ControlPlane} : worker'[v] = worker[v]
      /\ worker'[ControlPlane].pc = "turn" /\ worker'[ControlPlane].run = r
  BY DEF ChainStep
<1>6. \A h \in Replies : h \in Workers /\ h # ControlPlane /\ worker'[h] = worker[h]
  BY <1>1, <1>5 DEF Workers
<1>7. Typed'
  BY <1>1, <1>2, <1>3, <1>4, <1>5 DEF Typed
<1>8. ASSUME NEW v \in Workers PROVE ChainFits(v)'
  <2>1. CASE v = ControlPlane
    BY <1>5, <2>1 DEF ChainFits, Job, Free, Preparing
  <2>2. CASE v # ControlPlane
    <3>1. worker'[v] = worker[v] /\ ChainFits(v)
      BY <1>1, <1>5, <2>2
    <3> QED BY <3>1 DEF ChainFits, Job
  <2> QED BY <2>1, <2>2
<1>9. ASSUME NEW q \in Runs PROVE RunFits(q)'
  BY <1>1, <1>2, <1>3, <1>4 DEF RunFits, Owned
<1>10. DispatchFits'
  BY <1>1, <1>2, <1>3, <1>4, <1>5 DEF DispatchFits, Preparing, Job
<1>11. OneFreshPerMember'
  BY <1>1, <1>2, <1>3 DEF IInv, OneFreshPerMember, Fresh
<1>12. ASSUME NEW h \in Replies, worker[h].pc \notin Free
       PROVE  request[Job(h)] # "none" /\ Job(h) \in Runs \ {r}
  BY <1>1, <1>6, <1>12 DEF IInv, ReplyFits, ChainFits
<1>13. \A h \in Replies : ReplyFits(h)'
  BY <1>2, <1>6, <1>12 DEF ReplyFits, Job
<1>14. \A o \in Operators : OpFits(o)'
  BY <1>2, <1>3 DEF IInv, OpFits
<1>15. InProgressIsSettled'
  <2> SUFFICES ASSUME crashes' = 0, NEW q \in Runs, run'[q] = "in_progress"
               PROVE  \/ /\ request'[q] = "none"
                         /\ progress'[q] \/ (At(ControlPlane, "turn") /\ Job(ControlPlane) = q)'
                      \/ \E h \in Replies : (At(h, "settling") /\ Job(h) = q)'
    BY DEF InProgressIsSettled
  <2>1. CASE q = r
    BY <1>1, <1>2, <1>5, <2>1 DEF At, Job
  <2>2. CASE q # r
    <3>1. /\ crashes = 0 /\ run[q] = "in_progress" /\ progress'[q] = progress[q]
          /\ InProgressIsSettled /\ ~At(ControlPlane, "turn")
      BY <1>2, <1>3, <2>2 DEF IInv, At
    <3> QED BY <1>2, <1>6, <3>1 DEF InProgressIsSettled, At, Job
  <2> QED BY <2>1, <2>2
<1>16. Alone'
  <2>1. ASSUME ~Overlap, NEW h \in Replies, worker[h].pc \notin Free
        PROVE  run'[Job(h)] = run[Job(h)]
    BY <1>3, <1>12, <2>1
  <2> QED BY <1>6, <2>1 DEF IInv, Alone, Job, Free
<1>17. Answerable'
  <2> SUFFICES ASSUME ~Overlap, crashes' = 0, NEW q \in Runs,
                      run'[q] = "blocked", request'[q] # "open"
               PROVE  \E v \in Workers : worker'[v].run = q /\ worker'[v].pc \in {"opening", "messaging"}
    BY DEF Answerable, BlockedRunCanBeAnswered, Job
  <2>1. run[q] = "blocked"
    BY <1>3
  <2>2. PICK v \in Workers : Job(v) = q /\ worker[v].pc \in {"opening", "messaging"}
    BY <1>2, <2>1 DEF IInv, Answerable, BlockedRunCanBeAnswered
  <2>3. v # ControlPlane
    BY <2>2 DEF At
  <2> QED BY <1>5, <2>2, <2>3 DEF Job
<1> QED
  BY <1>7, <1>8, <1>9, <1>10, <1>11, <1>13, <1>14, <1>15, <1>16, <1>17 DEF IInv

LEMMA StartQueuedRunFits ==
  ASSUME IInv, StartQueuedRun
  PROVE  IInv'
<1>1. worker[ControlPlane].pc = "moving" /\ worker[ControlPlane].pc \in Preparing
  BY DEF StartQueuedRun, At, Preparing
<1>2. PICK r \in Runs : Prepares(r)
  BY <1>1, Preparation
<1>3. UNCHANGED <<leases, request, op, crashes>>
  BY DEF StartQueuedRun
<1>4. CASE /\ MoveRun(r, "in_progress") /\ Goto(ControlPlane, "turn")
           /\ starts' = [starts EXCEPT ![r] = @ + 1]
  <2>1. run[r] # "canceled"
    BY <1>2, <1>4, RunMoved DEF Prepares, RunStates, ActiveRun
  <2>2. Owned(r) /\ At(ControlPlane, "moving")
    BY <1>1, <1>2, <2>1 DEF IInv, Prepares, DispatchFits, At
  <2>3. ChainStep(ControlPlane, "turn", r, worker[ControlPlane].then)
    BY <1>2, <1>4, GotoStep DEF Prepares, Typed, ChainPcs
  <2> QED BY <1>2, <1>3, <1>4, <2>2, <2>3, RunStarts
<1>5. CASE Rest(ControlPlane) /\ UNCHANGED <<run, progress, starts>>
  <2>1. ChainStep(ControlPlane, "idle", None, None)
    BY <1>2, <1>5, RestStep DEF Prepares, Typed, Rested
  <2>2. DispatchFits'
    BY <2>1 DEF DispatchFits, ChainStep, Preparing
  <2>3. ASSUME NEW q \in Runs PROVE RunFits(q)'
    BY <1>2, <1>3, <1>5 DEF Prepares, RunFits, Owned
  <2> QED BY <1>1, <1>2, <1>3, <1>5, <2>1, <2>2, <2>3, DispatchStep DEF Prepares, Typed
<1> QED BY <1>2, <1>4, <1>5 DEF StartQueuedRun, Prepares

LEMMA DispatchSteps ==
  ASSUME IInv, Dispatch
  PROVE  IInv'
  BY ExpireLeasesFits, FindCandidateFits, CreateLeaseFits, EmployeeFoundFits, EmployeeMissingFits,
     AcknowledgeFits, ReadRunFits, StartQueuedRunFits DEF Dispatch

-----------------------------------------------------------------------------
(* The operators, the clock, and runs that are enqueued.                   *)

\* Each way the actions write the request of an operator keeps it one.
LEMMA OpGotoStep ==
  ASSUME op \in [Operators -> OpRequests], NEW o \in Operators, NEW p \in OpPcs, OpGoto(o, p)
  PROVE  /\ op' \in [Operators -> OpRequests]
         /\ \A x \in Operators \ {o} : op'[x] = op[x]
         /\ op'[o].pc = p /\ op'[o].run = op[o].run
<1> DEFINE a == [op[o] EXCEPT !.pc = p]
<1>1. a \in OpRequests /\ a.pc = p /\ a.run = op[o].run
  BY DEF OpRequests
<1>2. op' = [op EXCEPT ![o] = a]
  BY Zenon DEF OpGoto
<1> HIDE DEF a
<1> QED BY <1>1, <1>2

\* An operator whose request is over asks for nothing.
LEMMA OpDoneStep ==
  ASSUME op \in [Operators -> OpRequests], NEW o \in Operators, OpDone(o)
  PROVE  /\ op' \in [Operators -> OpRequests]
         /\ \A x \in Operators \ {o} : op'[x] = op[x]
         /\ op'[o].pc = "idle" /\ op'[o].run = None
  BY DEF OpDone, NoRequest, OpPcs, OpRequests

\* A step that leaves the runs and the chains alone, and of the leases of a run
\* that is not canceled its owner and its promise.
LEMMA LeaseStep ==
  ASSUME IInv, leases' \in [Runs -> Seq(LeaseRows)],
         op' \in [Operators -> OpRequests],
         \A o \in Operators : OpFits(o)',
         \A q \in Runs : run[q] # "canceled" =>
           /\ HasOwner(leases[q]) => HasOwner(leases'[q])
           /\ IsPromised(leases[q]) => IsPromised(leases'[q]),
         UNCHANGED <<run, progress, request, worker, starts, crashes>>
  PROVE  IInv'
<1>1. UNCHANGED <<run, progress, request, worker, starts, crashes>>
  OBVIOUS
<1>2. Typed'
  BY <1>1 DEF IInv, Typed
<1>3. \A v \in Workers : ChainFits(v)'
  BY <1>1 DEF IInv, ChainFits, Job
<1>4. \A q \in Runs : RunFits(q)'
  BY <1>1 DEF IInv, RunFits, Owned
<1>5. DispatchFits'
  <2>1. \A q \in Runs : Fresh(q)' => Fresh(q)
    BY <1>1 DEF Fresh
  <2>2. ControlPlane \in Workers
    BY DEF Workers
  <2>3. Job(ControlPlane)' = Job(ControlPlane)
    BY <1>1 DEF Job
  <2>4. Job(ControlPlane) \in Runs =>
          LET d == Job(ControlPlane)
          IN /\ request[d] = "none" => request'[d] = "none"
             /\ run'[d] = "canceled"
                \/ /\ run'[d] = run[d]
                   /\ Owned(d) => Owned(d)'
                   /\ Promised(d) => Promised(d)'
    BY <1>1, <2>3 DEF Owned, Promised
  <2> QED BY <1>1, <2>1, <2>2, <2>4, DispatchStays DEF IInv
<1>6. OneFreshPerMember'
  BY <1>1 DEF IInv, OneFreshPerMember, Fresh
<1>7. \A h \in Replies : ReplyFits(h)'
  BY <1>1 DEF IInv, ReplyFits, Job
<1>8. InProgressIsSettled'
  BY <1>1 DEF IInv, InProgressIsSettled, At, Job
<1>9. Alone'
  BY <1>1 DEF IInv, Alone, Job
<1>10. Answerable'
  BY <1>1 DEF IInv, Answerable, BlockedRunCanBeAnswered, Job
<1> QED
  BY <1>2, <1>3, <1>4, <1>5, <1>6, <1>7, <1>8, <1>9, <1>10 DEF IInv

\* The actions that change leases or nothing but the request of an operator.
LEMMA TickFits ==
  ASSUME IInv, Tick
  PROVE  IInv'
<1>1. UNCHANGED <<run, progress, request, worker, op, starts, crashes>>
  BY DEF Tick
<1>2. /\ leases' \in [Runs -> Seq(LeaseRows)]
      /\ \A q \in Runs : IsPromised(leases[q]) => IsPromised(leases'[q])
      /\ \A q \in Runs : HasOwner(leases[q]) => HasOwner(leases'[q])
  BY LeasesAge DEF IInv, Typed
<1>3. Typed /\ \A o \in Operators : OpFits(o)'
  BY <1>1 DEF IInv, OpFits
<1> QED BY <1>1, <1>2, <1>3, LeaseStep DEF Typed

LEMMA RetryDispatchFits ==
  ASSUME IInv, NEW o \in Operators, NEW r \in Runs, RetryDispatch(o, r)
  PROVE  IInv'
<1>1. UNCHANGED <<run, progress, leases, request, worker, starts, crashes>>
  BY DEF RetryDispatch
<1>2. /\ op' \in [Operators -> OpRequests]
      /\ \A x \in Operators \ {o} : op'[x] = op[x]
      /\ op'[o].pc = "retrying" /\ op'[o].run = r
  BY DEF IInv, Typed, RetryDispatch, OpPcs, OpRequests
<1>3. \A x \in Operators : OpFits(x)'
  BY <1>1, <1>2 DEF IInv, OpFits
<1> QED BY <1>1, <1>2, <1>3, LeaseStep DEF IInv, Typed

LEMMA CheckLeaseFits ==
  ASSUME IInv, NEW o \in Operators, CheckLease(o)
  PROVE  IInv'
<1>1. UNCHANGED <<run, progress, leases, request, worker, starts, crashes>> /\ op[o].pc = "retrying"
  BY DEF CheckLease
<1>2. /\ op' \in [Operators -> OpRequests]
      /\ \A x \in Operators \ {o} : op'[x] = op[x]
      /\ \/ op'[o].pc = "idle" /\ op'[o].run = None
         \/ op'[o].pc = "inserting" /\ op'[o].run = op[o].run
  BY <1>1, OpGotoStep, OpDoneStep DEF IInv, Typed, CheckLease, OpPcs
<1>3. \A x \in Operators : OpFits(x)'
  BY <1>1, <1>2, ActorsAssumption DEF IInv, OpFits
<1> QED BY <1>1, <1>2, <1>3, LeaseStep DEF IInv, Typed

LEMMA InsertLeaseFits ==
  ASSUME IInv, NEW o \in Operators, InsertLease(o)
  PROVE  IInv'
<1>1. UNCHANGED <<run, progress, request, worker, starts, crashes>> /\ op[o].pc = "inserting"
  BY DEF InsertLease
<1>2. PICK r \in Runs : op[o].run = r
  BY <1>1 DEF IInv, OpFits
<1>3. /\ leases' \in [Runs -> Seq(LeaseRows)]
      /\ \A q \in Runs \ {r} : leases'[q] = leases[q]
      /\ IsPromised(leases'[r]) /\ (HasOwner(leases[r]) => HasOwner(leases'[r]))
  BY <1>2, LeaseAdded DEF IInv, Typed, InsertLease
<1>4. /\ op' \in [Operators -> OpRequests]
      /\ \A x \in Operators \ {o} : op'[x] = op[x]
      /\ op'[o].pc = "idle" /\ op'[o].run = None
  BY OpDoneStep DEF IInv, Typed, InsertLease
<1>5. \A x \in Operators : OpFits(x)'
  BY <1>1, <1>4, ActorsAssumption DEF IInv, OpFits
<1> QED BY <1>1, <1>3, <1>4, <1>5, LeaseStep

\* Only the lease of a canceled run is canceled.
LEMMA CancelLeaseFits ==
  ASSUME IInv, NEW o \in Operators, CancelLease(o)
  PROVE  IInv'
<1>1. UNCHANGED <<run, progress, request, worker, starts, crashes>> /\ op[o].pc = "cancelLease"
  BY DEF CancelLease
<1>2. PICK r \in Runs : op[o].run = r /\ run[r] = "canceled"
  BY <1>1 DEF IInv, OpFits
<1>3. /\ leases' \in [Runs -> Seq(LeaseRows)]
      /\ \A q \in Runs \ {r} : leases'[q] = leases[q]
  <2>1. CASE LatestIs(r, {"pending", "acknowledged"})
    <3>1. SettleLatest(r, "canceled") /\ leases[r] # <<>>
      BY <1>2, <2>1 DEF CancelLease, LatestIs
    <3> QED BY <3>1, LeaseSettled DEF IInv, Typed
  <2>2. CASE ~LatestIs(r, {"pending", "acknowledged"})
    BY <1>2, <2>2 DEF CancelLease, IInv, Typed
  <2> QED BY <2>1, <2>2
<1>4. /\ op' \in [Operators -> OpRequests]
      /\ \A x \in Operators \ {o} : op'[x] = op[x]
      /\ op'[o].pc = "cancelRecovery" /\ op'[o].run = op[o].run
  BY OpGotoStep DEF IInv, Typed, CancelLease, OpPcs
<1>5. \A x \in Operators : OpFits(x)'
  BY <1>1, <1>4 DEF IInv, OpFits
<1> QED BY <1>1, <1>2, <1>3, <1>4, <1>5, LeaseStep

\* The run of r is canceled, or was: its other columns may follow.
LEMMA CancelStep ==
  ASSUME IInv, NEW r \in Runs, RowsOf(r), run'[r] = "canceled",
         request'[r] = "none" <=> request[r] = "none",
         op' \in [Operators -> OpRequests], \A o \in Operators : OpFits(o)',
         UNCHANGED <<leases, worker, starts, crashes>>
  PROVE  IInv'
<1>1. UNCHANGED <<leases, worker, starts, crashes>>
  OBVIOUS
<1>2. \A q \in Runs \ {r} : run'[q] = run[q] /\ progress'[q] = progress[q] /\ request'[q] = request[q]
  BY DEF RowsOf
<1>3. Typed'
  BY <1>1 DEF IInv, Typed, RowsOf
<1>4. \A v \in Workers : ChainFits(v)'
  BY <1>1 DEF IInv, ChainFits, Job
<1>5. ASSUME NEW q \in Runs PROVE RunFits(q)'
  BY <1>1, <1>2 DEF IInv, RunFits, Owned
<1>6. \A q \in Runs : Fresh(q)' => Fresh(q)
  BY <1>2 DEF Fresh
<1>7. DispatchFits'
  <2>1. ControlPlane \in Workers
    BY DEF Workers
  <2>2. Job(ControlPlane)' = Job(ControlPlane)
    BY <1>1 DEF Job
  <2>3. Job(ControlPlane) \in Runs =>
          LET d == Job(ControlPlane)
          IN /\ request[d] = "none" => request'[d] = "none"
             /\ run'[d] = "canceled"
                \/ /\ run'[d] = run[d]
                   /\ Owned(d) => Owned(d)'
                   /\ Promised(d) => Promised(d)'
    BY <1>1, <1>2, <2>2 DEF Owned, Promised
  <2> QED BY <1>1, <1>6, <2>1, <2>3, DispatchStays DEF IInv
<1>8. OneFreshPerMember'
  BY <1>6 DEF IInv, OneFreshPerMember, Fresh
<1>9. \A h \in Replies : ReplyFits(h)'
  BY <1>1, <1>2 DEF IInv, ReplyFits, ChainFits, Job, Workers
<1>10. InProgressIsSettled'
  <2> SUFFICES ASSUME crashes' = 0, NEW q \in Runs, run'[q] = "in_progress"
               PROVE  \/ /\ request'[q] = "none"
                         /\ progress'[q] \/ (At(ControlPlane, "turn") /\ Job(ControlPlane) = q)'
                      \/ \E k \in Replies : (At(k, "settling") /\ Job(k) = q)'
    BY DEF InProgressIsSettled
  <2>1. /\ q \in Runs \ {r} /\ crashes = 0 /\ InProgressIsSettled
    BY <1>1 DEF IInv
  <2>2. run[q] = "in_progress" /\ progress'[q] = progress[q] /\ request'[q] = request[q]
    BY <1>2, <2>1
  <2> QED BY <1>1, <2>1, <2>2 DEF InProgressIsSettled, At, Job
<1>11. Alone'
  <2>1. ASSUME NEW q \in Runs
        PROVE  /\ run[q] # "in_progress" => run'[q] # "in_progress"
               /\ run[q] \in TerminalRun => run'[q] \in TerminalRun
    BY <1>2 DEF TerminalRun
  <2>2. \A h \in Replies : worker[h].pc \in {"opening", "messaging", "concluding", "closing"} =>
          Job(h) \in Runs
    BY DEF IInv, ChainFits, Workers, Free
  <2> QED BY <1>1, <2>1, <2>2 DEF IInv, Alone, Job
<1>12. Answerable'
  <2> SUFFICES ASSUME ~Overlap, crashes' = 0, NEW q \in Runs,
                      run'[q] = "blocked", request'[q] # "open"
               PROVE  \E v \in Workers : worker'[v].run = q /\ worker'[v].pc \in {"opening", "messaging"}
    BY DEF Answerable, BlockedRunCanBeAnswered, Job
  <2>1. run[q] = "blocked" /\ request[q] # "open" /\ crashes = 0
    BY <1>1, <1>2
  <2> QED BY <1>1, <2>1 DEF IInv, Answerable, BlockedRunCanBeAnswered, Job
<1> QED
  BY <1>3, <1>4, <1>5, <1>7, <1>8, <1>9, <1>10, <1>11, <1>12 DEF IInv

\* The actions of a cancellation.
LEMMA CancelRunFits ==
  ASSUME IInv, NEW o \in Operators, NEW r \in Runs, CancelRun(o, r)
  PROVE  IInv'
<1>1. UNCHANGED <<leases, request, worker, starts, crashes>> /\ Typed
  BY DEF CancelRun, IInv
<1>2. RowsOf(r) /\ run'[r] = "canceled"
  <2>1. CASE MoveRun(r, "canceled")
    BY <1>1, <2>1, RunMoved DEF RowsOf, Typed, RunStates, TerminalRun
  <2>2. CASE run[r] = "canceled" /\ UNCHANGED <<run, progress>>
    BY <1>1, <2>2 DEF RowsOf, Typed
  <2> QED BY <2>1, <2>2 DEF CancelRun
<1>3. /\ op' \in [Operators -> OpRequests]
      /\ \A x \in Operators \ {o} : op'[x] = op[x]
      /\ op'[o].pc = "cancelLease" /\ op'[o].run = r
  BY <1>1 DEF Typed, CancelRun, OpPcs, OpRequests
<1>4. \A x \in Operators : OpFits(x)'
  BY <1>2, <1>3 DEF IInv, OpFits, RowsOf
<1> QED BY <1>1, <1>2, <1>3, <1>4, CancelStep

LEMMA CancelRecoveryFits ==
  ASSUME IInv, NEW o \in Operators, CancelRecovery(o)
  PROVE  IInv'
<1>1. UNCHANGED <<run, progress, leases, worker, starts, crashes>> /\ op[o].pc = "cancelRecovery" /\ Typed
  BY DEF CancelRecovery, IInv
<1>2. PICK r \in Runs : op[o].run = r /\ run[r] = "canceled"
  BY <1>1 DEF IInv, OpFits
<1>3. request' = [request EXCEPT ![r] = IF @ = "open" THEN "canceled" ELSE @]
  BY <1>2 DEF CancelRecovery
<1>4. RowsOf(r) /\ run'[r] = "canceled" /\ (request'[r] = "none" <=> request[r] = "none")
  BY <1>1, <1>2, <1>3 DEF RowsOf, Typed
<1>5. /\ op' \in [Operators -> OpRequests]
      /\ \A x \in Operators \ {o} : op'[x] = op[x]
      /\ op'[o].pc = "abort" /\ op'[o].run = op[o].run
  BY <1>1, OpGotoStep DEF Typed, CancelRecovery, OpPcs
<1>6. \A x \in Operators : OpFits(x)'
  BY <1>1, <1>2, <1>5 DEF IInv, OpFits
<1> QED BY <1>1, <1>4, <1>5, <1>6, CancelStep

\* A turn of a canceled run ends.
LEMMA AbortSessionsFits ==
  ASSUME IInv, NEW o \in Operators, AbortSessions(o)
  PROVE  IInv'
<1>1. /\ UNCHANGED <<run, progress, leases, request, starts, crashes>> /\ op[o].pc = "abort" /\ Typed
      /\ \A v \in Workers : ChainFits(v)
      /\ ControlPlane \in Workers /\ ControlPlane \notin Replies /\ None \notin Runs
  BY ActorsAssumption DEF AbortSessions, IInv, Workers
<1>2. PICK r \in Runs : op[o].run = r /\ run[r] = "canceled"
  BY <1>1 DEF IInv, OpFits
<1>3. worker' = [w \in Workers |-> IF At(w, "turn") /\ Job(w) = r THEN Canceled(w) ELSE worker[w]]
  BY <1>2 DEF AbortSessions
<1>4. ASSUME NEW w \in Workers
      PROVE  /\ worker'[w] \in WorkChains
             /\ \/ worker'[w] = worker[w]
                \/ /\ worker[w].pc = "turn" /\ Job(w) = r
                   /\ IF w = ControlPlane THEN worker'[w].pc = "idle" /\ worker'[w].run = None
                                          ELSE worker'[w].pc = "concluding" /\ worker'[w].run = r
  <2> DEFINE c == [worker[w] EXCEPT !.pc = "concluding"]
  <2>1. worker[w] \in WorkChains
    BY <1>1 DEF Typed
  <2>2. c \in WorkChains /\ c.pc = "concluding" /\ c.run = Job(w)
    BY <2>1 DEF WorkChains, ChainPcs, Job
  <2>3. Canceled(w) = IF w = ControlPlane THEN Resting(w) ELSE c
    BY DEF Canceled
  <2> HIDE DEF c
  <2>4. worker'[w] = IF At(w, "turn") /\ Job(w) = r THEN Canceled(w) ELSE worker[w]
    BY <1>3
  <2> QED BY <2>1, <2>2, <2>3, <2>4, RestingType DEF At, Rested
<1>5. worker' \in [Workers -> WorkChains]
  BY <1>3, <1>4
<1>6. /\ op' \in [Operators -> OpRequests]
      /\ \A x \in Operators \ {o} : op'[x] = op[x]
      /\ op'[o].pc = "idle" /\ op'[o].run = None
  BY <1>1, OpDoneStep DEF Typed, AbortSessions
<1>7. Typed'
  BY <1>1, <1>5, <1>6 DEF Typed
<1>8. ASSUME NEW w \in Workers PROVE ChainFits(w)'
  <2>1. CASE worker'[w] = worker[w]
    BY <1>1, <2>1 DEF ChainFits, Job
  <2>2. CASE worker'[w] # worker[w] /\ w = ControlPlane
    BY <1>1, <1>4, <2>2 DEF ChainFits, Job, Free
  <2>3. CASE worker'[w] # worker[w] /\ w # ControlPlane
    BY <1>1, <1>4, <2>3 DEF ChainFits, Job, Free
  <2> QED BY <2>1, <2>2, <2>3
<1>9. \A q \in Runs : RunFits(q)'
  BY <1>1 DEF IInv, RunFits, Owned
<1>10. DispatchFits'
  <2>1. CASE worker'[ControlPlane] = worker[ControlPlane]
    <3>1. \A q \in Runs : Fresh(q)' => Fresh(q)
      BY <1>1 DEF Fresh
    <3>2. Job(ControlPlane)' = Job(ControlPlane)
      BY <2>1 DEF Job
    <3>3. Job(ControlPlane) \in Runs =>
            LET d == Job(ControlPlane)
            IN /\ request[d] = "none" => request'[d] = "none"
               /\ run'[d] = "canceled"
                  \/ /\ run'[d] = run[d]
                     /\ Owned(d) => Owned(d)'
                     /\ Promised(d) => Promised(d)'
      BY <1>1, <3>2 DEF Owned, Promised
    <3> QED BY <1>1, <2>1, <3>1, <3>3, DispatchStays DEF IInv
  <2>2. CASE worker'[ControlPlane] # worker[ControlPlane]
    BY <1>1, <1>4, <2>2 DEF DispatchFits, Preparing
  <2> QED BY <2>1, <2>2
<1>11. OneFreshPerMember'
  BY <1>1 DEF IInv, OneFreshPerMember, Fresh
<1>12. \A h \in Replies : h \in Workers /\ h # ControlPlane
  BY <1>1 DEF Workers
<1>13. \A h \in Replies : ReplyFits(h)'
  BY <1>1, <1>4, <1>12 DEF IInv, ReplyFits, Job, Free
<1>14. \A x \in Operators : OpFits(x)'
  BY <1>1, <1>6 DEF IInv, OpFits
<1>15. \A w \in Workers : run[Job(w)] # "canceled" \/ worker[w].pc # "turn" => worker'[w] = worker[w]
  BY <1>2, <1>4
<1>16. InProgressIsSettled'
  <2> SUFFICES ASSUME crashes' = 0, NEW q \in Runs, run'[q] = "in_progress"
               PROVE  \/ /\ request'[q] = "none"
                         /\ progress'[q] \/ (At(ControlPlane, "turn") /\ Job(ControlPlane) = q)'
                      \/ \E k \in Replies : (At(k, "settling") /\ Job(k) = q)'
    BY DEF InProgressIsSettled
  <2>1. crashes = 0 /\ run[q] = "in_progress" /\ InProgressIsSettled
    BY <1>1 DEF IInv
  <2>2. \A w \in Workers : Job(w) = q => worker'[w] = worker[w]
    BY <1>15, <2>1
  <2> QED BY <1>1, <1>12, <2>1, <2>2 DEF InProgressIsSettled, At, Job
<1>17. Alone'
  <2> SUFFICES ASSUME ~Overlap
               PROVE  /\ \A h, k \in Replies :
                           worker'[h].pc \notin Free /\ worker'[k].pc \notin Free => h = k
                      /\ \A h \in Replies :
                           /\ worker'[h].pc \in {"opening", "messaging", "concluding"} =>
                                run'[worker'[h].run] # "in_progress"
                           /\ worker'[h].pc = "closing" => run'[worker'[h].run] \in TerminalRun
    BY DEF Alone, Job
  <2>1. \A h \in Replies : worker'[h].pc \notin Free => worker[h].pc \notin Free
    BY <1>4, <1>12 DEF Free
  <2>2. ASSUME NEW h \in Replies
        PROVE  /\ worker'[h].pc \in {"opening", "messaging", "concluding"} =>
                    run'[worker'[h].run] # "in_progress"
               /\ worker'[h].pc = "closing" => run'[worker'[h].run] \in TerminalRun
    <3>1. CASE worker'[h] = worker[h]
      BY <1>1, <3>1 DEF IInv, Alone, Job
    <3>2. CASE worker'[h] # worker[h]
      BY <1>1, <1>2, <1>4, <1>12, <3>2
    <3> QED BY <3>1, <3>2
  <2> QED BY <2>1, <2>2 DEF IInv, Alone
<1>18. Answerable'
  <2> SUFFICES ASSUME ~Overlap, crashes' = 0, NEW q \in Runs,
                      run'[q] = "blocked", request'[q] # "open"
               PROVE  \E v \in Workers : worker'[v].run = q /\ worker'[v].pc \in {"opening", "messaging"}
    BY DEF Answerable, BlockedRunCanBeAnswered, Job
  <2>1. PICK v \in Workers : Job(v) = q /\ worker[v].pc \in {"opening", "messaging"}
    BY <1>1 DEF IInv, Answerable, BlockedRunCanBeAnswered
  <2> QED BY <1>15, <2>1 DEF Job
<1> QED
  BY <1>7, <1>8, <1>9, <1>10, <1>11, <1>13, <1>14, <1>16, <1>17, <1>18 DEF IInv

\* Nobody works on a run that does not exist yet.
LEMMA EnqueueFits ==
  ASSUME IInv, NEW r \in Runs, Enqueue(r)
  PROVE  IInv'
<1>1. /\ UNCHANGED <<progress, leases, request, worker, op, starts, crashes>> /\ Typed
      /\ (\A v \in Workers : ChainFits(v)) /\ (\A q \in Runs : RunFits(q)) /\ DispatchFits
      /\ ControlPlane \in Workers /\ run[r] = "absent" /\ starts[r] = 0
  BY DEF Enqueue, IInv, Workers, RunFits
<1>2. /\ run' \in [Runs -> RunStates] /\ run'[r] = "queued"
      /\ \A q \in Runs \ {r} : run'[q] = run[q]
  BY <1>1 DEF Enqueue, Typed, RunStates, ActiveRun
<1>3. Typed'
  BY <1>1, <1>2 DEF Typed
<1>4. \A v \in Workers : ChainFits(v)'
  BY <1>1 DEF ChainFits, Job
<1>5. ASSUME NEW q \in Runs PROVE RunFits(q)'
  BY <1>1, <1>2 DEF RunFits, Owned
<1>6. \A q \in Runs : Fresh(q)' => Fresh(q)
  BY <1>1, <1>2 DEF Fresh
<1>7. DispatchFits'
  <2>1. Job(ControlPlane)' = Job(ControlPlane)
    BY <1>1 DEF Job
  <2>2. Job(ControlPlane) # r
    BY <1>1 DEF ChainFits, DispatchFits, Free, Preparing
  <2>3. Job(ControlPlane) \in Runs =>
          LET d == Job(ControlPlane)
          IN /\ request[d] = "none" => request'[d] = "none"
             /\ run'[d] = "canceled"
                \/ /\ run'[d] = run[d]
                   /\ Owned(d) => Owned(d)'
                   /\ Promised(d) => Promised(d)'
    BY <1>1, <1>2, <2>1, <2>2 DEF Owned, Promised
  <2> QED BY <1>1, <1>6, <2>3, DispatchStays
<1>8. OneFreshPerMember'
  BY <1>6 DEF IInv, OneFreshPerMember, Fresh
<1>9. \A h \in Replies : ReplyFits(h)'
  BY <1>1 DEF IInv, ReplyFits, Job
<1>10. \A o \in Operators : OpFits(o)'
  BY <1>1, <1>2 DEF IInv, OpFits
<1>11. InProgressIsSettled'
  BY <1>1, <1>2 DEF IInv, InProgressIsSettled, At, Job
<1>12. Alone'
  BY <1>1, <1>2 DEF IInv, Alone, Job, ChainFits, Workers, Free, TerminalRun
<1>13. Answerable'
  BY <1>1, <1>2 DEF IInv, Answerable, BlockedRunCanBeAnswered, Job
<1> QED
  BY <1>3, <1>4, <1>5, <1>7, <1>8, <1>9, <1>10, <1>11, <1>12, <1>13 DEF IInv

\* After a crash no chain is at work, and nobody answers for a run any more.
LEMMA CrashFits ==
  ASSUME IInv, Crash
  PROVE  IInv'
<1>1. /\ UNCHANGED <<run, progress, leases, request, starts>> /\ Typed
      /\ crashes' = crashes + 1 /\ op' = [o \in Operators |-> NoRequest]
      /\ \A v \in Workers : ChainFits(v)
      /\ ControlPlane \in Workers /\ ControlPlane \notin Replies /\ None \notin Runs
  BY ActorsAssumption DEF Crash, IInv, Workers
<1>2. ASSUME NEW w \in Workers
      PROVE  /\ worker'[w] \in WorkChains /\ worker'[w].run \notin Runs
             /\ worker'[w].pc \in IF w = ControlPlane THEN {"idle"} ELSE {"unsent", "handled"}
  <2>1. worker'[w] = IF At(w, "unsent") THEN worker[w] ELSE Resting(w)
    BY DEF Crash
  <2>2. CASE At(w, "unsent")
    <3>1. worker'[w] = worker[w] /\ worker[w].pc = "unsent" /\ ChainFits(w)
      BY <1>1, <2>1, <2>2 DEF At
    <3>2. w # ControlPlane /\ worker[w].run \notin Runs
      BY <3>1 DEF ChainFits, Preparing, Free, Job
    <3> QED BY <1>1, <3>1, <3>2 DEF Typed
  <2>3. CASE ~At(w, "unsent")
    BY <1>1, <2>1, <2>3, RestingType DEF Rested
  <2> QED BY <2>2, <2>3
<1>3. worker' \in [Workers -> WorkChains]
  BY <1>2 DEF Crash
<1>4. op' \in [Operators -> OpRequests] /\ \A o \in Operators : op'[o].pc = "idle" /\ op'[o].run = None
  BY <1>1 DEF NoRequest, OpRequests, OpPcs
<1>5. Typed'
  BY <1>1, <1>3, <1>4 DEF Typed
<1>6. ASSUME NEW w \in Workers PROVE ChainFits(w)'
  BY <1>2 DEF ChainFits, Job, Free
<1>7. \A q \in Runs : RunFits(q)'
  BY <1>1 DEF IInv, RunFits, Owned
<1>8. DispatchFits'
  BY <1>1, <1>2 DEF DispatchFits, Preparing
<1>9. OneFreshPerMember'
  BY <1>1 DEF IInv, OneFreshPerMember, Fresh
<1>10. \A h \in Replies : worker'[h].pc \in {"unsent", "handled"}
  BY <1>1, <1>2 DEF Workers
<1>11. \A h \in Replies : ReplyFits(h)'
  BY <1>10 DEF ReplyFits, Free
<1>12. \A o \in Operators : OpFits(o)'
  BY <1>1, <1>4 DEF OpFits
<1>13. crashes' # 0
  BY <1>1 DEF Typed
<1>14. InProgressIsSettled' /\ Answerable'
  BY <1>13 DEF InProgressIsSettled, Answerable, BlockedRunCanBeAnswered
<1>15. Alone'
  BY <1>10 DEF Alone, Free
<1> QED
  BY <1>5, <1>6, <1>7, <1>8, <1>9, <1>11, <1>12, <1>14, <1>15 DEF IInv

-----------------------------------------------------------------------------
(* The invariant, and what follows from it.                                *)

\* The invariant holds, and every step keeps it.
LEMMA InitIInv == Init => IInv
<1> SUFFICES ASSUME Init PROVE IInv
  OBVIOUS
<1>1. /\ run = [r \in Runs |-> "absent"] /\ progress = [r \in Runs |-> FALSE]
      /\ leases = [r \in Runs |-> <<>>] /\ request = [r \in Runs |-> "none"]
      /\ op = [o \in Operators |-> NoRequest] /\ starts = [r \in Runs |-> 0] /\ crashes = 0
      /\ ControlPlane \notin Replies /\ None \notin Runs
  BY ActorsAssumption DEF Init
<1>2. ASSUME NEW w \in Workers
      PROVE  /\ worker[w] \in WorkChains /\ worker[w].run = None
             /\ worker[w].pc = IF w = ControlPlane THEN "idle" ELSE "unsent"
  <2> DEFINE u == [Resting(w) EXCEPT !.pc = "unsent"]
  <2>1. u \in WorkChains /\ u.pc = "unsent" /\ u.run = None
    BY RestingType DEF WorkChains, ChainPcs, Free
  <2>2. worker[w] = IF w = ControlPlane THEN Resting(w) ELSE u
    BY DEF Init
  <2> HIDE DEF u
  <2> QED BY <2>1, <2>2, RestingType DEF Rested
<1>3. worker \in [Workers -> WorkChains]
  BY <1>2 DEF Init
<1>4. \A o \in Operators : op[o] \in OpRequests /\ op[o].pc = "idle" /\ op[o].run = None
  BY <1>1 DEF NoRequest, OpRequests, OpPcs
<1>5. <<>> \in Seq(LeaseRows)
  BY EmptySeq
<1>6. Typed
  BY <1>1, <1>3, <1>4, <1>5 DEF Typed, RunStates
<1>7. \A w \in Workers : ChainFits(w)
  BY <1>1, <1>2 DEF ChainFits, Job, Free
<1>8. \A r \in Runs : RunFits(r)
  BY <1>1 DEF RunFits
<1>9. DispatchFits
  BY <1>2 DEF DispatchFits, Preparing, Workers
<1>10. OneFreshPerMember /\ InProgressIsSettled /\ Answerable
  BY <1>1 DEF OneFreshPerMember, Fresh, InProgressIsSettled, Answerable, BlockedRunCanBeAnswered
<1>11. \A h \in Replies : worker[h].pc = "unsent"
  BY <1>1, <1>2 DEF Workers
<1>12. (\A h \in Replies : ReplyFits(h)) /\ Alone
  BY <1>11 DEF ReplyFits, Alone, Free
<1>13. \A o \in Operators : OpFits(o)
  BY <1>1, <1>4 DEF OpFits
<1> QED BY <1>6, <1>7, <1>8, <1>9, <1>10, <1>12, <1>13 DEF IInv

\* The invariant is inductive.
LEMMA NextIInv == IInv /\ [Next]_vars => IInv'
<1> SUFFICES ASSUME IInv, [Next]_vars PROVE IInv'
  OBVIOUS
<1>1. ASSUME NEW r \in Runs, Enqueue(r) PROVE IInv'
  BY <1>1, EnqueueFits
<1>2. CASE Dispatch
  BY <1>2, DispatchSteps
<1>3. CASE Turn(ControlPlane)
  BY <1>3, TurnFits DEF Workers
<1>4. ASSUME NEW h \in Replies, NEW r \in Runs, ReceiveReply(h, r) PROVE IInv'
  BY <1>4, ReceiveReplyFits
<1>5. ASSUME NEW h \in Replies, Reply(h) PROVE IInv'
  BY <1>5, TurnFits, SettleRunFits, ReadOutcomeFits, CloseRequestFits DEF Reply, Workers
<1>6. ASSUME NEW o \in Operators, NEW r \in Runs, CancelRun(o, r) \/ RetryDispatch(o, r) PROVE IInv'
  BY <1>6, CancelRunFits, RetryDispatchFits
<1>7. ASSUME NEW o \in Operators, Request(o) PROVE IInv'
  BY <1>7, CancelLeaseFits, CancelRecoveryFits, AbortSessionsFits, CheckLeaseFits, InsertLeaseFits
     DEF Request
<1>8. CASE Tick
  BY <1>8, TickFits
<1>9. CASE Crash
  BY <1>9, CrashFits
<1>10. CASE UNCHANGED vars
  <2>1. UNCHANGED <<run, progress, leases, request, worker, op, starts, crashes>>
    BY <1>10 DEF vars
  <2>2. \A o \in Operators : OpFits(o)'
    BY <2>1 DEF IInv, OpFits
  <2> QED BY <2>1, <2>2, LeaseStep DEF IInv, Typed
<1> QED BY <1>1, <1>2, <1>3, <1>4, <1>5, <1>6, <1>7, <1>8, <1>9, <1>10 DEF Next

\* The invariant holds in every reachable state.
LEMMA SpecIInv == Spec => []IInv
  BY InitIInv, NextIInv, PTL DEF Spec

\* The columns of the rows, and that a chain has a run exactly while it works on one.
THEOREM TypeCorrect == Spec => []TypeOK
<1>1. IInv => TypeOK
  <2> SUFFICES ASSUME IInv PROVE TypeOK
    OBVIOUS
  <2>1. Typed /\ (\A w \in Workers : ChainFits(w)) /\ (\A o \in Operators : OpFits(o))
    BY DEF IInv
  <2>2. \A r \in Runs : \A i \in DOMAIN leases[r] : leases[r][i] \in LeaseRows
    BY <2>1 DEF Typed
  <2>3. /\ run \in [Runs -> {"absent"} \cup ActiveRun \cup TerminalRun]
        /\ progress \in [Runs -> BOOLEAN]
        /\ request \in [Runs -> {"none", "open", "resolved", "canceled"}]
    BY <2>1 DEF Typed, RunStates
  <2>4. \A w \in Workers :
          worker[w].run \in Runs <=> worker[w].pc \notin {"idle", "selecting", "unsent", "handled"}
    BY <2>1 DEF ChainFits, Job, Free
  <2>5. \A o \in Operators : op[o].run \in Runs <=> op[o].pc # "idle"
    BY <2>1 DEF OpFits
  <2> QED BY Zenon, <2>2, <2>3, <2>4, <2>5 DEF TypeOK, LeaseRows
<1> QED BY <1>1, SpecIInv, PTL

\* The control plane begins to execute a run at most once: not again after a crash at
\* any point, with any number of leases that expire, are retried or are canceled.
THEOREM StartsOnce == Spec => []RunStartsOnce
<1>1. ASSUME IInv PROVE RunStartsOnce
  <2>1. starts \in [Runs -> 0 .. 1]
    BY <1>1 DEF IInv, Typed
  <2> QED BY <2>1 DEF RunStartsOnce
<1> QED BY <1>1, SpecIInv, PTL

\* A run in progress has a lease that was acknowledged, whoever retries dispatch or
\* cancels leases meanwhile.
THEOREM OwnedInProgress == Spec => []RunIsOwned
<1>1. IInv => RunIsOwned
  BY DEF IInv, RunIsOwned, RunFits, Owned, HasOwner
<1> QED BY <1>1, SpecIInv, PTL

\* Short of a crash, a run in progress is executed by the control plane or by a reply
\* handler, unless its turn ended with "in_progress".
THEOREM ExecutedInProgress == Spec => []RunInProgressIsExecuted
<1>1. IInv => RunInProgressIsExecuted
  BY DEF IInv, InProgressIsSettled, RunInProgressIsExecuted, WorksOn, At, Workers
<1> QED BY <1>1, SpecIInv, PTL

\* Short of a crash, two runs of a member are in progress at once only while a reply
\* handler works on one of them.
THEOREM OneRunOfMember == Spec => []MemberWorksOnOneRun
<1>1. IInv => MemberWorksOnOneRun
  <2> SUFFICES ASSUME IInv, crashes = 0, NEW q \in Runs, NEW r \in Runs, q < r,
                      Assignee[q] = Assignee[r], run[q] = "in_progress", run[r] = "in_progress"
               PROVE  \E h \in Replies : WorksOn(h, q) \/ WorksOn(h, r)
    BY DEF MemberWorksOnOneRun
  <2>1. q # r
    BY RunsAssumption
  <2>2. \/ \E h \in Replies : At(h, "settling") /\ (Job(h) = q \/ Job(h) = r)
        \/ Fresh(q) /\ Fresh(r)
    BY DEF IInv, InProgressIsSettled, Fresh
  <2>3. ~(Fresh(q) /\ Fresh(r))
    BY <2>1 DEF IInv, OneFreshPerMember
  <2> QED BY <2>2, <2>3 DEF WorksOn, At
<1> QED BY <1>1, SpecIInv, PTL

\* While replies are handled one at a time, and short of a crash, every blocked run has
\* an open request or a chain that is about to open it.
THEOREM BlockedIsAnswerable == ~Overlap => (Spec => []BlockedRunCanBeAnswered)
<1> SUFFICES ASSUME ~Overlap PROVE Spec => []BlockedRunCanBeAnswered
  OBVIOUS
<1>1. IInv => BlockedRunCanBeAnswered
  BY DEF IInv, Answerable
<1> QED BY <1>1, SpecIInv, PTL

================================================================================
