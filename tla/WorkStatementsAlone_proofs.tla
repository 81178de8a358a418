---------------------- MODULE WorkStatementsAlone_proofs ----------------------
(***************************************************************************)
(* The refinement: when one call follows another and the process lives,    *)
(* the statements of each method of the Work service add up to the atomic  *)
(* action that WorkLifecycle gives it.                                     *)
(***************************************************************************)
EXTENDS WorkStatements_proofs, WellFoundedInduction

-----------------------------------------------------------------------------
(* The tables after a queue of statements.                                 *)

\* Induction, over a set of numbers.
LEMMA EveryNumber ==
  ASSUME NEW S, 0 \in S, \A k \in Nat : k \in S => k + 1 \in S
  PROVE  Nat \subseteq S
<1> SUFFICES ASSUME NEW n \in Nat, n \notin S PROVE FALSE
  OBVIOUS
<1> DEFINE B == Nat \ S
<1>1. PICK least \in B : \A y \in B : ~ (<<y, least>> \in OpToRel(<, Nat))
  BY NatLessThanWellFounded, WFMin
<1>2. \A y \in B : ~(y < least)
  BY <1>1 DEF OpToRel
<1>3. least \in Nat /\ least \notin S
  OBVIOUS
<1>4. least # 0 /\ least - 1 \in Nat /\ least - 1 < least /\ (least - 1) + 1 = least
  BY <1>3
<1>5. least - 1 \in S
  BY <1>2, <1>4
<1> QED BY <1>3, <1>4, <1>5

\* What FoldLeft applies, for the sets of positions in 1 .. n.
Iterates(g, d, q, n) ==
  g = [s \in SUBSET (1 .. n) |-> IF s = {} THEN d ELSE Applied(g[s \ {Max(s)}], q[Max(s)])]

\* The last position of a set of positions that has it.
LEMMA MaxOfLast ==
  ASSUME NEW k \in Nat, NEW s \in SUBSET (1 .. k + 1), k + 1 \in s
  PROVE  Max(s) = k + 1
<1>1. \A x \in s : x \in Nat /\ k + 1 >= x
  OBVIOUS
<1>2. \E x \in s : \A y \in s : x >= y
  BY <1>1
<1>3. Max(s) \in s /\ \A y \in s : Max(s) >= y
  BY <1>2, Zenon DEF Max
<1> DEFINE m == Max(s)
<1>4. m \in s /\ m >= k + 1
  BY <1>3
<1> HIDE DEF m
<1>5. m = k + 1
  BY <1>1, <1>4
<1> QED BY <1>5 DEF m

\* What FoldLeft iterates exists for every length of queue.
LEMMA IterationExists ==
  ASSUME NEW d, NEW q, NEW n \in Nat
  PROVE  \E g : Iterates(g, d, q, n)
<1> DEFINE S == {k \in Nat : \E g : Iterates(g, d, q, k)}
<1>1. 0 \in S
  <2> DEFINE g == [s \in SUBSET (1 .. 0) |-> d]
  <2>1. 1 .. 0 = {}
    OBVIOUS
  <2>2. Iterates(g, d, q, 0)
    BY <2>1 DEF Iterates
  <2> QED BY <2>2
<1>2. ASSUME NEW k \in Nat, k \in S PROVE k + 1 \in S
  <2>1. PICK g : Iterates(g, d, q, k)
    BY <1>2
  <2> DEFINE h == [s \in SUBSET (1 .. k + 1) |->
                     IF k + 1 \in s THEN Applied(g[s \ {k + 1}], q[k + 1]) ELSE g[s]]
  <2>2. ASSUME NEW s \in SUBSET (1 .. k + 1)
        PROVE  h[s] = IF s = {} THEN d ELSE Applied(h[s \ {Max(s)}], q[Max(s)])
    <3>1. CASE k + 1 \in s
      <4>1. Max(s) = k + 1
        BY <3>1, MaxOfLast
      <4>2. h[s \ {k + 1}] = g[s \ {k + 1}]
        OBVIOUS
      <4> QED BY <3>1, <4>1, <4>2
    <3>2. CASE k + 1 \notin s
      <4>1. s \in SUBSET (1 .. k)
        BY <3>2
      <4>2. h[s] = g[s]
        BY <3>2
      <4>3. CASE s = {}
        BY <2>1, <4>1, <4>2, <4>3 DEF Iterates
      <4>4. CASE s # {}
        <5>1. g[s] = Applied(g[s \ {Max(s)}], q[Max(s)])
          BY <2>1, <4>1, <4>4, Zenon DEF Iterates
        <5>2. h[s \ {Max(s)}] = g[s \ {Max(s)}]
          BY <3>2
        <5> QED BY <4>2, <4>4, <5>1, <5>2
      <4> QED BY <4>3, <4>4
    <3> QED BY <3>1, <3>2
  <2>3. Iterates(h, d, q, k + 1)
    <3>1. h = [s \in SUBSET (1 .. k + 1) |-> h[s]]
      OBVIOUS
    <3> HIDE DEF h
    <3> QED BY <2>2, <3>1, Zenon DEF Iterates
  <2> QED BY <2>3
<1> HIDE DEF S
<1>3. Nat \subseteq S
  BY <1>1, <1>2, EveryNumber
<1> QED BY <1>3 DEF S

\* f[k] are the tables when k statements of q have run.
Stages(f, d, q) ==
  /\ f[0] = d
  /\ \A k \in 1 .. Len(q) : f[k] = Applied(f[k - 1], q[k])

\* FoldLeft goes through the tables after each of the statements.
LEMMA FoldHasStages ==
  ASSUME NEW d, NEW S, NEW q \in Seq(S)
  PROVE  \E f : Stages(f, d, q) /\ FoldLeft(Applied, d, q) = f[Len(q)]
<1> DEFINE n == Len(q)
<1>1. n \in Nat /\ DOMAIN q = 1 .. n
  OBVIOUS
<1>2. PICK g : /\ Iterates(g, d, q, n)
               /\ FoldLeft(Applied, d, q) = g[1 .. n]
  <2>1. \E g : Iterates(g, d, q, n)
    BY <1>1, IterationExists
  <2> DEFINE g == CHOOSE h : Iterates(h, d, q, n)
  <2>2. Iterates(g, d, q, n)
    BY <2>1
  <2>3. FoldLeft(Applied, d, q) = g[1 .. n]
    BY <1>1, Zenon DEF FoldLeft, MapThenFoldSet, Iterates
  <2> QED BY <2>2, <2>3
<1> DEFINE f == [k \in 0 .. n |-> g[1 .. k]]
<1>3. f[0] = d
  <2>1. 1 .. 0 = {} /\ {} \in SUBSET (1 .. n) /\ f[0] = g[1 .. 0]
    BY <1>1
  <2>2. g[{}] = d
    BY <1>2, <2>1, Zenon DEF Iterates
  <2> QED BY <2>1, <2>2
<1>4. ASSUME NEW k \in 1 .. n PROVE f[k] = Applied(f[k - 1], q[k])
  <2> HIDE DEF n
  <2>1. /\ 1 .. k \in SUBSET (1 .. n) /\ 1 .. k # {} /\ (1 .. k) \ {k} = 1 .. k - 1
        /\ f[k] = g[1 .. k] /\ f[k - 1] = g[1 .. k - 1]
    <3>1. 1 .. k \in SUBSET (1 .. n) /\ 1 .. k # {}
      BY <1>1
    <3>2. (1 .. k) \ {k} = 1 .. k - 1
      BY <1>1
    <3>3. k \in 0 .. n /\ k - 1 \in 0 .. n
      BY <1>1
    <3> QED BY <3>1, <3>2, <3>3
  <2>2. Max(1 .. k) = k
    <3>1. k - 1 \in Nat /\ (k - 1) + 1 = k /\ k \in 1 .. k
      BY <1>1
    <3> QED BY <3>1, MaxOfLast
  <2>3. g[1 .. k] = Applied(g[(1 .. k) \ {Max(1 .. k)}], q[Max(1 .. k)])
    BY <1>2, <2>1, Zenon DEF Iterates
  <2> HIDE DEF f
  <2> QED BY <2>1, <2>2, <2>3, Zenon
<1>5. f[n] = g[1 .. n]
  BY <1>1
<1> HIDE DEF f
<1> QED BY <1>2, <1>3, <1>4, <1>5 DEF Stages

\* There is one way to go through them.
LEMMA StagesAreOne ==
  ASSUME NEW d, NEW S, NEW q \in Seq(S), NEW f, NEW g, Stages(f, d, q), Stages(g, d, q)
  PROVE  f[Len(q)] = g[Len(q)]
<1> DEFINE Same == {k \in Nat : k <= Len(q) => f[k] = g[k]}
<1>1. 0 \in Same
  BY DEF Stages
<1>2. ASSUME NEW k \in Nat, k \in Same PROVE k + 1 \in Same
  <2> SUFFICES ASSUME k + 1 <= Len(q) PROVE f[k + 1] = g[k + 1]
    OBVIOUS
  <2>1. k + 1 \in 1 .. Len(q) /\ (k + 1) - 1 = k /\ f[k] = g[k]
    BY <1>2
  <2> QED BY <2>1 DEF Stages
<1> HIDE DEF Same
<1>3. Nat \subseteq Same
  BY <1>1, <1>2, EveryNumber
<1> QED BY <1>3 DEF Same

\* The tables d once the statements of q have run.
Done(d, q) == FoldLeft(Applied, d, q)

\* So whatever goes through the stages knows what is done at the end.
LEMMA DoneOfStages ==
  ASSUME NEW d, NEW S, NEW q \in Seq(S), NEW f, Stages(f, d, q)
  PROVE  Done(d, q) = f[Len(q)]
  BY FoldHasStages, StagesAreOne DEF Done

\* An empty queue does nothing.
LEMMA DoneNothing ==
  ASSUME NEW d
  PROVE  Done(d, <<>>) = d
<1> DEFINE f == [k \in {0} |-> d]
<1>1. Stages(f, d, <<>>)
  BY DEF Stages
<1>2. <<>> \in Seq({}) /\ Len(<<>>) = 0
  OBVIOUS
<1>3. f[0] = d
  OBVIOUS
<1> HIDE DEF f
<1> QED BY <1>1, <1>2, <1>3, DoneOfStages

\* The first statement has run.
LEMMA DoneAfterFirst ==
  ASSUME NEW d, NEW S, NEW q \in Seq(S), q # <<>>
  PROVE  Done(d, q) = Done(Applied(d, Head(q)), Tail(q))
<1>1. PICK f : Stages(f, d, q) /\ Done(d, q) = f[Len(q)]
  BY FoldHasStages DEF Done
<1> DEFINE n == Len(q)
           g == [k \in 0 .. n - 1 |-> f[k + 1]]
<1>2. /\ n \in Nat \ {0} /\ Tail(q) \in Seq(S) /\ Len(Tail(q)) = n - 1 /\ Head(q) = q[1]
      /\ \A k \in 1 .. n - 1 : Tail(q)[k] = q[k + 1]
  BY EmptySeq
<1>3. g[0] = Applied(d, Head(q))
  BY <1>1, <1>2 DEF Stages
<1>4. ASSUME NEW k \in 1 .. n - 1 PROVE g[k] = Applied(g[k - 1], Tail(q)[k])
  <2>1. /\ k + 1 \in 1 .. n /\ (k + 1) - 1 = k
        /\ g[k] = f[k + 1] /\ g[k - 1] = f[k] /\ Tail(q)[k] = q[k + 1]
    BY <1>2
  <2>2. f[k + 1] = Applied(f[k], q[k + 1])
    BY <1>1, <2>1 DEF Stages
  <2> QED BY <2>1, <2>2
<1>5. g[n - 1] = f[n]
  BY <1>2
<1> HIDE DEF g
<1>6. Stages(g, Applied(d, Head(q)), Tail(q))
  BY <1>2, <1>3, <1>4 DEF Stages
<1> QED BY <1>1, <1>2, <1>5, <1>6, DoneOfStages

\* One more statement.
LEMMA DoneOneMore ==
  ASSUME NEW d, NEW S, NEW q \in Seq(S), NEW s \in S
  PROVE  Done(d, Append(q, s)) = Applied(Done(d, q), s)
<1> DEFINE n == Len(q)
           p == Append(q, s)
<1>1. /\ n \in Nat /\ p \in Seq(S) /\ Len(p) = n + 1 /\ p[n + 1] = s
      /\ \A k \in 1 .. n : p[k] = q[k]
  OBVIOUS
<1>2. PICK f : Stages(f, d, p) /\ Done(d, p) = f[Len(p)]
  BY <1>1, FoldHasStages DEF Done
<1> HIDE DEF p
<1>3. \A k \in 1 .. n : k \in 1 .. Len(p) /\ p[k] = q[k]
  BY <1>1
<1>4. Stages(f, d, q)
  BY <1>2, <1>3 DEF Stages
<1>5. n + 1 \in 1 .. Len(p) /\ (n + 1) - 1 = n
  BY <1>1
<1>6. f[n + 1] = Applied(f[n], s)
  BY <1>1, <1>2, <1>5 DEF Stages
<1>7. Done(d, q) = f[n]
  BY <1>4, DoneOfStages
<1> QED BY <1>1, <1>2, <1>6, <1>7 DEF p

\* A queue of one statement.
LEMMA DoneOne ==
  ASSUME NEW d, NEW s
  PROVE  Done(d, <<s>>) = Applied(d, s)
<1>1. <<s>> \in Seq({s}) /\ <<s>> # <<>> /\ Head(<<s>>) = s /\ Tail(<<s>>) = <<>>
  OBVIOUS
<1> QED BY <1>1, DoneAfterFirst, DoneNothing

\* One queue after another.
LEMMA DoneConcat ==
  ASSUME NEW d, NEW S, NEW p \in Seq(S), NEW q \in Seq(S)
  PROVE  Done(d, p \o q) = Done(Done(d, p), q)
<1> DEFINE m == Len(p)
           n == Len(q)
           u == p \o q
<1>1. /\ u \in Seq(S) /\ Len(u) = m + n /\ m \in Nat /\ n \in Nat
      /\ \A i \in 1 .. m + n : u[i] = IF i <= m THEN p[i] ELSE q[i - m]
  BY ConcatProperties
<1>2. PICK f : Stages(f, d, p) /\ Done(d, p) = f[m]
  BY FoldHasStages DEF Done
<1>3. PICK g : Stages(g, f[m], q) /\ Done(f[m], q) = g[n]
  BY FoldHasStages DEF Done
<1> DEFINE h == [k \in 0 .. m + n |-> IF k <= m THEN f[k] ELSE g[k - m]]
<1> HIDE DEF u
<1>4. h[0] = d
  BY <1>1, <1>2 DEF Stages
<1>5. h[m + n] = g[n]
  BY <1>1, <1>3 DEF Stages
<1>6. ASSUME NEW k \in 1 .. m + n PROVE h[k] = Applied(h[k - 1], u[k])
  <2>1. CASE k <= m
    <3>1. h[k] = f[k] /\ h[k - 1] = f[k - 1] /\ u[k] = p[k] /\ k \in 1 .. m
      BY <1>1, <2>1
    <3>2. f[k] = Applied(f[k - 1], p[k])
      BY <1>2, <3>1 DEF Stages
    <3> QED BY <3>1, <3>2
  <2>2. CASE ~(k <= m)
    <3>1. h[k] = g[k - m] /\ u[k] = q[k - m] /\ k - m \in 1 .. n
      BY <1>1, <2>2
    <3>2. h[k - 1] = g[(k - m) - 1]
      <4>1. CASE k = m + 1
        BY <1>1, <1>3, <4>1 DEF Stages
      <4>2. CASE k # m + 1
        BY <1>1, <2>2, <4>2
      <4> QED BY <4>1, <4>2
    <3>3. g[k - m] = Applied(g[(k - m) - 1], q[k - m])
      BY <1>3, <3>1 DEF Stages
    <3> QED BY <3>1, <3>2, <3>3
  <2> QED BY <2>1, <2>2
<1> HIDE DEF h
<1>7. Stages(h, d, u)
  BY <1>1, <1>4, <1>6 DEF Stages
<1>8. Done(d, u) = h[m + n]
  BY <1>1, <1>7, DoneOfStages
<1> QED BY <1>2, <1>3, <1>5, <1>8 DEF u

\* A queue of two statements.
LEMMA DoneTwo ==
  ASSUME NEW d, NEW a, NEW b
  PROVE  Done(d, <<a, b>>) = Applied(Applied(d, a), b)
<1> DEFINE q == <<a, b>>
<1>1. q \in Seq({a, b}) /\ q # <<>> /\ Head(q) = a /\ Tail(q) = <<b>>
  OBVIOUS
<1> HIDE DEF q
<1>2. Done(d, q) = Done(Applied(d, a), <<b>>)
  BY <1>1, DoneAfterFirst
<1> QED BY <1>2, DoneOne DEF q

\* Two statements and one more, as the methods queue them.
LEMMA DoneTwoAndOne ==
  ASSUME NEW d, NEW a, NEW b, NEW c
  PROVE  Done(d, <<a, b>> \o <<c>>) = Applied(Applied(Applied(d, a), b), c)
<1> DEFINE S == {a, b, c}
           p == <<a, b>>
           q == <<c>>
<1>1. p \in Seq(S) /\ q \in Seq(S)
  OBVIOUS
<1>2. Done(d, p) = Applied(Applied(d, a), b)
  BY DoneTwo
<1>3. Done(Done(d, p), q) = Applied(Done(d, p), c)
  BY DoneOne
<1> HIDE DEF S, p, q
<1>4. Done(d, p \o q) = Done(Done(d, p), q)
  BY <1>1, DoneConcat
<1>5. Done(d, p \o q) = Applied(Applied(Applied(d, a), b), c)
  BY <1>2, <1>3, <1>4
<1> QED BY <1>5 DEF p, q

\* Two statements and two more.
LEMMA DoneTwoAndTwo ==
  ASSUME NEW d, NEW a, NEW b, NEW c, NEW e
  PROVE  Done(d, <<a, b>> \o <<c, e>>) = Applied(Applied(Applied(Applied(d, a), b), c), e)
<1> DEFINE S == {a, b, c, e}
           p == <<a, b>>
           q == <<c, e>>
<1>1. p \in Seq(S) /\ q \in Seq(S)
  OBVIOUS
<1>2. Done(d, p) = Applied(Applied(d, a), b)
  BY DoneTwo
<1>3. Done(Done(d, p), q) = Applied(Applied(Done(d, p), c), e)
  BY DoneTwo
<1> HIDE DEF S, p, q
<1>4. Done(d, p \o q) = Done(Done(d, p), q)
  BY <1>1, DoneConcat
<1>5. Done(d, p \o q) = Applied(Applied(Applied(Applied(d, a), b), c), e)
  BY <1>2, <1>3, <1>4
<1> QED BY <1>5 DEF p, q

-----------------------------------------------------------------------------
(* What the statements do, where the lemmas of WorkStatements_proofs say   *)
(* less.                                                                   *)

\* The increment of run_count is what WorkLifecycle calls Counted.
LEMMA CountExactly ==
  ASSUME NEW d \in Rows, NEW s \in Statements, s.do = "countRun"
  PROVE  /\ Applied(d, s).schedules =
              [d.schedules EXCEPT ![s.id] = Tables!Counted(d.schedules[s.id])]
         /\ Applied(d, s).tasks = d.tasks /\ Applied(d, s).runs = d.runs
         /\ Applied(d, s).revisions = d.revisions /\ Applied(d, s) \in Rows
<1>1. s.id \in Tasks
  BY StatementTypes
<1>2. CASE d.schedules[s.id].status = "absent"
  <2>1. Applied(d, s) = d
    BY <1>2, Zenon DEF Applied
  <2>2. [d.schedules EXCEPT ![s.id] = d.schedules[s.id]] = d.schedules
    BY <1>1 DEF Rows
  <2>3. Tables!Counted(d.schedules[s.id]) = d.schedules[s.id]
    BY <1>2 DEF Tables!Counted
  <2> QED BY <2>1, <2>2, <2>3
<1>3. CASE d.schedules[s.id].status # "absent"
  <2> DEFINE row == [d.schedules[s.id] EXCEPT !.runCount = @ + 1]
             rows == [d.schedules EXCEPT ![s.id] = row]
  <2>1. Applied(d, s) = [d EXCEPT !.schedules = rows]
    BY <1>3, Zenon DEF Applied
  <2>2. Tables!Counted(d.schedules[s.id]) = row
    BY <1>3, Zenon DEF Tables!Counted
  <2> HIDE DEF row
  <2>3. rows = [d.schedules EXCEPT ![s.id] = Tables!Counted(d.schedules[s.id])]
    BY <2>2
  <2> HIDE DEF rows
  <2>4. Applied(d, s).schedules = rows
    BY <2>1 DEF Rows
  <2> QED BY <2>3, <2>4, CountEffect
<1>4. Applied(d, s).tasks = d.tasks /\ Applied(d, s).runs = d.runs
      /\ Applied(d, s).revisions = d.revisions /\ Applied(d, s) \in Rows
  BY CountEffect
<1> QED BY <1>2, <1>3, <1>4

\* moveWorkRun's update writes the status of one run and nothing else.
LEMMA UpdateRunExactly ==
  ASSUME NEW d \in Rows, NEW s \in Statements, s.do = "updateRun"
  PROVE  /\ Applied(d, s).runs = [d.runs EXCEPT ![s.id].status = s.row]
         /\ Applied(d, s).tasks = d.tasks /\ Applied(d, s).schedules = d.schedules
         /\ Applied(d, s).revisions = d.revisions /\ Applied(d, s) \in Rows
<1>1. s.id \in RunIds /\ s.row \in RunStates
  BY StatementTypes
<1> DEFINE rows == [d.runs EXCEPT ![s.id].status = s.row]
<1>2. Applied(d, s) = [d EXCEPT !.runs = rows]
  BY Zenon DEF Applied
<1>3. rows \in [RunIds -> RunRows]
  BY <1>1 DEF Rows, RunRows, RunStates
<1> HIDE DEF rows
<1> QED BY <1>2, <1>3 DEF Rows, rows

\* The one statement of reviseWorkTask over three tables, and nothing else.
LEMMA ReviseExactly ==
  ASSUME NEW d \in Rows, NEW s \in Statements, s.do = "revise"
  PROVE  /\ Applied(d, s).tasks = [d.tasks EXCEPT ![s.id].revision = s.row.revision]
         /\ Applied(d, s).runs =
              [r \in RunIds |-> IF r = s.row.source
                 THEN [d.runs[r] EXCEPT !.revision = s.row.revision] ELSE d.runs[r]]
         /\ Applied(d, s).schedules = d.schedules
         /\ Applied(d, s).revisions = d.revisions \cup {<<s.id, s.row.revision>>}
<1> DEFINE n == s.row.revision
           ts == [d.tasks EXCEPT ![s.id].revision = n]
           rs == [r \in RunIds |-> IF r = s.row.source
                    THEN [d.runs[r] EXCEPT !.revision = n] ELSE d.runs[r]]
           vs == d.revisions \cup {<<s.id, n>>}
           d1 == [d EXCEPT !.tasks = ts]
           d2 == [d1 EXCEPT !.runs = rs]
           d3 == [d2 EXCEPT !.revisions = vs]
<1>1. Applied(d, s) = Revised(d, s.id, s.row)
  BY Zenon DEF Applied
<1> HIDE DEF ts, rs, vs
<1>2. /\ d1.runs = d.runs /\ d1.revisions = d.revisions /\ d1.tasks = ts
      /\ d1.schedules = d.schedules
      /\ d1 = [tasks |-> ts, schedules |-> d.schedules, runs |-> d.runs,
               revisions |-> d.revisions]
  BY DEF Rows
<1> HIDE DEF d1
<1>3. /\ d2.runs = rs /\ d2.revisions = d.revisions /\ d2.tasks = ts
      /\ d2.schedules = d.schedules
      /\ d2 = [tasks |-> ts, schedules |-> d.schedules, runs |-> rs,
               revisions |-> d.revisions]
  BY <1>2
<1> HIDE DEF d2
<1>4. d3.runs = rs /\ d3.revisions = vs /\ d3.tasks = ts /\ d3.schedules = d.schedules
  BY <1>3
<1> HIDE DEF d3
<1>5. Revised(d, s.id, s.row) = d3
  <2>1. Revised(d, s.id, s.row) =
          [d EXCEPT !.tasks = ts,
                    !.runs = [r \in RunIds |-> IF r = s.row.source
                                THEN [@[r] EXCEPT !.revision = n] ELSE @[r]],
                    !.revisions = @ \cup {<<s.id, n>>}]
    BY Zenon DEF Revised, ts
  <2> QED BY <1>2, <1>3, <2>1, Zenon DEF d3, d2, d1, rs, vs
<1> QED BY <1>1, <1>4, <1>5 DEF ts, rs, vs

-----------------------------------------------------------------------------
(* One caller.                                                             *)

\* The revision a task's row holds is the last one that was confirmed.
RevisionsFit(d) ==
  \A t \in Tasks : \A n \in 1 .. MaxRevision :
    Confirmed(d, t, n) => Known(d, t) /\ n <= d.tasks[t].revision

\* What the caller has read is what the tables are.
ReadsFit(c) ==
  /\ pc[c] \in {"tasksRead", "schedulesRead", "read"} => snap[c].tasks = db.tasks
  /\ pc[c] \in {"schedulesRead", "read"} => snap[c].schedules = db.schedules
  /\ pc[c] = "read" => snap[c].runs = db.runs
  /\ at[c] <= now

\* A revision that is to be written is new.
RevisesAnew(d, q) ==
  \A i \in DOMAIN q : q[i].do = "revise" =>
    Len(q) = 1 /\ ~Confirmed(d, q[i].id, q[i].row.revision)

Alone(c) == ReadsFit(c) /\ RevisionsFit(WhenDone) /\ RevisesAnew(db, queue[c])

\* With one caller WhenDone is the tables with that caller's queue done.
LEMMA OneQueue ==
  ASSUME NEW c, Callers = {c}
  PROVE  WhenDone = Done(db, queue[c])
<1>1. (CHOOSE b \in Callers : TRUE) = c
  <2>1. c \in Callers /\ \A b \in Callers : b = c
    OBVIOUS
  <2> QED BY <2>1, Zenon
<1> QED BY <1>1, Zenon DEF WhenDone, Done

\* The caller is about to decide.
Ready(c) == Callers = {c} /\ pc[c] = "read" /\ IInv /\ Alone(c)

\* A caller about to decide has read what stands, and has nothing waiting.
LEMMA ReadyFacts ==
  ASSUME NEW c, Ready(c)
  PROVE  /\ c \in Callers /\ db \in Rows /\ WhenDone = db /\ RevisionsFit(db)
         /\ snap[c].tasks = db.tasks /\ snap[c].schedules = db.schedules
         /\ snap[c].runs = db.runs
         /\ at[c] \in Nat /\ now \in Nat /\ at[c] <= now
<1>1. c \in Callers /\ queue[c] = <<>>
  BY DEF Ready, IInv, Typed
<1>2. WhenDone = db
  BY <1>1, OneQueue, DoneNothing DEF Ready
<1>3. db \in Rows /\ at[c] \in 0 .. MaxTime /\ now \in 0 .. MaxTime
  BY <1>1 DEF Ready, IInv, Typed
<1>4. ReadsFit(c) /\ RevisionsFit(db) /\ pc[c] = "read"
  BY <1>2 DEF Ready, Alone
<1> QED BY <1>1, <1>2, <1>3, <1>4, BoundsAssumption DEF ReadsFit

\* What the decision leads to.
LEMMA Decided ==
  ASSUME NEW c, Ready(c), IInv', NEW q, Queue(c, q)
  PROVE  /\ q \in Seq(Statements) /\ \A i \in DOMAIN q : q[i] \in Statements
         /\ db' = db /\ now' = now /\ queue'[c] = q
         /\ WhenDone' = Done(db, q)
<1>1. c \in Callers
  BY ReadyFacts
<1>2. queue'[c] = q /\ db' = db /\ now' = now /\ queue'[c] \in Seq(Statements)
  BY <1>1 DEF Queue, Ready, IInv, Typed
<1>3. WhenDone' = Done(db', queue'[c])
  <2>1. (CHOOSE b \in Callers : TRUE) = c
    <3>1. c \in Callers /\ \A b \in Callers : b = c
      BY DEF Ready
    <3> QED BY <3>1, Zenon
  <2> QED BY <2>1, Zenon DEF WhenDone, Done
<1>4. \A i \in DOMAIN q : q[i] \in Statements
  BY <1>2
<1> QED BY <1>2, <1>3, <1>4

\* WorkLifecycle says the same of the rows that were read and of the rows there are.
LEMMA SameConstants ==
  ASSUME NEW c
  PROVE  /\ Snap(c)!LiveSchedule = Lifecycle!LiveSchedule
         /\ Snap(c)!ActiveRun = Lifecycle!ActiveRun
         /\ Snap(c)!TerminalRun = Lifecycle!TerminalRun
         /\ Snap(c)!RunTransitions = Lifecycle!RunTransitions
         /\ Snap(c)!ScheduleTransitions = Lifecycle!ScheduleTransitions
         /\ \A s : Snap(c)!Counted(s) = Lifecycle!Counted(s)
         /\ \A s : Tables!Counted(s) = Lifecycle!Counted(s)
         /\ \A s : Snap(c)!FiredSchedule(s) = Lifecycle!FiredSchedule(s)
         /\ \A s : Snap(c)!CanceledSchedule(s) = Lifecycle!CanceledSchedule(s)
         /\ \A to : Snap(c)!TaskStatusAfter(to) = Lifecycle!TaskStatusAfter(to)
         /\ \A S : Snap(c)!Cardinality(S) = Lifecycle!Cardinality(S)
<1>1. Snap(c)!LiveSchedule = Lifecycle!LiveSchedule
  BY Zenon DEF Snap!LiveSchedule, Lifecycle!LiveSchedule
<1>2. Snap(c)!ActiveRun = Lifecycle!ActiveRun
  BY Zenon DEF Snap!ActiveRun, Lifecycle!ActiveRun
<1>3. Snap(c)!TerminalRun = Lifecycle!TerminalRun
  BY Zenon DEF Snap!TerminalRun, Lifecycle!TerminalRun
<1>4. Snap(c)!RunTransitions = Lifecycle!RunTransitions
  BY Zenon DEF Snap!RunTransitions, Lifecycle!RunTransitions
<1>5. Snap(c)!ScheduleTransitions = Lifecycle!ScheduleTransitions
  BY <1>1, Zenon DEF Snap!ScheduleTransitions, Lifecycle!ScheduleTransitions
<1>6. \A s : Snap(c)!Counted(s) = Lifecycle!Counted(s)
  BY Zenon DEF Snap!Counted, Lifecycle!Counted
<1>7. \A s : Tables!Counted(s) = Lifecycle!Counted(s)
  BY Zenon DEF Tables!Counted, Lifecycle!Counted
<1>8. \A s : Snap(c)!FiredSchedule(s) = Lifecycle!FiredSchedule(s)
  <2> SUFFICES ASSUME NEW s PROVE Snap(c)!FiredSchedule(s) = Lifecycle!FiredSchedule(s)
    OBVIOUS
  <2> DEFINE counted == Lifecycle!Counted(s)
             spent == \/ s.kind = "scheduled_once"
                      \/ s.maxRuns # None /\ counted.runCount >= s.maxRuns
  <2>1. Snap(c)!Counted(s) = counted
    BY <1>6
  <2>2. CASE spent
    BY <2>1, <2>2, Zenon DEF Snap!FiredSchedule, Lifecycle!FiredSchedule
  <2>3. CASE ~spent
    BY <2>1, <2>3, Zenon DEF Snap!FiredSchedule, Lifecycle!FiredSchedule
  <2> QED BY <2>2, <2>3
<1>9. \A s : Snap(c)!CanceledSchedule(s) = Lifecycle!CanceledSchedule(s)
  BY <1>1, Zenon DEF Snap!CanceledSchedule, Lifecycle!CanceledSchedule
<1>10. \A to : Snap(c)!TaskStatusAfter(to) = Lifecycle!TaskStatusAfter(to)
  BY Zenon DEF Snap!TaskStatusAfter, Lifecycle!TaskStatusAfter
<1>11. \A S : Snap(c)!Cardinality(S) = Lifecycle!Cardinality(S)
  BY Zenon DEF Snap!Cardinality, Lifecycle!Cardinality
<1> QED BY <1>1, <1>2, <1>3, <1>4, <1>5, <1>6, <1>7, <1>8, <1>9, <1>10, <1>11, Zenon

\* It finds the runs of a task that WorkLifecycle finds.
LEMMA SameRuns ==
  ASSUME NEW c, Ready(c), NEW t
  PROVE  /\ Snap(c)!RunsOf(t) = Lifecycle!RunsOf(t)
         /\ Snap(c)!FiredRuns(t) = Lifecycle!FiredRuns(t)
         /\ Snap(c)!ActiveRunsOf(t) = Lifecycle!ActiveRunsOf(t)
         /\ Snap(c)!HasSchedule(t) <=> Lifecycle!HasSchedule(t)
<1>1. snap[c].runs = WhenDone.runs /\ snap[c].schedules = WhenDone.schedules
  BY ReadyFacts
<1>2. Snap(c)!RunsOf(t) = Lifecycle!RunsOf(t)
  BY <1>1, Zenon DEF Snap!RunsOf, Lifecycle!RunsOf
<1>3. Snap(c)!FiredRuns(t) = Lifecycle!FiredRuns(t)
  BY <1>1, <1>2, Zenon DEF Snap!FiredRuns, Lifecycle!FiredRuns
<1>4. Snap(c)!ActiveRunsOf(t) = Lifecycle!ActiveRunsOf(t)
  BY <1>1, <1>2, SameConstants, Zenon DEF Snap!ActiveRunsOf, Lifecycle!ActiveRunsOf
<1>5. Snap(c)!HasSchedule(t) <=> Lifecycle!HasSchedule(t)
  BY <1>1, Zenon DEF Snap!HasSchedule, Lifecycle!HasSchedule
<1> QED BY <1>2, <1>3, <1>4, <1>5

\* It makes the rows that WorkLifecycle makes.
LEMMA SameRows ==
  ASSUME NEW c, Ready(c)
  PROVE  /\ \A t, trigger, time :
              Snap(c)!QueuedRun(t, trigger, time) = Lifecycle!QueuedRun(t, trigger, time)
         /\ \A t : Snap(c)!FiredRun(t) = Lifecycle!FiredRun(t)
         /\ \A r : Snap(c)!RetriedRun(r) = Lifecycle!RetriedRun(r)
         /\ \A t, to : Snap(c)!SettledTask(t, to) = Lifecycle!SettledTask(t, to)
         /\ \A t : Snap(c)!SettledSchedule(t) = Lifecycle!SettledSchedule(t)
<1>1. /\ snap[c].runs = WhenDone.runs /\ snap[c].schedules = WhenDone.schedules
      /\ snap[c].tasks = WhenDone.tasks
  BY ReadyFacts
<1>2. \A t, trigger, time :
        Snap(c)!QueuedRun(t, trigger, time) = Lifecycle!QueuedRun(t, trigger, time)
  BY <1>1, Zenon DEF Snap!QueuedRun, Lifecycle!QueuedRun
<1>3. \A t : Snap(c)!FiredRun(t) = Lifecycle!FiredRun(t)
  BY <1>1, <1>2, Zenon DEF Snap!FiredRun, Lifecycle!FiredRun
<1>4. \A r : Snap(c)!RetriedRun(r) = Lifecycle!RetriedRun(r)
  BY <1>1, <1>2, Zenon DEF Snap!RetriedRun, Lifecycle!RetriedRun
<1>5. \A t : /\ Snap(c)!RunsOf(t) = Lifecycle!RunsOf(t)
             /\ Snap(c)!HasSchedule(t) <=> Lifecycle!HasSchedule(t)
  BY SameRuns
<1>6. \A t : Snap(c)!RunCount(t) = Lifecycle!RunCount(t)
  BY <1>1, <1>5, SameConstants, Zenon DEF Snap!RunCount, Lifecycle!RunCount
<1>7. \A t : Snap(c)!OneShot(t) <=> Lifecycle!OneShot(t)
  <2> SUFFICES ASSUME NEW t PROVE Snap(c)!OneShot(t) <=> Lifecycle!OneShot(t)
    OBVIOUS
  <2>1. CASE Lifecycle!HasSchedule(t)
    BY <1>1, <1>5, <2>1, Zenon DEF Snap!OneShot, Lifecycle!OneShot
  <2>2. CASE ~Lifecycle!HasSchedule(t)
    BY <1>1, <1>5, <2>2, Zenon DEF Snap!OneShot, Lifecycle!OneShot
  <2> QED BY <2>1, <2>2
<1>8. \A t : Snap(c)!ClosesWork(t) <=> Lifecycle!ClosesWork(t)
  BY <1>1, <1>6, <1>7, Zenon DEF Snap!ClosesWork, Lifecycle!ClosesWork
<1>9. \A t, to : Snap(c)!SettledTask(t, to) = Lifecycle!SettledTask(t, to)
  BY <1>1, <1>8, SameConstants, Zenon DEF Snap!SettledTask, Lifecycle!SettledTask
<1>10. \A t : Snap(c)!SettledSchedule(t) = Lifecycle!SettledSchedule(t)
  BY <1>1, <1>5, <1>6, <1>8, Zenon DEF Snap!SettledSchedule, Lifecycle!SettledSchedule
<1> QED BY <1>2, <1>3, <1>4, <1>9, <1>10

\* It takes the decisions that WorkLifecycle takes; its time may be earlier.
LEMMA SameGuards ==
  ASSUME NEW c, Ready(c)
  PROVE  /\ \A t \in Tasks : Snap(c)!IsDue(t) => Lifecycle!IsDue(t)
         /\ \A t : Snap(c)!AlreadyFired(t) <=> Lifecycle!AlreadyFired(t)
         /\ \A r : Snap(c)!MayRetry(r) <=> Lifecycle!MayRetry(r)
         /\ \A t, src : Snap(c)!MayRevise(t, src) <=> Lifecycle!MayRevise(t, src)
         /\ \A t : Snap(c)!MayCancel(t) <=> Lifecycle!MayCancel(t)
<1>1. /\ snap[c].runs = WhenDone.runs /\ snap[c].schedules = WhenDone.schedules
      /\ snap[c].tasks = WhenDone.tasks /\ WhenDone.schedules \in [Tasks -> ScheduleRows]
      /\ at[c] \in Nat /\ now \in Nat /\ at[c] <= now
  BY ReadyFacts DEF Rows
<1>2. \A t \in Tasks : Snap(c)!IsDue(t) => Lifecycle!IsDue(t)
  <2> SUFFICES ASSUME NEW t \in Tasks, Snap(c)!IsDue(t) PROVE Lifecycle!IsDue(t)
    OBVIOUS
  <2> DEFINE s == WhenDone.schedules[t]
  <2>1. s.status = "enabled" /\ s.nextRunAt # None /\ s.nextRunAt <= at[c]
    BY <1>1, Zenon DEF Snap!IsDue
  <2>2. s.nextRunAt \in Nat
    BY <1>1, <2>1 DEF ScheduleRows
  <2>3. s.nextRunAt <= now
    BY <1>1, <2>1, <2>2
  <2> QED BY <2>1, <2>3, Zenon DEF Lifecycle!IsDue
<1>3. \A t : Snap(c)!AlreadyFired(t) <=> Lifecycle!AlreadyFired(t)
  BY <1>1, SameRuns, Zenon DEF Snap!AlreadyFired, Lifecycle!AlreadyFired
<1>4. \A r : Snap(c)!MayRetry(r) <=> Lifecycle!MayRetry(r)
  BY <1>1, SameRuns, Zenon DEF Snap!MayRetry, Lifecycle!MayRetry
<1>5. \A t, src : Snap(c)!MayRevise(t, src) <=> Lifecycle!MayRevise(t, src)
  BY <1>1, SameRuns, Zenon DEF Snap!MayRevise, Lifecycle!MayRevise
<1>6. \A t : Snap(c)!MayCancel(t) <=> Lifecycle!MayCancel(t)
  BY <1>1, Zenon DEF Snap!MayCancel, Lifecycle!MayCancel
<1> QED BY <1>2, <1>3, <1>4, <1>5, <1>6

-----------------------------------------------------------------------------
(* The tables, column by column, after one statement.                      *)

Columns(e, tasks, schedules, runs, revisions) ==
  /\ e \in Rows
  /\ e.tasks = tasks /\ e.schedules = schedules /\ e.runs = runs /\ e.revisions = revisions

\* A task's row is inserted or written back as a whole.
LEMMA TaskWritten ==
  ASSUME NEW d \in Rows, NEW t \in Tasks, NEW row \in TaskRows,
         NEW do \in {"insertTask", "updateTask"}
  PROVE  Columns(Applied(d, Statement(do, t, row)),
                 [d.tasks EXCEPT ![t] = row], d.schedules, d.runs, d.revisions)
<1> DEFINE s == Statement(do, t, row)
<1>1. s \in Statements /\ s.do = do /\ s.id = t /\ s.row = row
  BY DEF Statement, Statements
<1> HIDE DEF s
<1> QED BY <1>1, TaskEffect DEF Columns, s

\* So is a schedule's row.
LEMMA ScheduleWritten ==
  ASSUME NEW d \in Rows, NEW t \in Tasks, NEW row \in ScheduleRows,
         NEW do \in {"insertSchedule", "updateSchedule"}
  PROVE  Columns(Applied(d, Statement(do, t, row)),
                 d.tasks, [d.schedules EXCEPT ![t] = row], d.runs, d.revisions)
<1> DEFINE s == Statement(do, t, row)
<1>1. s \in Statements /\ s.do = do /\ s.id = t /\ s.row = row
  BY DEF Statement, Statements
<1> HIDE DEF s
<1> QED BY <1>1, ScheduleEffect DEF Columns, s

\* The row of a new task's first revision.
LEMMA RevisionWritten ==
  ASSUME NEW d \in Rows, NEW t \in Tasks
  PROVE  Columns(Applied(d, Statement("insertRevision", t, 1)),
                 d.tasks, d.schedules, d.runs, d.revisions \cup {<<t, 1>>})
<1> DEFINE s == Statement("insertRevision", t, 1)
<1>1. s \in Statements /\ s.do = "insertRevision" /\ s.id = t
  BY DEF Statement, Statements
<1> HIDE DEF s
<1> QED BY <1>1, RevisionEffect DEF Columns, s

\* The row of a new run.
LEMMA RunWritten ==
  ASSUME NEW d \in Rows, NEW r \in RunIds, NEW row \in RunRows
  PROVE  Columns(Applied(d, Statement("insertRun", r, row)),
                 d.tasks, d.schedules, [d.runs EXCEPT ![r] = row], d.revisions)
<1> DEFINE s == Statement("insertRun", r, row)
<1>1. s \in Statements /\ s.do = "insertRun" /\ s.id = r /\ s.row = row
  BY DEF Statement, Statements
<1> HIDE DEF s
<1> QED BY <1>1, InsertRunEffect DEF Columns, s

\* The increment of run_count, as a column.
LEMMA CountWritten ==
  ASSUME NEW d \in Rows, NEW t \in Tasks
  PROVE  Columns(Applied(d, Statement("countRun", t, None)),
                 d.tasks, [d.schedules EXCEPT ![t] = Lifecycle!Counted(d.schedules[t])],
                 d.runs, d.revisions)
<1> DEFINE s == Statement("countRun", t, None)
<1>1. s \in Statements /\ s.do = "countRun" /\ s.id = t
  BY DEF Statement, Statements
<1> HIDE DEF s
<1>2. Tables!Counted(d.schedules[t]) = Lifecycle!Counted(d.schedules[t])
  BY SameConstants
<1> QED BY <1>1, <1>2, CountExactly DEF Columns, s

\* The status of a run.
LEMMA StatusWritten ==
  ASSUME NEW d \in Rows, NEW r \in RunIds, NEW status \in RunStates
  PROVE  Columns(Applied(d, UpdateRun(r, status)),
                 d.tasks, d.schedules, [d.runs EXCEPT ![r].status = status], d.revisions)
<1> DEFINE s == UpdateRun(r, status)
<1>1. s \in Statements /\ s.do = "updateRun" /\ s.id = r /\ s.row = status
  BY DEF UpdateRun, Statement, Statements
<1> HIDE DEF s
<1> QED BY <1>1, UpdateRunExactly DEF Columns, s

\* A queue without a revision.
NoRevision(q) == \A i \in DOMAIN q : q[i].do # "revise"

\* Short queues without a revision.
LEMMA NoneRevises ==
  /\ NoRevision(<<>>)
  /\ \A a : a.do # "revise" => NoRevision(<<a>>)
  /\ \A a, b : a.do # "revise" /\ b.do # "revise" => NoRevision(<<a, b>>)
  BY DEF NoRevision

\* A queue that goes on without a revision.
LEMMA NoneRevisesThen ==
  ASSUME NEW S, NEW p \in Seq(S), NEW T, NEW q \in Seq(T), NoRevision(p), NoRevision(q)
  PROVE  NoRevision(p \o q)
<1>1. /\ DOMAIN (p \o q) = 1 .. Len(p) + Len(q)
      /\ \A i \in 1 .. Len(p) + Len(q) :
           (p \o q)[i] = IF i <= Len(p) THEN p[i] ELSE q[i - Len(p)]
  OBVIOUS
<1> QED BY <1>1 DEF NoRevision

\* The queue of createWork for immediate work.
LEMMA TwoAndTwoNoRevision ==
  ASSUME NEW a, NEW b, NEW c, NEW e,
         a.do # "revise", b.do # "revise", c.do # "revise", e.do # "revise"
  PROVE  NoRevision(<<a, b>> \o <<c, e>>)
<1> DEFINE p == <<a, b>>
           q == <<c, e>>
<1>1. p \in Seq({a, b}) /\ q \in Seq({c, e})
  OBVIOUS
<1>2. NoRevision(p) /\ NoRevision(q)
  BY NoneRevises
<1> HIDE DEF p, q
<1>3. NoRevision(p \o q)
  BY <1>1, <1>2, NoneRevisesThen
<1> QED BY <1>3 DEF p, q

\* The queue of the methods that have three statements.
LEMMA TwoAndOneNoRevision ==
  ASSUME NEW a, NEW b, NEW c, a.do # "revise", b.do # "revise", c.do # "revise"
  PROVE  NoRevision(<<a, b>> \o <<c>>)
<1> DEFINE p == <<a, b>>
           q == <<c>>
<1>1. p \in Seq({a, b}) /\ q \in Seq({c})
  OBVIOUS
<1>2. NoRevision(p) /\ NoRevision(q)
  BY NoneRevises
<1> HIDE DEF p, q
<1>3. NoRevision(p \o q)
  BY <1>1, <1>2, NoneRevisesThen
<1> QED BY <1>3 DEF p, q

\* Tables in which no revision number changes.
LEMMA RevisionsGoOn ==
  ASSUME NEW d, NEW e, RevisionsFit(d), e.revisions = d.revisions,
         \A t \in Tasks : /\ e.tasks[t].revision = d.tasks[t].revision
                          /\ Known(d, t) => Known(e, t)
  PROVE  RevisionsFit(e)
  BY DEF RevisionsFit, Confirmed

\* What a method leads to: nothing it queues fails, and the revisions stay in order.
Settles(c) == RevisionsFit(WhenDone)' /\ RevisesAnew(db, queue[c])'

\* A method settles when its queue writes no revision and keeps revisions in order.
LEMMA SettlesIf ==
  ASSUME NEW c, Ready(c), IInv', NEW q, Queue(c, q), NoRevision(q), RevisionsFit(Done(db, q))
  PROVE  Settles(c)
<1>1. queue'[c] = q /\ db' = db /\ WhenDone' = Done(db, q)
  BY Decided
<1>2. RevisesAnew(db, queue[c])'
  BY <1>1 DEF RevisesAnew, NoRevision
<1>3. RevisionsFit(WhenDone)'
  BY <1>1 DEF RevisionsFit, Known, Confirmed
<1> QED BY <1>2, <1>3 DEF Settles

-----------------------------------------------------------------------------
(* The methods: what the queue adds up to.                                 *)

\* The row of a new task, as WorkLifecycle has it.
LEMMA NewTaskIs ==
  /\ NewTask \in TaskRows /\ NewTask.revision = 1 /\ NewTask.status # "absent"
  /\ NewTask = [Lifecycle!NoTask EXCEPT !.status = "active", !.revision = 1]
<1> DEFINE row == [Lifecycle!NoTask EXCEPT !.status = "active"]
<1>1. row = [status |-> "active", archivedFrom |-> None, revision |-> 0]
  BY DEF Lifecycle!NoTask
<1>2. [Lifecycle!NoTask EXCEPT !.status = "active", !.revision = 1] = [row EXCEPT !.revision = 1]
  OBVIOUS
<1> HIDE DEF row
<1>3. [row EXCEPT !.revision = 1] = NewTask
  BY <1>1 DEF NewTask
<1>4. NewTask \in TaskRows /\ NewTask.revision = 1 /\ NewTask.status # "absent"
  BY DEF NewTask, TaskRows
<1> QED BY <1>2, <1>3, <1>4

\* A task with its first revision.
LEMMA NewTaskFits ==
  ASSUME NEW d \in Rows, NEW e \in Rows, RevisionsFit(d), NEW t \in Tasks, ~Known(d, t),
         e.tasks = [d.tasks EXCEPT ![t] = NewTask],
         e.revisions = d.revisions \cup {<<t, 1>>}
  PROVE  RevisionsFit(e)
<1> SUFFICES ASSUME NEW u \in Tasks, NEW n \in 1 .. MaxRevision, Confirmed(e, u, n)
             PROVE  Known(e, u) /\ n <= e.tasks[u].revision
  BY DEF RevisionsFit
<1>1. CASE u = t
  <2>1. e.tasks[t] = NewTask
    BY DEF Rows
  <2>2. n = 1
    <3>1. <<t, n>> \in e.revisions /\ ~Confirmed(d, t, n)
      BY <1>1 DEF RevisionsFit, Confirmed
    <3>2. <<t, n>> = <<t, 1>>
      BY <3>1 DEF Confirmed
    <3> QED BY <3>2
  <2>3. NewTask.revision = 1 /\ NewTask.status # "absent"
    BY NewTaskIs, Zenon
  <2> QED BY <1>1, <2>1, <2>2, <2>3 DEF Known
<1>2. CASE u # t
  <2>1. e.tasks[u] = d.tasks[u] /\ Confirmed(d, u, n)
    BY <1>2 DEF Rows, Confirmed
  <2> QED BY <2>1 DEF RevisionsFit, Known
<1> QED BY <1>1, <1>2

\* createWork, immediate: task, revision, run and the increment.
LEMMA CreateImmediateWorkIs ==
  ASSUME NEW c, Ready(c), IInv', NEW t \in Tasks, NEW g \in Triggers, NEW r \in RunIds,
         CreateImmediateWork(c, t, g, r)
  PROVE  Lifecycle!CreateImmediateWork(t, g, r) /\ Settles(c)
<1> DEFINE run == [Snap(c)!QueuedRun(t, "immediate", None) EXCEPT !.revision = 1]
           task == Statement("insertTask", t, NewTask)
           revision == Statement("insertRevision", t, 1)
           count == Statement("countRun", run.task, None)
           insert == Statement("insertRun", r, run)
           q == <<task, revision>> \o <<count, insert>>
<1>1. Queue(c, q)
  BY Zenon DEF CreateImmediateWork, CreateWorkRun, InsertTask
<1>2. /\ c \in Callers /\ db \in Rows /\ WhenDone = db /\ RevisionsFit(db) /\ IInv
      /\ snap[c].tasks[t] \in TaskRows
  BY ReadyFacts DEF Ready, Rows
<1>3. /\ run.task = t /\ run \in RunRows
      /\ run = [Lifecycle!QueuedRun(t, "immediate", None) EXCEPT !.revision = 1]
  <2>1. run.task = t /\ run \in RunRows
    BY <1>2 DEF Snap!QueuedRun, RunRows, TaskRows, RunStates
  <2>2. Snap(c)!QueuedRun(t, "immediate", None) = Lifecycle!QueuedRun(t, "immediate", None)
    BY SameRows
  <2> QED BY <2>1, <2>2
<1> HIDE DEF run
<1>4. task.do # "revise" /\ revision.do # "revise" /\ count.do # "revise" /\ insert.do # "revise"
  BY DEF Statement
<1>5. FreshTask(t) /\ FreshRun(r) /\ g.kind = "immediate"
  BY DEF CreateImmediateWork
<1>6. db.tasks[t].status = "absent" /\ db.schedules[t].status = "absent"
      /\ db.runs[r].status = "absent"
  BY <1>2, <1>5, FreshTaskIsNew DEF FreshTask, FreshRun, UsedRun
<1> DEFINE d1 == Applied(db, task)
           d2 == Applied(d1, revision)
           d3 == Applied(d2, count)
           d4 == Applied(d3, insert)
<1>7. Done(db, q) = d4
  BY DoneTwoAndTwo
<1>8. NoRevision(q)
  <2> HIDE DEF task, revision, count, insert
  <2> QED BY <1>4, TwoAndTwoNoRevision
<1> HIDE DEF q
<1>9. Columns(d1, [db.tasks EXCEPT ![t] = NewTask], db.schedules, db.runs, db.revisions)
  BY <1>2, NewTaskIs, TaskWritten
<1> HIDE DEF d1
<1>10. Columns(d2, [db.tasks EXCEPT ![t] = NewTask], db.schedules, db.runs,
               db.revisions \cup {<<t, 1>>})
  <2>1. d1 \in Rows
    BY <1>9 DEF Columns
  <2>2. Columns(d2, d1.tasks, d1.schedules, d1.runs, d1.revisions \cup {<<t, 1>>})
    BY <2>1, RevisionWritten
  <2> QED BY <1>9, <2>2 DEF Columns
<1> HIDE DEF d2
<1>11. Columns(d3, [db.tasks EXCEPT ![t] = NewTask], db.schedules, db.runs,
               db.revisions \cup {<<t, 1>>})
  <2>1. d2 \in Rows /\ d2.schedules = db.schedules
    BY <1>10 DEF Columns
  <2>2. Columns(d3, d2.tasks, [d2.schedules EXCEPT ![t] = Lifecycle!Counted(d2.schedules[t])],
                d2.runs, d2.revisions)
    BY <1>3, <2>1, CountWritten
  <2>3. Lifecycle!Counted(db.schedules[t]) = db.schedules[t]
    BY <1>6 DEF Lifecycle!Counted
  <2>4. [db.schedules EXCEPT ![t] = db.schedules[t]] = db.schedules
    BY <1>2 DEF Rows
  <2>5. [d2.schedules EXCEPT ![t] = Lifecycle!Counted(d2.schedules[t])] = db.schedules
    BY <2>1, <2>3, <2>4
  <2> QED BY <1>10, <2>2, <2>5 DEF Columns
<1> HIDE DEF d3
<1>12. Columns(d4, [db.tasks EXCEPT ![t] = NewTask], db.schedules, [db.runs EXCEPT ![r] = run],
               db.revisions \cup {<<t, 1>>})
  <2>1. d3 \in Rows
    BY <1>11 DEF Columns
  <2>2. Columns(d4, d3.tasks, d3.schedules, [d3.runs EXCEPT ![r] = run], d3.revisions)
    BY <1>3, <2>1, RunWritten
  <2> QED BY <1>11, <2>2 DEF Columns
<1> HIDE DEF d4
<1>13. WhenDone' = d4 /\ now' = now
  BY <1>1, <1>7, Decided
<1>14. Lifecycle!CreateImmediateWork(t, g, r)
  <2>1. /\ WhenDone.tasks[t].status = "absent" /\ g.kind = "immediate"
        /\ WhenDone.runs[r].status = "absent"
    BY <1>2, <1>5, <1>6
  <2>2. /\ WhenDone'.tasks = [WhenDone.tasks EXCEPT ![t] = NewTask]
        /\ WhenDone'.runs = [WhenDone.runs EXCEPT ![r] = run]
        /\ WhenDone'.schedules = WhenDone.schedules
    BY <1>2, <1>12, <1>13 DEF Columns
  <2> QED BY <1>3, <1>13, <2>1, <2>2, NewTaskIs, Zenon DEF Lifecycle!CreateImmediateWork
<1>15. RevisionsFit(d4)
  <2>1. ~Known(db, t)
    BY <1>6 DEF Known
  <2> QED BY <1>2, <1>12, <2>1, NewTaskFits DEF Columns
<1> QED BY <1>1, <1>7, <1>8, <1>14, <1>15, SettlesIf

\* createWork with a schedule: task, revision and schedule.
LEMMA CreateScheduledWorkIs ==
  ASSUME NEW c, Ready(c), IInv', NEW t \in Tasks, NEW g \in Triggers, NEW first \in 0 .. MaxTime,
         CreateScheduledWork(c, t, g, first)
  PROVE  Lifecycle!CreateScheduledWork(t, g, first) /\ Settles(c)
<1> DEFINE row == [status |-> "enabled", kind |-> g.kind, nextRunAt |-> first,
                   runCount |-> 0, maxRuns |-> g.maxRuns]
           task == Statement("insertTask", t, NewTask)
           revision == Statement("insertRevision", t, 1)
           insert == Statement("insertSchedule", t, row)
           q == <<task, revision>> \o <<insert>>
<1>1. Queue(c, q)
  BY Zenon DEF CreateScheduledWork, InsertTask, InsertSchedule
<1>2. /\ c \in Callers /\ db \in Rows /\ WhenDone = db /\ RevisionsFit(db) /\ IInv
  BY ReadyFacts DEF Ready
<1>3. row \in ScheduleRows
  BY TriggersAssumption, BoundsAssumption DEF ScheduleRows, Kinds
<1>4. task.do # "revise" /\ revision.do # "revise" /\ insert.do # "revise"
  BY DEF Statement
<1>5. db.tasks[t].status = "absent" /\ g.kind # "immediate"
  BY DEF CreateScheduledWork, FreshTask
<1> HIDE DEF row
<1> DEFINE d1 == Applied(db, task)
           d2 == Applied(d1, revision)
           d3 == Applied(d2, insert)
<1>6. Done(db, q) = d3
  BY DoneTwoAndOne
<1>7. NoRevision(q)
  <2> HIDE DEF task, revision, insert
  <2> QED BY <1>4, TwoAndOneNoRevision
<1> HIDE DEF q
<1>8. Columns(d1, [db.tasks EXCEPT ![t] = NewTask], db.schedules, db.runs, db.revisions)
  BY <1>2, NewTaskIs, TaskWritten
<1> HIDE DEF d1
<1>9. Columns(d2, [db.tasks EXCEPT ![t] = NewTask], db.schedules, db.runs,
              db.revisions \cup {<<t, 1>>})
  <2>1. d1 \in Rows
    BY <1>8 DEF Columns
  <2>2. Columns(d2, d1.tasks, d1.schedules, d1.runs, d1.revisions \cup {<<t, 1>>})
    BY <2>1, RevisionWritten
  <2> QED BY <1>8, <2>2 DEF Columns
<1> HIDE DEF d2
<1>10. Columns(d3, [db.tasks EXCEPT ![t] = NewTask], [db.schedules EXCEPT ![t] = row], db.runs,
               db.revisions \cup {<<t, 1>>})
  <2>1. d2 \in Rows
    BY <1>9 DEF Columns
  <2>2. Columns(d3, d2.tasks, [d2.schedules EXCEPT ![t] = row], d2.runs, d2.revisions)
    BY <1>3, <2>1, ScheduleWritten
  <2> QED BY <1>9, <2>2 DEF Columns
<1> HIDE DEF d3
<1>11. WhenDone' = d3 /\ now' = now
  BY <1>1, <1>6, Decided
<1>12. Lifecycle!CreateScheduledWork(t, g, first)
  <2>1. WhenDone.tasks[t].status = "absent" /\ g.kind # "immediate"
    BY <1>2, <1>5
  <2>2. /\ WhenDone'.tasks = [WhenDone.tasks EXCEPT ![t] = NewTask]
        /\ WhenDone'.schedules = [WhenDone.schedules EXCEPT ![t] = row]
        /\ WhenDone'.runs = WhenDone.runs
    BY <1>2, <1>10, <1>11 DEF Columns
  <2> QED BY <1>11, <2>1, <2>2, NewTaskIs, Zenon DEF Lifecycle!CreateScheduledWork, row
<1>13. RevisionsFit(d3)
  <2>1. ~Known(db, t)
    BY <1>5 DEF Known
  <2> QED BY <1>2, <1>10, <2>1, NewTaskFits DEF Columns
<1> QED BY <1>1, <1>6, <1>7, <1>12, <1>13, SettlesIf

\* createDueWorkRun: the run, the increment, and the schedule's row on top of it.
LEMMA CreateDueWorkRunIs ==
  ASSUME NEW c, Ready(c), IInv', NEW t \in Tasks, NEW r \in RunIds, CreateDueWorkRun(c, t, r)
  PROVE  Lifecycle!CreateDueWorkRun(t, r) /\ Settles(c)
<1> DEFINE s == db.schedules[t]
           run == Lifecycle!FiredRun(t)
           row == Lifecycle!FiredSchedule(s)
           count == Statement("countRun", run.task, None)
           insert == Statement("insertRun", r, run)
           update == Statement("updateSchedule", t, row)
           q == <<count, insert>> \o <<update>>
<1>1. /\ c \in Callers /\ db \in Rows /\ WhenDone = db /\ RevisionsFit(db) /\ IInv
      /\ snap[c].schedules = db.schedules /\ snap[c].tasks = db.tasks
  BY ReadyFacts DEF Ready
<1>2. /\ Snap(c)!FiredRun(t) = run
      /\ Snap(c)!FiredSchedule(snap[c].schedules[t]) = row
  BY <1>1, SameRows, SameConstants
<1>3. Queue(c, q)
  BY <1>2, Zenon DEF CreateDueWorkRun, CreateWorkRun, UpdateSchedule
<1>4. Lifecycle!IsDue(t) /\ ~Lifecycle!AlreadyFired(t) /\ FreshRun(r)
  BY SameGuards DEF CreateDueWorkRun
<1>5. s \in ScheduleRows /\ s.status = "enabled" /\ s.nextRunAt # None
  BY <1>1, <1>4 DEF Rows, Lifecycle!IsDue
<1>6. row \in ScheduleRows
  BY <1>1, <1>2, <1>5, FiredScheduleRow
<1>7. run.task = t /\ run \in RunRows
  <2>1. db.tasks[t].revision \in Nat
    BY <1>1 DEF Rows, TaskRows
  <2> QED BY <1>1, <1>5, <2>1 DEF Lifecycle!FiredRun, Lifecycle!QueuedRun, RunRows, ScheduleRows,
       RunStates
<1>8. count.do # "revise" /\ insert.do # "revise" /\ update.do # "revise"
  BY DEF Statement
<1>9. db.runs[r].status = "absent"
  BY <1>4 DEF FreshRun, UsedRun
<1> DEFINE counted == Lifecycle!Counted(s)
           d1 == Applied(db, count)
           d2 == Applied(d1, insert)
           d3 == Applied(d2, update)
<1> HIDE DEF run, row, counted
<1>10. Done(db, q) = d3
  BY DoneTwoAndOne
<1>11. NoRevision(q)
  <2> HIDE DEF count, insert, update
  <2> QED BY <1>8, TwoAndOneNoRevision
<1> HIDE DEF q
<1>12. Columns(d1, db.tasks, [db.schedules EXCEPT ![t] = counted], db.runs, db.revisions)
  BY <1>1, <1>7, CountWritten DEF counted
<1> HIDE DEF d1
<1>13. Columns(d2, db.tasks, [db.schedules EXCEPT ![t] = counted],
               [db.runs EXCEPT ![r] = run], db.revisions)
  <2>1. d1 \in Rows
    BY <1>12 DEF Columns
  <2>2. Columns(d2, d1.tasks, d1.schedules, [d1.runs EXCEPT ![r] = run], d1.revisions)
    BY <1>7, <2>1, RunWritten
  <2> QED BY <1>12, <2>2 DEF Columns
<1> HIDE DEF d2
<1>14. Columns(d3, db.tasks, [db.schedules EXCEPT ![t] = row],
               [db.runs EXCEPT ![r] = run], db.revisions)
  <2>1. d2 \in Rows /\ d2.schedules = [db.schedules EXCEPT ![t] = counted]
    BY <1>13 DEF Columns
  <2>2. Columns(d3, d2.tasks, [d2.schedules EXCEPT ![t] = row], d2.runs, d2.revisions)
    BY <1>6, <2>1, ScheduleWritten
  <2>3. [d2.schedules EXCEPT ![t] = row] = [db.schedules EXCEPT ![t] = row]
    BY <2>1, <1>1 DEF Rows
  <2> QED BY <1>13, <2>2, <2>3 DEF Columns
<1> HIDE DEF d3
<1>15. WhenDone' = d3 /\ now' = now
  BY <1>3, <1>10, Decided
<1>16. Lifecycle!CreateDueWorkRun(t, r)
  <2>1. /\ WhenDone'.schedules = [WhenDone.schedules EXCEPT ![t] = row]
        /\ WhenDone'.runs = [WhenDone.runs EXCEPT ![r] = run]
        /\ WhenDone'.tasks = WhenDone.tasks
        /\ WhenDone.runs[r].status = "absent" /\ s = WhenDone.schedules[t]
    BY <1>1, <1>9, <1>14, <1>15 DEF Columns
  <2> QED BY <1>4, <1>15, <2>1, Zenon DEF Lifecycle!CreateDueWorkRun, run, row
<1>17. RevisionsFit(d3)
  BY <1>1, <1>14, RevisionsGoOn DEF Columns, Known
<1> QED BY <1>3, <1>10, <1>11, <1>16, <1>17, SettlesIf

\* The whole row of the task is written back as it was read.
LEMMA RetryWorkRunIs ==
  ASSUME NEW c, Ready(c), IInv', NEW r \in RunIds, NEW new \in RunIds, RetryWorkRun(c, r, new)
  PROVE  Lifecycle!RetryWorkRun(r, new) /\ Settles(c)
<1> DEFINE t == db.runs[r].task
           run == Lifecycle!RetriedRun(r)
           count == Statement("countRun", run.task, None)
           insert == Statement("insertRun", new, run)
           update == Statement("updateTask", t, db.tasks[t])
           q == <<count, insert>> \o <<update>>
<1>1. /\ c \in Callers /\ db \in Rows /\ WhenDone = db /\ RevisionsFit(db) /\ IInv
      /\ snap[c].runs = db.runs /\ snap[c].tasks = db.tasks
  BY ReadyFacts DEF Ready
<1>2. Snap(c)!RetriedRun(r) = run
  BY SameRows
<1>3. Queue(c, q)
  BY <1>1, <1>2, Zenon DEF RetryWorkRun, CreateWorkRun, UpdateTask
<1>4. Lifecycle!MayRetry(r) /\ FreshRun(new)
  BY SameGuards DEF RetryWorkRun
<1>5. t \in Tasks
  <2>1. db.runs[r].status # "absent"
    BY <1>1, <1>4 DEF Lifecycle!MayRetry
  <2> QED BY <1>1, <2>1 DEF IInv, TablesFit, RowsFit, RunFits
<1>6. run.task = t /\ run \in RunRows
  <2>1. db.tasks[t].revision \in Nat /\ db.runs[r] \in RunRows
    BY <1>1, <1>5 DEF Rows, TaskRows
  <2> QED BY <1>1, <1>5, <2>1 DEF Lifecycle!RetriedRun, Lifecycle!QueuedRun, RunRows, RunStates
<1>7. count.do # "revise" /\ insert.do # "revise" /\ update.do # "revise"
  BY DEF Statement
<1>8. db.runs[new].status = "absent"
  BY <1>4 DEF FreshRun, UsedRun
<1> DEFINE counted == Lifecycle!Counted(db.schedules[t])
           d1 == Applied(db, count)
           d2 == Applied(d1, insert)
           d3 == Applied(d2, update)
<1> HIDE DEF run, counted, t
<1>9. Done(db, q) = d3
  BY DoneTwoAndOne
<1>10. NoRevision(q)
  <2> HIDE DEF count, insert, update
  <2> QED BY <1>7, TwoAndOneNoRevision
<1> HIDE DEF q
<1>11. Columns(d1, db.tasks, [db.schedules EXCEPT ![t] = counted], db.runs, db.revisions)
  BY <1>1, <1>5, <1>6, CountWritten DEF counted
<1> HIDE DEF d1
<1>12. Columns(d2, db.tasks, [db.schedules EXCEPT ![t] = counted],
               [db.runs EXCEPT ![new] = run], db.revisions)
  <2>1. d1 \in Rows
    BY <1>11 DEF Columns
  <2>2. Columns(d2, d1.tasks, d1.schedules, [d1.runs EXCEPT ![new] = run], d1.revisions)
    BY <1>6, <2>1, RunWritten
  <2> QED BY <1>11, <2>2 DEF Columns
<1> HIDE DEF d2
<1>13. Columns(d3, db.tasks, [db.schedules EXCEPT ![t] = counted],
               [db.runs EXCEPT ![new] = run], db.revisions)
  <2>1. d2 \in Rows /\ d2.tasks = db.tasks /\ db.tasks[t] \in TaskRows
    BY <1>1, <1>5, <1>12 DEF Columns, Rows
  <2>2. Columns(d3, [d2.tasks EXCEPT ![t] = db.tasks[t]], d2.schedules, d2.runs, d2.revisions)
    BY <1>5, <2>1, TaskWritten
  <2>3. [d2.tasks EXCEPT ![t] = db.tasks[t]] = db.tasks
    BY <2>1 DEF Rows
  <2> QED BY <1>12, <2>2, <2>3 DEF Columns
<1> HIDE DEF d3
<1>14. WhenDone' = d3 /\ now' = now
  BY <1>3, <1>9, Decided
<1>15. Lifecycle!RetryWorkRun(r, new)
  <2>1. /\ WhenDone'.schedules = [WhenDone.schedules EXCEPT ![t] = counted]
        /\ WhenDone'.runs = [WhenDone.runs EXCEPT ![new] = run]
        /\ WhenDone'.tasks = WhenDone.tasks
        /\ WhenDone.runs[new].status = "absent" /\ t = WhenDone.runs[r].task
        /\ counted = Lifecycle!Counted(WhenDone.schedules[t])
    BY <1>1, <1>8, <1>13, <1>14 DEF Columns, t, counted
  <2> QED BY <1>4, <1>14, <2>1, Zenon DEF Lifecycle!RetryWorkRun, run
<1>16. RevisionsFit(d3)
  BY <1>1, <1>13, RevisionsGoOn DEF Columns, Known
<1> QED BY <1>3, <1>9, <1>10, <1>15, <1>16, SettlesIf

\* A decision of one statement.
LEMMA DecidedOne ==
  ASSUME NEW c, Ready(c), IInv', NEW s, Queue(c, <<s>>)
  PROVE  WhenDone' = Applied(db, s) /\ now' = now /\ queue'[c] = <<s>> /\ db' = db
<1>1. WhenDone' = Done(db, <<s>>) /\ now' = now /\ queue'[c] = <<s>> /\ db' = db
  BY Decided, Zenon
<1> QED BY <1>1, DoneOne

\* A method with one statement that is no revision settles.
LEMMA SettlesIfOne ==
  ASSUME NEW c, Ready(c), IInv', NEW s, Queue(c, <<s>>), s.do # "revise",
         RevisionsFit(Applied(db, s))
  PROVE  Settles(c)
<1> DEFINE q == <<s>>
<1>1. NoRevision(q) /\ Done(db, q) = Applied(db, s)
  BY NoneRevises, DoneOne
<1> HIDE DEF q
<1>2. Queue(c, q)
  BY DEF q
<1> QED BY <1>1, <1>2, SettlesIf

\* reviseWorkTask: one statement over three tables.
LEMMA ReviseWorkTaskIs ==
  ASSUME NEW c, Ready(c), IInv', NEW t \in Tasks, NEW src \in RunIds \cup {None},
         ReviseWorkTask(c, t, src)
  PROVE  Lifecycle!ReviseWorkTask(t, src) /\ Settles(c)
<1> DEFINE n == db.tasks[t].revision + 1
           s == Statement("revise", t, [revision |-> n, source |-> src])
           d == Applied(db, s)
<1>1. /\ c \in Callers /\ db \in Rows /\ WhenDone = db /\ RevisionsFit(db) /\ IInv
      /\ snap[c].tasks = db.tasks
  BY ReadyFacts DEF Ready
<1>2. Queue(c, <<s>>)
  BY <1>1, Zenon DEF ReviseWorkTask
<1>3. Lifecycle!MayRevise(t, src)
  BY SameGuards DEF ReviseWorkTask
<1>4. /\ db.tasks[t] \in TaskRows /\ db.tasks[t].status = "active"
      /\ db.tasks[t].revision < MaxRevision
  BY <1>1, <1>3 DEF Lifecycle!MayRevise, Rows
<1>5. n \in 1 .. MaxRevision
  BY <1>4, BoundsAssumption DEF TaskRows
<1>6. /\ s \in Statements /\ s.do = "revise" /\ s.id = t
      /\ s.row.revision = n /\ s.row.source = src
  <2> HIDE DEF n
  <2> QED BY <1>5 DEF Statement, Statements
<1>7. src = None => src \notin RunIds
  BY RunIdsAssumption, NoneAssumption
<1> HIDE DEF n, s
<1>8. /\ d \in Rows
      /\ d.tasks = [db.tasks EXCEPT ![t].revision = n]
      /\ d.runs = [r \in RunIds |-> IF r = src THEN [db.runs[r] EXCEPT !.revision = n]
                                    ELSE db.runs[r]]
      /\ d.schedules = db.schedules /\ d.revisions = db.revisions \cup {<<t, n>>}
  <2>1. d \in Rows
    BY <1>1, <1>6, ReviseEffect
  <2>2. /\ d.tasks = [db.tasks EXCEPT ![s.id].revision = s.row.revision]
        /\ d.runs = [r \in RunIds |-> IF r = s.row.source
                       THEN [db.runs[r] EXCEPT !.revision = s.row.revision] ELSE db.runs[r]]
        /\ d.schedules = db.schedules /\ d.revisions = db.revisions \cup {<<s.id, s.row.revision>>}
    BY <1>1, <1>6, ReviseExactly
  <2> QED BY <1>6, <2>1, <2>2, Zenon
<1> HIDE DEF d
<1>9. WhenDone' = d /\ now' = now /\ queue'[c] = <<s>> /\ db' = db
  BY <1>2, DecidedOne, Zenon DEF d
<1>10. d.runs = IF src = None THEN db.runs ELSE [db.runs EXCEPT ![src].revision = n]
  <2>1. CASE src = None
    <3>1. \A r \in RunIds : d.runs[r] = db.runs[r]
      BY <1>7, <1>8, <2>1, Zenon
    <3>2. d.runs \in [RunIds -> RunRows] /\ db.runs \in [RunIds -> RunRows]
      BY <1>1, <1>8 DEF Rows
    <3>3. d.runs = db.runs
      BY <3>1, <3>2
    <3> QED BY <2>1, <3>3
  <2>2. CASE src # None
    <3>1. src \in RunIds
      BY <2>2
    <3> DEFINE row == [db.runs[src] EXCEPT !.revision = n]
               rows == [db.runs EXCEPT ![src] = row]
    <3>2. d.runs[src] = row /\ \A r \in RunIds \ {src} : d.runs[r] = db.runs[r]
      BY <1>8, <3>1, Zenon
    <3>3. d.runs \in [RunIds -> RunRows] /\ db.runs \in [RunIds -> RunRows]
      BY <1>1, <1>8 DEF Rows
    <3>4. [db.runs EXCEPT ![src].revision = n] = rows
      BY Zenon
    <3> HIDE DEF row
    <3>5. d.runs = rows
      BY <3>1, <3>2, <3>3
    <3> HIDE DEF rows
    <3> QED BY <2>2, <3>4, <3>5
  <2> QED BY <2>1, <2>2
<1>11. Lifecycle!ReviseWorkTask(t, src)
  <2>1. /\ WhenDone'.tasks = [WhenDone.tasks EXCEPT ![t].revision = n]
        /\ WhenDone'.schedules = WhenDone.schedules
        /\ n = WhenDone.tasks[t].revision + 1
        /\ WhenDone'.runs = IF src = None THEN WhenDone.runs
                            ELSE [WhenDone.runs EXCEPT ![src].revision = n]
    BY <1>1, <1>8, <1>9, <1>10, Zenon DEF n
  <2> QED BY <1>3, <1>9, <2>1, Zenon DEF Lifecycle!ReviseWorkTask
<1>12. RevisionsFit(d)
  <2> SUFFICES ASSUME NEW u \in Tasks, NEW m \in 1 .. MaxRevision, Confirmed(d, u, m)
               PROVE  Known(d, u) /\ m <= d.tasks[u].revision
    BY DEF RevisionsFit
  <2>1. Confirmed(db, u, m) \/ (u = t /\ m = n)
    <3>1. <<u, m>> \in db.revisions \/ <<u, m>> = <<t, n>>
      BY <1>8 DEF Confirmed
    <3> QED BY <3>1 DEF Confirmed
  <2>2. Confirmed(db, u, m) => Known(db, u) /\ m <= db.tasks[u].revision
    BY <1>1 DEF RevisionsFit
  <2>3. /\ d.tasks[u].status = db.tasks[u].status
        /\ d.tasks[u].revision = IF u = t THEN n ELSE db.tasks[u].revision
    <3>1. db.tasks \in [Tasks -> TaskRows]
      BY <1>1 DEF Rows
    <3> QED BY <1>5, <1>8, <3>1 DEF TaskRows
  <2>4. db.tasks[u].revision \in Nat /\ db.tasks[t].revision <= n
    BY <1>1, <1>4 DEF Rows, TaskRows, n
  <2> QED BY <1>4, <1>5, <2>1, <2>2, <2>3, <2>4 DEF Known
<1>13. RevisesAnew(db, queue[c])'
  <2>1. ~Confirmed(db, t, n)
    BY <1>1, <1>4, <1>5 DEF RevisionsFit, n, TaskRows
  <2>2. queue'[c] = <<s>> /\ Len(queue'[c]) = 1 /\ DOMAIN queue'[c] = {1} /\ queue'[c][1] = s
    BY <1>9
  <2> QED BY <1>6, <1>9, <2>1, <2>2 DEF RevisesAnew, Confirmed
<1>14. RevisionsFit(WhenDone)'
  BY <1>9, <1>12 DEF RevisionsFit, Confirmed, Known
<1> QED BY <1>11, <1>13, <1>14 DEF Settles

\* moveWorkSchedule: one row.
LEMMA MoveWorkScheduleIs ==
  ASSUME NEW c, Ready(c), IInv', NEW t \in Tasks, NEW to \in {"paused", "enabled"},
         MoveWorkSchedule(c, t, to)
  PROVE  Lifecycle!MoveWorkSchedule(t, to) /\ Settles(c)
<1> DEFINE s == db.schedules[t]
           row == [s EXCEPT !.status = to]
           update == Statement("updateSchedule", t, row)
           d == Applied(db, update)
<1>1. /\ c \in Callers /\ db \in Rows /\ WhenDone = db /\ RevisionsFit(db)
      /\ snap[c].schedules = db.schedules
  BY ReadyFacts DEF Ready
<1>2. Queue(c, <<update>>)
  BY <1>1, Zenon DEF MoveWorkSchedule, UpdateSchedule
<1>3. <<s.status, to>> \in Lifecycle!ScheduleTransitions
  BY <1>1, SameConstants, Zenon DEF MoveWorkSchedule
<1>4. row \in ScheduleRows
  BY <1>1 DEF Rows, ScheduleRows
<1>5. update.do # "revise"
  BY DEF Statement
<1> HIDE DEF row
<1>6. Columns(d, db.tasks, [db.schedules EXCEPT ![t] = row], db.runs, db.revisions)
  BY <1>1, <1>4, ScheduleWritten
<1> HIDE DEF d
<1>7. WhenDone' = d /\ now' = now
  BY <1>2, DecidedOne, Zenon DEF d
<1>8. Lifecycle!MoveWorkSchedule(t, to)
  <2>1. /\ WhenDone'.schedules = [WhenDone.schedules EXCEPT ![t].status = to]
        /\ WhenDone'.tasks = WhenDone.tasks /\ WhenDone'.runs = WhenDone.runs
    BY <1>1, <1>6, <1>7, Zenon DEF Columns, row
  <2>2. Lifecycle!TaskAfterScheduleMove(t, to) = WhenDone.tasks[t]
    BY DEF Lifecycle!TaskAfterScheduleMove
  <2>3. [WhenDone.tasks EXCEPT ![t] = WhenDone.tasks[t]] = WhenDone.tasks
    BY <1>1 DEF Rows
  <2> QED BY <1>1, <1>3, <1>7, <2>1, <2>2, <2>3, Zenon DEF Lifecycle!MoveWorkSchedule
<1>9. RevisionsFit(d)
  BY <1>1, <1>6, RevisionsGoOn DEF Columns, Known
<1> HIDE DEF update
<1> QED BY <1>2, <1>5, <1>8, <1>9, SettlesIfOne DEF d

\* A decision that writes the row of one task, with the revision it has.
LEMMA TaskDecided ==
  ASSUME NEW c, Ready(c), IInv', NEW t \in Tasks, NEW row \in TaskRows, row.status # "absent",
         row.revision = db.tasks[t].revision, Queue(c, <<UpdateTask(t, row)>>)
  PROVE  /\ WhenDone'.tasks = [WhenDone.tasks EXCEPT ![t] = row]
         /\ WhenDone'.schedules = WhenDone.schedules /\ WhenDone'.runs = WhenDone.runs
         /\ now' = now /\ Settles(c)
<1> DEFINE update == Statement("updateTask", t, row)
           d == Applied(db, update)
<1>1. /\ c \in Callers /\ db \in Rows /\ WhenDone = db /\ RevisionsFit(db)
  BY ReadyFacts DEF Ready
<1>2. Queue(c, <<update>>)
  BY Zenon DEF UpdateTask
<1>3. update.do # "revise"
  BY DEF Statement
<1>4. Columns(d, [db.tasks EXCEPT ![t] = row], db.schedules, db.runs, db.revisions)
  BY <1>1, TaskWritten
<1> HIDE DEF d
<1>5. WhenDone' = d /\ now' = now
  BY <1>2, DecidedOne, Zenon DEF d
<1>6. RevisionsFit(d)
  <2>1. /\ \A u \in Tasks : d.tasks[u] = IF u = t THEN row ELSE db.tasks[u]
        /\ d.revisions = db.revisions
    BY <1>1, <1>4 DEF Columns, Rows
  <2> QED BY <1>1, <2>1, RevisionsGoOn DEF Known
<1> HIDE DEF update
<1>7. Settles(c)
  BY <1>2, <1>3, <1>6, SettlesIfOne DEF d
<1> QED BY <1>1, <1>4, <1>5, <1>7 DEF Columns

\* archiveWorkTask: one row.
LEMMA ArchiveWorkTaskIs ==
  ASSUME NEW c, Ready(c), IInv', NEW t \in Tasks, ArchiveWorkTask(c, t)
  PROVE  Lifecycle!ArchiveWorkTask(t) /\ Settles(c)
<1> DEFINE s == db.tasks[t]
           archived == [s EXCEPT !.status = "archived"]
           row == [archived EXCEPT !.archivedFrom = s.status]
<1>1. /\ c \in Callers /\ db \in Rows /\ WhenDone = db /\ snap[c].tasks = db.tasks
  BY ReadyFacts
<1>2. s \in TaskRows /\ s.status \in {"completed", "canceled"}
  BY <1>1 DEF Rows, ArchiveWorkTask
<1>3. row = [s EXCEPT !.status = "archived", !.archivedFrom = s.status]
  BY Zenon
<1>4. Queue(c, <<UpdateTask(t, row)>>)
  BY <1>1, <1>3, Zenon DEF ArchiveWorkTask
<1>5. archived \in TaskRows /\ archived.status = "archived" /\ archived.revision = s.revision
  BY <1>2 DEF TaskRows
<1>6. [db.tasks EXCEPT ![t].status = "archived", ![t].archivedFrom = s.status]
        = [db.tasks EXCEPT ![t] = row]
  <2> DEFINE some == [db.tasks EXCEPT ![t] = archived]
  <2>1. some[t] = archived /\ db.tasks \in [Tasks -> TaskRows]
    BY <1>1 DEF Rows
  <2>2. [some EXCEPT ![t].archivedFrom = s.status] = [some EXCEPT ![t] = row]
    <3> HIDE DEF some
    <3> QED BY <2>1, Zenon
  <2> HIDE DEF archived
  <2>3. [some EXCEPT ![t] = row] = [db.tasks EXCEPT ![t] = row]
    <3> HIDE DEF row
    <3> QED BY <2>1
  <2>4. [db.tasks EXCEPT ![t].status = "archived", ![t].archivedFrom = s.status]
          = [some EXCEPT ![t].archivedFrom = s.status]
    BY Zenon DEF archived
  <2> QED BY <2>2, <2>3, <2>4, Zenon
<1> HIDE DEF archived
<1>7. row \in TaskRows /\ row.status = "archived" /\ row.revision = s.revision
  BY <1>2, <1>5 DEF TaskRows
<1> HIDE DEF row
<1>8. /\ WhenDone'.tasks = [WhenDone.tasks EXCEPT ![t] = row]
      /\ WhenDone'.schedules = WhenDone.schedules /\ WhenDone'.runs = WhenDone.runs
      /\ now' = now /\ Settles(c)
  <2>1. row.status # "absent" /\ row.revision = db.tasks[t].revision
    BY <1>7
  <2> QED BY <1>4, <1>7, <2>1, TaskDecided
<1>9. WhenDone.tasks[t].status \in {"completed", "canceled"}
  BY <1>1, <1>2
<1>10. WhenDone'.tasks = [WhenDone.tasks EXCEPT ![t].status = "archived",
                                                ![t].archivedFrom = WhenDone.tasks[t].status]
  BY <1>1, <1>6, <1>8, Zenon
<1> QED BY <1>8, <1>9, <1>10, Zenon DEF Lifecycle!ArchiveWorkTask

\* restoreWorkTask: one row.
LEMMA RestoreWorkTaskIs ==
  ASSUME NEW c, Ready(c), IInv', NEW t \in Tasks, RestoreWorkTask(c, t)
  PROVE  Lifecycle!RestoreWorkTask(t) /\ Settles(c)
<1> DEFINE s == db.tasks[t]
           row == [s EXCEPT !.status = s.archivedFrom]
<1>1. /\ c \in Callers /\ db \in Rows /\ WhenDone = db /\ snap[c].tasks = db.tasks /\ IInv
  BY ReadyFacts DEF Ready
<1>2. s \in TaskRows /\ s.status = "archived" /\ s.archivedFrom \in {"completed", "canceled"}
  BY <1>1 DEF Rows, TaskRows, RestoreWorkTask, IInv, TablesFit, RowsFit, TaskFits
<1>3. Queue(c, <<UpdateTask(t, row)>>)
  BY <1>1, Zenon DEF RestoreWorkTask
<1>4. row \in TaskRows /\ row.status # "absent" /\ row.revision = s.revision
  BY <1>2 DEF TaskRows
<1>5. [db.tasks EXCEPT ![t].status = s.archivedFrom] = [db.tasks EXCEPT ![t] = row]
  BY Zenon
<1> HIDE DEF row
<1>6. /\ WhenDone'.tasks = [WhenDone.tasks EXCEPT ![t] = row]
      /\ WhenDone'.schedules = WhenDone.schedules /\ WhenDone'.runs = WhenDone.runs
      /\ now' = now /\ Settles(c)
  BY <1>3, <1>4, TaskDecided
<1>7. WhenDone.tasks[t].status = "archived"
  BY <1>1, <1>2
<1>8. WhenDone'.tasks = [WhenDone.tasks EXCEPT ![t].status = WhenDone.tasks[t].archivedFrom]
  BY <1>1, <1>5, <1>6, Zenon
<1> QED BY <1>6, <1>7, <1>8, Zenon DEF Lifecycle!RestoreWorkTask

\* A method that throws or returns early.
LEMMA GiveUpIs ==
  ASSUME NEW c, Ready(c), IInv', GiveUp(c)
  PROVE  UNCHANGED Lifecycle!vars /\ Settles(c)
<1>1. Queue(c, <<>>)
  BY DEF GiveUp
<1>2. WhenDone = db /\ RevisionsFit(db) /\ Done(db, <<>>) = db
  BY ReadyFacts, DoneNothing
<1>3. WhenDone' = WhenDone /\ now' = now
  BY <1>1, <1>2, Decided
<1>4. Settles(c)
  BY <1>1, <1>2, NoneRevises, SettlesIf
<1> QED BY <1>3, <1>4, Zenon DEF Lifecycle!vars

\* moveWorkRun: the run alone, or the run, then its task, then the task's schedule.
LEMMA DoneOneAndRest ==
  ASSUME NEW d, NEW a, NEW b, NEW e
  PROVE  /\ Done(d, <<a>> \o <<>>) = Applied(d, a)
         /\ Done(d, <<a>> \o (<<b>> \o <<>>)) = Applied(Applied(d, a), b)
         /\ Done(d, <<a>> \o (<<b>> \o <<e>>)) = Applied(Applied(Applied(d, a), b), e)
<1> DEFINE S == {a, b, e}
           p == <<a>>
           q == <<b>>
           u == <<e>>
           d1 == Applied(d, a)
           d2 == Applied(d1, b)
<1>1. /\ p \in Seq(S) /\ q \in Seq(S) /\ u \in Seq(S) /\ <<>> \in Seq(S)
  OBVIOUS
<1>2. /\ Done(d, p) = d1 /\ Done(d1, q) = d2
      /\ Done(d2, u) = Applied(d2, e)
      /\ Done(d1, <<>>) = d1 /\ Done(d2, <<>>) = d2
  BY DoneOne, DoneNothing
<1> HIDE DEF S, p, q, u, d1, d2
<1>3. q \o <<>> \in Seq(S) /\ q \o u \in Seq(S)
  BY <1>1, ConcatProperties
<1>4. Done(d, p \o <<>>) = d1
  BY <1>1, <1>2, DoneConcat
<1>5. Done(d1, q \o <<>>) = d2
  BY <1>1, <1>2, DoneConcat
<1>6. Done(d1, q \o u) = Applied(d2, e)
  BY <1>1, <1>2, DoneConcat
<1>7. Done(d, p \o (q \o <<>>)) = d2
  BY <1>1, <1>2, <1>3, <1>5, DoneConcat
<1>8. Done(d, p \o (q \o u)) = Applied(d2, e)
  <2> DEFINE w == q \o u
  <2>1. w \in Seq(S) /\ Done(d1, w) = Applied(d2, e)
    BY <1>3, <1>6
  <2> HIDE DEF w
  <2>2. Done(d, p \o w) = Done(Done(d, p), w)
    BY <1>1, <2>1, DoneConcat
  <2> QED BY <1>2, <2>1, <2>2 DEF w
<1>9. /\ Done(d, p \o <<>>) = Applied(d, a)
      /\ Done(d, p \o (q \o <<>>)) = Applied(Applied(d, a), b)
      /\ Done(d, p \o (q \o u)) = Applied(Applied(Applied(d, a), b), e)
  BY <1>4, <1>7, <1>8, Zenon DEF d1, d2
<1> QED BY <1>9, Zenon DEF p, q, u

\* The queue of moveWorkRun, which has one to three statements.
LEMMA OneAndRestNoRevision ==
  ASSUME NEW a, NEW b, NEW e, a.do # "revise", b.do # "revise", e.do # "revise"
  PROVE  /\ NoRevision(<<a>> \o <<>>)
         /\ NoRevision(<<a>> \o (<<b>> \o <<>>))
         /\ NoRevision(<<a>> \o (<<b>> \o <<e>>))
<1> DEFINE S == {a, b, e}
           p == <<a>>
           q == <<b>>
           u == <<e>>
<1>1. /\ p \in Seq(S) /\ q \in Seq(S) /\ u \in Seq(S) /\ <<>> \in Seq(S)
  OBVIOUS
<1>2. NoRevision(p) /\ NoRevision(q) /\ NoRevision(u) /\ NoRevision(<<>>)
  BY NoneRevises
<1> HIDE DEF S, p, q, u
<1>3. q \o <<>> \in Seq(S) /\ q \o u \in Seq(S)
  BY <1>1, ConcatProperties
<1>4. NoRevision(p \o <<>>) /\ NoRevision(q \o <<>>) /\ NoRevision(q \o u)
  BY <1>1, <1>2, NoneRevisesThen
<1>5. NoRevision(p \o (q \o <<>>)) /\ NoRevision(p \o (q \o u))
  BY <1>1, <1>2, <1>3, <1>4, NoneRevisesThen
<1> QED BY <1>4, <1>5 DEF p, q, u

\* moveWorkRun: the run, and the task and the schedule it may close.
LEMMA MoveWorkRunIs ==
  ASSUME NEW c, Ready(c), IInv', NEW r \in RunIds,
         NEW to \in Snap(c)!ActiveRun \cup Snap(c)!TerminalRun, MoveWorkRun(c, r, to)
  PROVE  Lifecycle!MoveWorkRun(r, to) /\ Settles(c)
<1> DEFINE t == db.runs[r].task
           row == Lifecycle!SettledTask(t, to)
           closed == Lifecycle!SettledSchedule(t)
           a == UpdateRun(r, to)
           b == Statement("updateTask", t, row)
           e == Statement("updateSchedule", t, closed)
           close == IF Lifecycle!HasSchedule(t) THEN <<e>> ELSE <<>>
           rest == IF to \notin Lifecycle!TerminalRun THEN <<>> ELSE <<b>> \o close
           q == <<a>> \o rest
<1>1. /\ c \in Callers /\ db \in Rows /\ WhenDone = db /\ RevisionsFit(db) /\ IInv
      /\ snap[c].runs = db.runs /\ snap[c].tasks = db.tasks /\ snap[c].schedules = db.schedules
  BY ReadyFacts DEF Ready
<1>2. <<db.runs[r].status, to>> \in Lifecycle!RunTransitions
  BY <1>1, SameConstants, Zenon DEF MoveWorkRun
<1>3. db.runs[r].status # "absent" /\ to \in RunStates
  BY <1>2 DEF Lifecycle!RunTransitions, RunStates
<1>4. t \in Tasks /\ Known(db, t)
  BY <1>1, <1>3 DEF IInv, TablesFit, RowsFit, RunFits
<1>5. Queue(c, q)
  <2> DEFINE seen == IF Snap(c)!HasSchedule(t) THEN <<e>> ELSE <<>>
             then == IF to \notin Snap(c)!TerminalRun \/ ~SeesTask(c, t) THEN <<>>
                     ELSE <<b>> \o seen
  <2>1. Snap(c)!SettledTask(t, to) = row /\ Snap(c)!SettledSchedule(t) = closed
    BY SameRows
  <2>2. Queue(c, <<a>> \o then)
    BY <1>1, <2>1, Zenon DEF MoveWorkRun, UpdateTask, UpdateSchedule
  <2>3. SeesTask(c, t)
    BY <1>1, <1>4 DEF SeesTask, Known
  <2> HIDE DEF a, b, e
  <2>4. seen = close
    BY SameRuns
  <2>5. Snap(c)!TerminalRun = Lifecycle!TerminalRun
    BY SameConstants
  <2> HIDE DEF seen, close
  <2>6. then = rest
    BY <2>3, <2>4, <2>5
  <2> HIDE DEF then, rest
  <2> QED BY <2>2, <2>6
<1>6. a.do # "revise" /\ b.do # "revise" /\ e.do # "revise"
  BY DEF UpdateRun, Statement
<1>7. ASSUME to \in Lifecycle!TerminalRun
      PROVE  row \in TaskRows /\ row.status # "absent" /\ row.revision = db.tasks[t].revision
  <2>1. to \in {"done", "failed", "canceled"}
    BY <1>7 DEF Lifecycle!TerminalRun
  <2>2. snap[c].tasks[t] \in TaskRows /\ TaskFits(db, t, snap[c].tasks[t])
        /\ snap[c].tasks[t].status # "absent"
    BY <1>1, <1>4, WhatIsRead DEF Known
  <2>3. row = Snap(c)!SettledTask(t, to)
    BY SameRows
  <2>4. row \in TaskRows /\ row.status # "absent"
    BY <1>4, <2>1, <2>2, <2>3, SettledTaskRow
  <2>5. row.revision = db.tasks[t].revision
    <3>1. db.tasks[t] \in TaskRows
      BY <1>1, <1>4 DEF Rows
    <3> QED BY <1>1, <3>1 DEF Lifecycle!SettledTask, TaskRows
  <2> QED BY <2>4, <2>5
<1>8. closed \in ScheduleRows /\ (~Lifecycle!HasSchedule(t) => closed = db.schedules[t])
  <2>1. CASE Lifecycle!HasSchedule(t)
    <3>1. Snap(c)!SettledSchedule(t) = closed /\ snap[c].schedules[t].status # "absent"
      BY <1>1, <2>1, SameRows DEF Lifecycle!HasSchedule
    <3> QED BY <1>1, <1>4, <2>1, <3>1, SettledScheduleRow DEF IInv
  <2>2. CASE ~Lifecycle!HasSchedule(t)
    <3>1. closed = db.schedules[t]
      BY <1>1, <2>2, Zenon DEF Lifecycle!SettledSchedule
    <3> QED BY <1>1, <1>4, <3>1 DEF Rows
  <2> QED BY <2>1, <2>2
<1> DEFINE d1 == Applied(db, a)
           d2 == Applied(d1, b)
           d3 == IF Lifecycle!HasSchedule(t) THEN Applied(d2, e) ELSE d2
           d == IF to \in Lifecycle!TerminalRun THEN d3 ELSE d1
<1> HIDE DEF row, closed
<1>9. Done(db, q) = d /\ NoRevision(q)
  <2> HIDE DEF a, b, e
  <2>a. /\ Done(db, <<a>> \o <<>>) = d1
        /\ Done(db, <<a>> \o (<<b>> \o <<>>)) = d2
        /\ Done(db, <<a>> \o (<<b>> \o <<e>>)) = Applied(d2, e)
    BY DoneOneAndRest
  <2>b. /\ NoRevision(<<a>> \o <<>>)
        /\ NoRevision(<<a>> \o (<<b>> \o <<>>))
        /\ NoRevision(<<a>> \o (<<b>> \o <<e>>))
    BY <1>6, OneAndRestNoRevision
  <2>1. CASE to \notin Lifecycle!TerminalRun
    <3>1. q = <<a>> \o <<>> /\ d = d1
      BY <2>1
    <3> HIDE DEF q, d
    <3> QED BY <2>a, <2>b, <3>1, Zenon
  <2>2. CASE to \in Lifecycle!TerminalRun /\ ~Lifecycle!HasSchedule(t)
    <3>1. q = <<a>> \o (<<b>> \o <<>>) /\ d = d2
      BY <2>2
    <3> HIDE DEF q, d
    <3> QED BY <2>a, <2>b, <3>1, Zenon
  <2>3. CASE to \in Lifecycle!TerminalRun /\ Lifecycle!HasSchedule(t)
    <3>1. q = <<a>> \o (<<b>> \o <<e>>) /\ d = Applied(d2, e)
      BY <2>3
    <3> HIDE DEF q, d
    <3> QED BY <2>a, <2>b, <3>1, Zenon
  <2> QED BY <2>1, <2>2, <2>3
<1> HIDE DEF q
<1> DEFINE moved == [db.runs EXCEPT ![r].status = to]
<1> HIDE DEF moved, t
<1>10. Columns(d1, db.tasks, db.schedules, moved, db.revisions)
  BY <1>1, <1>3, StatusWritten DEF moved
<1> HIDE DEF d1
<1>11. ASSUME to \in Lifecycle!TerminalRun
       PROVE  Columns(d2, [db.tasks EXCEPT ![t] = row], db.schedules, moved, db.revisions)
  <2>1. d1 \in Rows
    BY <1>10 DEF Columns
  <2>2. Columns(d2, [d1.tasks EXCEPT ![t] = row], d1.schedules, d1.runs, d1.revisions)
    BY <1>4, <1>7, <1>11, <2>1, TaskWritten
  <2> QED BY <1>10, <2>2 DEF Columns
<1> HIDE DEF d2
<1>12. ASSUME to \in Lifecycle!TerminalRun
       PROVE  Columns(d3, [db.tasks EXCEPT ![t] = row], [db.schedules EXCEPT ![t] = closed], moved,
                      db.revisions)
  <2>1. d2 \in Rows /\ d2.schedules = db.schedules
    BY <1>11, <1>12 DEF Columns
  <2>2. CASE Lifecycle!HasSchedule(t)
    <3>1. Columns(d3, d2.tasks, [d2.schedules EXCEPT ![t] = closed], d2.runs, d2.revisions)
      BY <1>4, <1>8, <2>1, <2>2, ScheduleWritten
    <3> HIDE DEF d3
    <3> QED BY <1>11, <1>12, <3>1 DEF Columns
  <2>3. CASE ~Lifecycle!HasSchedule(t)
    <3>1. d3 = d2
      BY <2>3
    <3>2. [db.schedules EXCEPT ![t] = closed] = db.schedules
      BY <1>1, <1>8, <2>3 DEF Rows
    <3> HIDE DEF d3
    <3> QED BY <1>11, <1>12, <3>1, <3>2
  <2> QED BY <2>2, <2>3
<1> HIDE DEF d3
<1>13. WhenDone' = d /\ now' = now
  BY <1>5, <1>9, Decided
<1>14. Lifecycle!MoveWorkRun(r, to)
  <2>1. CASE to \notin Lifecycle!TerminalRun
    <3>1. /\ WhenDone'.runs = [WhenDone.runs EXCEPT ![r].status = to]
          /\ WhenDone'.tasks = WhenDone.tasks /\ WhenDone'.schedules = WhenDone.schedules
      BY <1>1, <1>10, <1>13, <2>1 DEF Columns, moved
    <3> QED BY <1>1, <1>2, <1>13, <2>1, <3>1, Zenon DEF Lifecycle!MoveWorkRun
  <2>2. CASE to \in Lifecycle!TerminalRun
    <3>1. /\ WhenDone'.runs = [WhenDone.runs EXCEPT ![r].status = to]
          /\ WhenDone'.tasks = [WhenDone.tasks EXCEPT ![t] = row]
          /\ WhenDone'.schedules = [WhenDone.schedules EXCEPT ![t] = closed]
          /\ t = WhenDone.runs[r].task
      BY <1>1, <1>12, <1>13, <2>2 DEF Columns, moved, t
    <3> QED BY <1>1, <1>2, <1>13, <2>2, <3>1, Zenon DEF Lifecycle!MoveWorkRun, row, closed
  <2> QED BY <2>1, <2>2
<1>15. RevisionsFit(d)
  <2>1. CASE to \notin Lifecycle!TerminalRun
    BY <1>1, <1>10, <2>1, RevisionsGoOn DEF Columns, Known
  <2>2. CASE to \in Lifecycle!TerminalRun
    <3>1. /\ \A u \in Tasks : d.tasks[u] = IF u = t THEN row ELSE db.tasks[u]
          /\ d.revisions = db.revisions
      BY <1>1, <1>4, <1>12, <2>2 DEF Columns, Rows
    <3> HIDE DEF d
    <3> QED BY <1>1, <1>7, <2>2, <3>1, RevisionsGoOn DEF Known
  <2> QED BY <2>1, <2>2
<1> QED BY <1>5, <1>9, <1>14, <1>15, SettlesIf

\* cancelWorkTask lists the active runs in order, each of them once.
LEMMA EveryRunIsListed ==
  ASSUME NEW S, S \subseteq RunIds, NEW active \in InOrder(S)
  PROVE  /\ Cardinality(S) \in Nat /\ active \in [1 .. Cardinality(S) -> S]
         /\ \A r : r \in S <=> \E i \in 1 .. Cardinality(S) : active[i] = r
<1> DEFINE n == Cardinality(S)
<1>1. IsFiniteSet(S)
  BY RunIdsAssumption, FS_Subset
<1>2. n \in Nat
  BY <1>1, FS_CardinalityType
<1>3. /\ active \in [1 .. n -> S]
      /\ \A i, j \in 1 .. n : i < j => active[i] < active[j]
  BY DEF InOrder
<1>4. IsFiniteSet(1 .. n) /\ Cardinality(1 .. n) = n
  <2>1. 1 \in Int /\ n \in Int
    BY <1>2
  <2>2. IsFiniteSet(1 .. n) /\ Cardinality(1 .. n) = IF 1 > n THEN 0 ELSE n - 1 + 1
    BY <2>1, FS_Interval, Zenon
  <2> HIDE DEF n
  <2> QED BY <1>2, <2>2
<1> HIDE DEF n
<1>5. IsInjective(active)
  <2> SUFFICES ASSUME NEW i \in 1 .. n, NEW j \in 1 .. n, active[i] = active[j] PROVE i = j
    BY <1>3 DEF IsInjective
  <2>1. active[i] \in Nat /\ active[j] \in Nat
    BY <1>3, RunIdsAssumption
  <2>2. ~(i < j) /\ ~(j < i)
    BY <1>3, <2>1
  <2> QED BY <1>2, <2>2
<1>6. active \in Injection(1 .. n, S)
  BY <1>3, <1>5 DEF Injection
<1>7. active \in Surjection(1 .. n, S)
  <2>1. Cardinality(1 .. n) = Cardinality(S)
    BY <1>4 DEF n
  <2> QED BY <1>1, <1>6, <2>1, FS_Injection
<1>8. \A r : r \in S <=> \E i \in 1 .. n : active[i] = r
  BY <1>3, <1>7 DEF Surjection
<1> QED BY <1>2, <1>3, <1>8 DEF n

\* The runs when the first k of the list are canceled.
CanceledUpTo(d, active, k) ==
  [r \in RunIds |-> IF \E i \in 1 .. k : active[i] = r
                    THEN [d.runs[r] EXCEPT !.status = "canceled"] ELSE d.runs[r]]

\* To cancel a run's row twice is to cancel it once.
LEMMA CanceledRow ==
  ASSUME NEW row \in RunRows
  PROVE  LET new == [row EXCEPT !.status = "canceled"]
         IN new \in RunRows /\ [new EXCEPT !.status = "canceled"] = new
<1> DEFINE new == [row EXCEPT !.status = "canceled"]
<1>1. new \in RunRows /\ new.status = "canceled"
  BY DEF RunRows, RunStates
<1> HIDE DEF new
<1>2. [new EXCEPT !.status = "canceled"] = new
  BY <1>1 DEF RunRows
<1> QED BY <1>1, <1>2 DEF new

\* One statement further along the active runs.
LEMMA OneMoreCanceled ==
  ASSUME NEW d \in Rows, NEW n \in Nat, NEW active \in [1 .. n -> RunIds], NEW k \in Nat, k + 1 <= n
  PROVE  [CanceledUpTo(d, active, k) EXCEPT ![active[k + 1]].status = "canceled"]
           = CanceledUpTo(d, active, k + 1)
<1> DEFINE r0 == active[k + 1]
           before == CanceledUpTo(d, active, k)
           after == CanceledUpTo(d, active, k + 1)
           new == [before[r0] EXCEPT !.status = "canceled"]
           row == [d.runs[r0] EXCEPT !.status = "canceled"]
<1>1. k + 1 \in 1 .. n /\ r0 \in RunIds
  OBVIOUS
<1>2. d.runs[r0] \in RunRows
  BY <1>1 DEF Rows
<1>3. before[r0] \in {d.runs[r0], row}
  BY <1>1 DEF CanceledUpTo
<1>4. new = row
  BY <1>2, <1>3, CanceledRow
<1>5. after[r0] = row
  BY <1>1 DEF CanceledUpTo
<1>6. ASSUME NEW r \in RunIds, r # r0
      PROVE  before[r] = after[r]
  <2>1. (\E i \in 1 .. k : active[i] = r) <=> \E i \in 1 .. k + 1 : active[i] = r
    BY <1>6
  <2> QED BY <2>1 DEF CanceledUpTo
<1>7. [before EXCEPT ![r0].status = "canceled"] = [before EXCEPT ![r0] = new]
  BY Zenon
<1>8. before = [r \in RunIds |-> before[r]] /\ after = [r \in RunIds |-> after[r]]
  BY DEF CanceledUpTo
<1> HIDE DEF before, after, new, row, r0
<1>9. [before EXCEPT ![r0] = new] = after
  BY <1>1, <1>4, <1>5, <1>6, <1>8
<1> QED BY <1>7, <1>9 DEF before, after, r0

\* A statement for each active run cancels them all, however many there are.
LEMMA DoneCanceling ==
  ASSUME NEW d \in Rows, NEW n \in Nat, NEW active \in [1 .. n -> RunIds]
  PROVE  LET q == [i \in DOMAIN active |-> UpdateRun(active[i], "canceled")]
         IN /\ q \in Seq(Statements) /\ NoRevision(q)
            /\ Columns(Done(d, q), d.tasks, d.schedules, CanceledUpTo(d, active, n), d.revisions)
<1> DEFINE q == [i \in DOMAIN active |-> UpdateRun(active[i], "canceled")]
<1>1. \A i \in 1 .. n : UpdateRun(active[i], "canceled") \in Statements
                        /\ UpdateRun(active[i], "canceled").do = "updateRun"
  BY DEF UpdateRun, Statement, Statements, RunStates
<1>2. /\ q \in Seq(Statements) /\ Len(q) = n /\ DOMAIN q = 1 .. n
      /\ \A i \in 1 .. n : q[i] = UpdateRun(active[i], "canceled")
  BY <1>1
<1> HIDE DEF q
<1>3. NoRevision(q)
  BY <1>1, <1>2 DEF NoRevision
<1>4. PICK f : Stages(f, d, q) /\ Done(d, q) = f[n]
  BY <1>2, FoldHasStages DEF Done
<1> DEFINE S == {k \in Nat : k <= n =>
                  Columns(f[k], d.tasks, d.schedules, CanceledUpTo(d, active, k), d.revisions)}
<1>5. 0 \in S
  <2>1. f[0] = d
    BY <1>4 DEF Stages
  <2>2. CanceledUpTo(d, active, 0) = d.runs
    <3>1. \A r \in RunIds : ~\E i \in 1 .. 0 : active[i] = r
      OBVIOUS
    <3>2. CanceledUpTo(d, active, 0) = [r \in RunIds |-> d.runs[r]]
      BY <3>1, Zenon DEF CanceledUpTo
    <3> QED BY <3>2 DEF Rows
  <2> QED BY <2>1, <2>2 DEF Columns
<1>6. ASSUME NEW k \in Nat, k \in S PROVE k + 1 \in S
  <2> SUFFICES ASSUME k + 1 <= n
               PROVE  Columns(f[k + 1], d.tasks, d.schedules,
                              CanceledUpTo(d, active, k + 1), d.revisions)
    OBVIOUS
  <2>1. Columns(f[k], d.tasks, d.schedules, CanceledUpTo(d, active, k), d.revisions)
    BY <1>6
  <2>2. k + 1 \in 1 .. n /\ (k + 1) - 1 = k /\ active[k + 1] \in RunIds
    OBVIOUS
  <2>3. f[k + 1] = Applied(f[k], UpdateRun(active[k + 1], "canceled"))
    BY <1>2, <1>4, <2>2 DEF Stages
  <2>4. f[k] \in Rows /\ "canceled" \in RunStates
    BY <2>1 DEF Columns, RunStates
  <2>5. Columns(f[k + 1], f[k].tasks, f[k].schedules,
                [f[k].runs EXCEPT ![active[k + 1]].status = "canceled"], f[k].revisions)
    BY <2>2, <2>3, <2>4, StatusWritten
  <2>6. [f[k].runs EXCEPT ![active[k + 1]].status = "canceled"] = CanceledUpTo(d, active, k + 1)
    <3>1. f[k].runs = CanceledUpTo(d, active, k)
      BY <2>1 DEF Columns
    <3> QED BY <3>1, OneMoreCanceled
  <2> QED BY <2>1, <2>5, <2>6 DEF Columns
<1> HIDE DEF S
<1>7. Nat \subseteq S
  BY <1>5, <1>6, EveryNumber
<1>8. Columns(Done(d, q), d.tasks, d.schedules, CanceledUpTo(d, active, n), d.revisions)
  BY <1>4, <1>7 DEF S
<1> QED BY <1>2, <1>3, <1>8 DEF q

\* cancelWorkTask: the task, its schedule, and every active run.
LEMMA CancelWorkTaskIs ==
  ASSUME NEW c, Ready(c), IInv', NEW t \in Tasks, CancelWorkTask(c, t)
  PROVE  Lifecycle!CancelWorkTask(t) /\ Settles(c)
<1> DEFINE schedule == db.schedules[t]
           row == [db.tasks[t] EXCEPT !.status = "canceled"]
           closed == Lifecycle!CanceledSchedule(schedule)
           a == Statement("updateTask", t, row)
           b == Statement("updateSchedule", t, closed)
           runs == Lifecycle!ActiveRunsOf(t)
           n == Cardinality(runs)
           first == <<a>>
           second == IF schedule.status \in Lifecycle!LiveSchedule THEN <<b>> ELSE <<>>
<1>1. /\ c \in Callers /\ db \in Rows /\ WhenDone = db /\ RevisionsFit(db) /\ IInv
      /\ snap[c].runs = db.runs /\ snap[c].tasks = db.tasks /\ snap[c].schedules = db.schedules
  BY ReadyFacts DEF Ready
<1>2. Lifecycle!MayCancel(t)
  BY SameGuards DEF CancelWorkTask
<1>3. PICK active \in InOrder(runs) :
        Queue(c, first \o second \o [i \in DOMAIN active |-> UpdateRun(active[i], "canceled")])
  <2>1. /\ Snap(c)!ActiveRunsOf(t) = runs
        /\ Snap(c)!CanceledSchedule(schedule) = closed
        /\ Snap(c)!LiveSchedule = Lifecycle!LiveSchedule
    BY SameRuns, SameConstants
  <2> QED BY <1>1, <2>1, Zenon DEF CancelWorkTask, UpdateTask, UpdateSchedule
<1> DEFINE third == [i \in DOMAIN active |-> UpdateRun(active[i], "canceled")]
           q == first \o second \o third
<1>4. runs \subseteq RunIds
  BY DEF Lifecycle!ActiveRunsOf, Lifecycle!RunsOf
<1>5. n \in Nat /\ active \in [1 .. n -> RunIds]
      /\ \A r : r \in runs <=> \E i \in 1 .. n : active[i] = r
  <2> HIDE DEF runs
  <2> QED BY <1>4, EveryRunIsListed
<1>6. row \in TaskRows /\ row.status # "absent" /\ row.revision = db.tasks[t].revision
  BY <1>1 DEF Rows, TaskRows
<1>7. closed \in ScheduleRows
      /\ (schedule.status \notin Lifecycle!LiveSchedule => closed = schedule)
  <2>1. schedule \in ScheduleRows
    BY <1>1 DEF Rows
  <2>2. CASE schedule.status \in Lifecycle!LiveSchedule
    <3>1. schedule.status # "absent"
      BY <2>2 DEF Lifecycle!LiveSchedule
    <3>2. Snap(c)!CanceledSchedule(schedule) = closed
      BY SameConstants
    <3> QED BY <2>1, <2>2, <3>1, <3>2, CanceledScheduleRow
  <2>3. CASE schedule.status \notin Lifecycle!LiveSchedule
    BY <2>1, <2>3 DEF Lifecycle!CanceledSchedule
  <2> QED BY <2>2, <2>3
<1>8. /\ a \in Statements /\ a.do = "updateTask"
      /\ b \in Statements /\ b.do = "updateSchedule"
  <2> HIDE DEF row, closed
  <2> QED BY <1>6, <1>7 DEF Statement, Statements
<1> DEFINE d1 == Applied(db, a)
           d2 == Done(d1, second)
           d3 == Done(d2, third)
<1>9. /\ first \in Seq(Statements) /\ second \in Seq(Statements)
      /\ NoRevision(first) /\ NoRevision(second) /\ Done(db, first) = d1
  <2> HIDE DEF a, b
  <2> QED BY <1>8, NoneRevises, DoneOne
<1> HIDE DEF row, closed
<1>10. Columns(d1, [db.tasks EXCEPT ![t] = row], db.schedules, db.runs, db.revisions)
  BY <1>1, <1>6, TaskWritten
<1> HIDE DEF d1
<1>11. Columns(d2, [db.tasks EXCEPT ![t] = row], [db.schedules EXCEPT ![t] = closed],
               db.runs, db.revisions)
  <2>1. d1 \in Rows /\ d1.schedules = db.schedules
    BY <1>10 DEF Columns
  <2>2. CASE schedule.status \in Lifecycle!LiveSchedule
    <3>1. Columns(Applied(d1, b), d1.tasks, [d1.schedules EXCEPT ![t] = closed],
                  d1.runs, d1.revisions)
      BY <1>7, <2>1, ScheduleWritten
    <3>2. d2 = Applied(d1, b)
      <4> HIDE DEF b
      <4> QED BY <2>2, DoneOne
    <3> HIDE DEF d2
    <3> QED BY <1>10, <3>1, <3>2 DEF Columns
  <2>3. CASE schedule.status \notin Lifecycle!LiveSchedule
    <3>1. d2 = d1
      <4> HIDE DEF b
      <4> QED BY <2>3, DoneNothing
    <3>2. [db.schedules EXCEPT ![t] = closed] = db.schedules
      BY <1>1, <1>7, <2>3 DEF Rows
    <3> HIDE DEF d2
    <3> QED BY <1>10, <3>1, <3>2
  <2> QED BY <2>2, <2>3
<1> HIDE DEF d2, n, runs
<1>12. /\ third \in Seq(Statements) /\ NoRevision(third)
       /\ Columns(d3, [db.tasks EXCEPT ![t] = row], [db.schedules EXCEPT ![t] = closed],
                  CanceledUpTo(db, active, n), db.revisions)
  <2>1. d2 \in Rows /\ d2.runs = db.runs
    BY <1>11 DEF Columns
  <2>2. /\ third \in Seq(Statements) /\ NoRevision(third)
        /\ Columns(d3, d2.tasks, d2.schedules, CanceledUpTo(d2, active, n), d2.revisions)
    BY <1>5, <2>1, DoneCanceling, Zenon
  <2>3. CanceledUpTo(d2, active, n) = CanceledUpTo(db, active, n)
    BY <2>1, Zenon DEF CanceledUpTo
  <2> QED BY <1>11, <2>2, <2>3 DEF Columns
<1>13. Done(db, q) = d3 /\ NoRevision(q)
  <2> HIDE DEF first, second, third
  <2>1. first \o second \in Seq(Statements) /\ NoRevision(first \o second)
    BY <1>9, NoneRevisesThen, ConcatProperties
  <2>2. Done(db, first \o second) = d2
    BY <1>9, DoneConcat DEF d2
  <2>3. NoRevision(q)
    BY <1>12, <2>1, NoneRevisesThen
  <2>4. Done(db, q) = Done(Done(db, first \o second), third)
    <3> DEFINE p == first \o second
    <3>1. p \in Seq(Statements) /\ third \in Seq(Statements)
      BY <1>12, <2>1
    <3> HIDE DEF p
    <3>2. Done(db, p \o third) = Done(Done(db, p), third)
      BY <3>1, DoneConcat
    <3> QED BY <3>2 DEF p
  <2> QED BY <2>2, <2>3, <2>4
<1>14. Queue(c, q)
  BY <1>3
<1> HIDE DEF q, d3
<1>15. WhenDone' = d3 /\ now' = now
  BY <1>13, <1>14, Decided
<1>16. Lifecycle!CancelWorkTask(t)
  <2>1. WhenDone'.tasks = [WhenDone.tasks EXCEPT ![t].status = "canceled"]
    BY <1>1, <1>12, <1>15, Zenon DEF Columns, row
  <2>2. WhenDone'.schedules = [WhenDone.schedules EXCEPT ![t] =
                                 Lifecycle!CanceledSchedule(WhenDone.schedules[t])]
    BY <1>1, <1>12, <1>15, Zenon DEF Columns, closed
  <2>3. WhenDone'.runs = [r \in RunIds |-> IF r \in Lifecycle!ActiveRunsOf(t)
                                           THEN [WhenDone.runs[r] EXCEPT !.status = "canceled"]
                                           ELSE WhenDone.runs[r]]
    <3>1. WhenDone'.runs = CanceledUpTo(db, active, n)
      BY <1>12, <1>15 DEF Columns
    <3> DEFINE listed == [r \in RunIds |-> IF r \in runs
                                           THEN [db.runs[r] EXCEPT !.status = "canceled"]
                                           ELSE db.runs[r]]
    <3>2. CanceledUpTo(db, active, n) = listed
      <4>1. ASSUME NEW r \in RunIds
            PROVE  CanceledUpTo(db, active, n)[r] = listed[r]
        <5>1. r \in runs <=> \E i \in 1 .. n : active[i] = r
          BY <1>5
        <5> QED BY <5>1 DEF CanceledUpTo
      <4>2. /\ CanceledUpTo(db, active, n)
                 = [r \in RunIds |-> CanceledUpTo(db, active, n)[r]]
            /\ listed = [r \in RunIds |-> listed[r]]
        BY DEF CanceledUpTo
      <4> HIDE DEF listed
      <4> QED BY <4>1, <4>2
    <3> QED BY <1>1, <3>1, <3>2, Zenon DEF runs
  <2> QED BY <1>2, <1>15, <2>1, <2>2, <2>3, Zenon DEF Lifecycle!CancelWorkTask
<1>17. RevisionsFit(d3)
  <2>1. /\ \A u \in Tasks : d3.tasks[u] = IF u = t THEN row ELSE db.tasks[u]
        /\ d3.revisions = db.revisions
    BY <1>1, <1>12 DEF Columns, Rows
  <2> QED BY <1>1, <1>6, <2>1, RevisionsGoOn DEF Known
<1> QED BY <1>13, <1>14, <1>16, <1>17, SettlesIf

-----------------------------------------------------------------------------
(* The steps between the decisions.                                        *)

\* WorkLifecycle takes the step, or none.
Steps == Lifecycle!Next \/ UNCHANGED Lifecycle!vars

\* Each decision is a step of WorkLifecycle.
LEMMA DecideIs ==
  ASSUME NEW c, Ready(c), IInv', Decide(c)
  PROVE  Steps /\ Settles(c)
<1>1. CASE \E t \in Tasks, g \in Triggers, r \in RunIds : CreateImmediateWork(c, t, g, r)
  BY <1>1, CreateImmediateWorkIs DEF Steps, Lifecycle!Next
<1>2. CASE \E t \in Tasks, g \in Triggers, first \in 0 .. MaxTime :
             CreateScheduledWork(c, t, g, first)
  BY <1>2, CreateScheduledWorkIs DEF Steps, Lifecycle!Next
<1>3. CASE \E t \in Tasks, r \in RunIds : CreateDueWorkRun(c, t, r)
  BY <1>3, CreateDueWorkRunIs DEF Steps, Lifecycle!Next
<1>4. CASE \E r, new \in RunIds : RetryWorkRun(c, r, new)
  BY <1>4, RetryWorkRunIs DEF Steps, Lifecycle!Next
<1>5. CASE \E t \in Tasks, src \in RunIds \cup {None} : ReviseWorkTask(c, t, src)
  BY <1>5, ReviseWorkTaskIs DEF Steps, Lifecycle!Next
<1>6. CASE \E t \in Tasks, to \in {"paused", "enabled"} : MoveWorkSchedule(c, t, to)
  BY <1>6, MoveWorkScheduleIs DEF Steps, Lifecycle!Next
<1>7. CASE \E t \in Tasks : CancelWorkTask(c, t)
  BY <1>7, CancelWorkTaskIs DEF Steps, Lifecycle!Next
<1>8. CASE \E t \in Tasks : ArchiveWorkTask(c, t)
  BY <1>8, ArchiveWorkTaskIs DEF Steps, Lifecycle!Next
<1>9. CASE \E t \in Tasks : RestoreWorkTask(c, t)
  BY <1>9, RestoreWorkTaskIs DEF Steps, Lifecycle!Next
<1>10. CASE \E r \in RunIds, to \in Snap(c)!ActiveRun \cup Snap(c)!TerminalRun :
              MoveWorkRun(c, r, to)
  <2>1. Snap(c)!ActiveRun \cup Snap(c)!TerminalRun
          = Lifecycle!ActiveRun \cup Lifecycle!TerminalRun
    BY SameConstants, Zenon
  <2>2. PICK r \in RunIds, to \in Snap(c)!ActiveRun \cup Snap(c)!TerminalRun :
          MoveWorkRun(c, r, to)
    BY <1>10
  <2>3. Lifecycle!MoveWorkRun(r, to) /\ Settles(c)
    BY <2>2, MoveWorkRunIs
  <2>4. to \in Lifecycle!ActiveRun \cup Lifecycle!TerminalRun
    BY <2>1, <2>2
  <2> QED BY <2>3, <2>4, Zenon DEF Steps, Lifecycle!Next
<1>11. CASE GiveUp(c)
  BY <1>11, GiveUpIs DEF Steps
<1> QED
  BY <1>1, <1>2, <1>3, <1>4, <1>5, <1>6, <1>7, <1>8, <1>9, <1>10, <1>11 DEF Decide

\* The tables reject no statement of a caller that is alone.
LEMMA NothingIsRejected ==
  ASSUME IInv, NEW c \in Callers, Alone(c), queue[c] # <<>>
  PROVE  ~Rejected(Head(queue[c]), db)
<1> DEFINE s == Head(queue[c])
<1>1. 1 \in DOMAIN queue[c] /\ s = queue[c][1] /\ s \in Statements
  BY DEF IInv, Typed
<1>2. ~(s.do = "revise" /\ <<s.id, s.row.revision>> \in db.revisions)
  BY <1>1 DEF Alone, RevisesAnew, Confirmed
<1>3. ~(s.do = "updateSchedule" /\ s.row.status = "enabled" /\ s.row.nextRunAt = None)
  <2> SUFFICES ASSUME s.do = "updateSchedule", s.row.status = "enabled" PROVE s.row.nextRunAt # None
    OBVIOUS
  <2>1. PICK plan \in Plans : PlanFits(plan)
    BY DEF IInv, BudgetFits
  <2>2. s.id \in Tasks /\ ScheduleOnPlan(plan[s.id], s.row)
    BY <1>1, <2>1, StatementTypes DEF PlanFits
  <2>3. PICK k \in Nat : s.row.nextRunAt = Time(plan[s.id], k)
    BY <2>2 DEF ScheduleOnPlan, OnTime, Live
  <2>4. plan[s.id].first \in Nat
    BY <2>2 DEF Plans
  <2>5. Time(plan[s.id], k) \in Nat
    BY <2>4, BoundsAssumption DEF Time
  <2> QED BY <2>3, <2>5, NoneAssumption
<1> HIDE DEF s
<1> QED BY <1>2, <1>3 DEF Rejected, s

\* The next statement of the queue was there already, as far as WhenDone goes.
LEMMA ExecuteIs ==
  ASSUME IInv, NEW c, Callers = {c}, Alone(c), Execute(c)
  PROVE  UNCHANGED Lifecycle!vars /\ Alone(c)'
<1> DEFINE q == queue[c]
<1>1. c \in Callers /\ q \in Seq(Statements) /\ q # <<>> /\ q[1] = Head(q) /\ pc[c] = "writing"
  BY ExecuteShifts DEF IInv, Execute
<1>2. ~Rejected(Head(q), db)
  BY <1>1, NothingIsRejected
<1>3. db' = Applied(db, Head(q)) /\ queue'[c] = Tail(q) /\ now' = now /\ at' = at /\ snap' = snap
  BY <1>1, <1>2 DEF Execute, IInv, Typed
<1>4. pc'[c] \in {"idle", "writing"}
  BY <1>1 DEF Execute, IInv, Typed
<1>5. WhenDone = Done(db, q)
  BY OneQueue
<1>6. WhenDone' = Done(db', queue'[c])
  <2>1. (CHOOSE b \in Callers : TRUE) = c
    <3>1. c \in Callers /\ \A b \in Callers : b = c
      OBVIOUS
    <3> QED BY <3>1, Zenon
  <2> QED BY <2>1, Zenon DEF WhenDone, Done
<1>7. WhenDone' = WhenDone
  BY <1>1, <1>3, <1>5, <1>6, DoneAfterFirst
<1>8. ReadsFit(c)'
  BY <1>3, <1>4 DEF Alone, ReadsFit
<1>9. RevisionsFit(WhenDone)'
  <2>1. RevisionsFit(WhenDone)
    BY DEF Alone
  <2> QED BY <1>7, <2>1 DEF RevisionsFit, Known, Confirmed
<1>10. RevisesAnew(db, queue[c])'
  <2> SUFFICES ASSUME NEW i \in DOMAIN Tail(q), Tail(q)[i].do = "revise" PROVE FALSE
    BY <1>3 DEF RevisesAnew
  <2>1. i + 1 \in DOMAIN q /\ Tail(q)[i] = q[i + 1] /\ Len(q) # 1
    BY <1>1
  <2> QED BY <2>1 DEF Alone, RevisesAnew
<1> QED BY <1>3, <1>7, <1>8, <1>9, <1>10, Zenon DEF Lifecycle!vars, Alone

\* The SELECTs.
LEMMA ReadTablesIs ==
  ASSUME IInv, NEW c, Callers = {c}, Alone(c), ReadTables(c)
  PROVE  UNCHANGED Lifecycle!vars /\ Alone(c)'
<1>1. c \in Callers /\ db' = db /\ queue' = queue /\ now' = now
  BY DEF ReadTables
<1>2. WhenDone' = WhenDone
  BY <1>1, Zenon DEF WhenDone
<1>3. ReadsFit(c)'
  <2>1. /\ snap \in [Callers -> Rows] /\ pc \in [Callers ->
             {"idle", "tasksRead", "schedulesRead", "read", "writing"}]
        /\ at \in [Callers -> 0 .. MaxTime] /\ now \in Nat
    BY BoundsAssumption DEF IInv, Typed
  <2>2. CASE pc[c] = "idle"
    <3> DEFINE row == [snap[c] EXCEPT !.tasks = db.tasks]
    <3>1. row.tasks = db.tasks
      BY <2>1 DEF Rows
    <3>2. snap' = [snap EXCEPT ![c].tasks = db.tasks] /\ at' = [at EXCEPT ![c] = now]
          /\ pc' = [pc EXCEPT ![c] = "tasksRead"]
      BY <2>2, Zenon DEF ReadTables
    <3>3. snap' = [snap EXCEPT ![c] = row]
      BY <3>2, Zenon
    <3> HIDE DEF row
    <3>4. snap'[c] = row /\ at'[c] = now /\ pc'[c] = "tasksRead"
      BY <1>1, <2>1, <3>2, <3>3
    <3> QED BY <1>1, <2>1, <3>1, <3>4 DEF ReadsFit
  <2>3. CASE pc[c] = "tasksRead"
    <3> DEFINE row == [snap[c] EXCEPT !.schedules = db.schedules]
    <3>1. row.tasks = snap[c].tasks /\ row.schedules = db.schedules
      BY <2>1 DEF Rows
    <3>2. snap' = [snap EXCEPT ![c].schedules = db.schedules] /\ at' = at
          /\ pc' = [pc EXCEPT ![c] = "schedulesRead"]
      BY <2>3, Zenon DEF ReadTables
    <3>3. snap' = [snap EXCEPT ![c] = row]
      BY <3>2, Zenon
    <3> HIDE DEF row
    <3>4. snap'[c] = row /\ at'[c] = at[c] /\ pc'[c] = "schedulesRead"
      BY <1>1, <2>1, <3>2, <3>3
    <3> QED BY <1>1, <2>3, <3>1, <3>4 DEF Alone, ReadsFit
  <2>4. CASE pc[c] = "schedulesRead"
    <3> DEFINE row == [snap[c] EXCEPT !.runs = db.runs]
    <3>1. row.tasks = snap[c].tasks /\ row.schedules = snap[c].schedules /\ row.runs = db.runs
      BY <2>1 DEF Rows
    <3>2. snap' = [snap EXCEPT ![c].runs = db.runs] /\ at' = at
          /\ pc' = [pc EXCEPT ![c] = "read"]
      BY <2>4, Zenon DEF ReadTables
    <3>3. snap' = [snap EXCEPT ![c] = row]
      BY <3>2, Zenon
    <3> HIDE DEF row
    <3>4. snap'[c] = row /\ at'[c] = at[c] /\ pc'[c] = "read"
      BY <1>1, <2>1, <3>2, <3>3
    <3> QED BY <1>1, <2>4, <3>1, <3>4 DEF Alone, ReadsFit
  <2> QED BY <2>2, <2>3, <2>4 DEF ReadTables
<1>4. RevisionsFit(WhenDone)' /\ RevisesAnew(db, queue[c])'
  BY <1>1, <1>2 DEF Alone, RevisionsFit, RevisesAnew, Known, Confirmed
<1> QED BY <1>1, <1>2, <1>3, <1>4, Zenon DEF Lifecycle!vars, Alone

\* The clock is the same in both.
LEMMA TickIs ==
  ASSUME IInv, NEW c, Callers = {c}, Alone(c), Tick
  PROVE  Lifecycle!Tick /\ Alone(c)'
<1>1. UNCHANGED <<db, snap, at, pc, queue>> /\ now < MaxTime /\ now' = now + 1
  BY DEF Tick
<1>2. WhenDone' = WhenDone
  BY <1>1, Zenon DEF WhenDone
<1>3. ReadsFit(c)'
  <2>1. at[c] \in Nat /\ now \in Nat
    BY BoundsAssumption DEF IInv, Typed
  <2> QED BY <1>1, <2>1 DEF Alone, ReadsFit
<1>4. RevisionsFit(WhenDone)' /\ RevisesAnew(db, queue[c])'
  BY <1>1, <1>2 DEF Alone, RevisionsFit, RevisesAnew, Known, Confirmed
<1>5. Lifecycle!Tick
  BY <1>1, <1>2, Zenon DEF Lifecycle!Tick
<1> QED BY <1>3, <1>4, <1>5 DEF Alone

\* A stutter is a stutter.
LEMMA NothingHappens ==
  ASSUME NEW c, Alone(c), UNCHANGED vars
  PROVE  UNCHANGED Lifecycle!vars /\ Alone(c)'
<1>1. UNCHANGED <<db, snap, at, pc, queue, now>>
  BY DEF vars
<1>2. WhenDone' = WhenDone
  BY <1>1, Zenon DEF WhenDone
<1>3. Alone(c)'
  BY <1>1, <1>2 DEF Alone, ReadsFit, RevisionsFit, RevisesAnew, Known, Confirmed
<1> QED BY <1>1, <1>2, <1>3, Zenon DEF Lifecycle!vars

\* A decision leaves nothing read.
LEMMA DecideLeavesAlone ==
  ASSUME NEW c, Ready(c), IInv', Decide(c), Settles(c)
  PROVE  Alone(c)'
<1>1. PICK q : Queue(c, q)
  BY Zenon DEF Decide, CreateImmediateWork, CreateScheduledWork, CreateDueWorkRun, RetryWorkRun,
     ReviseWorkTask, MoveWorkSchedule, CancelWorkTask, ArchiveWorkTask, RestoreWorkTask,
     MoveWorkRun, GiveUp
<1>2. /\ c \in Callers /\ now' = now /\ now \in Nat
      /\ at' = [at EXCEPT ![c] = 0] /\ at \in [Callers -> 0 .. MaxTime]
      /\ pc'[c] \in {"idle", "writing"}
  BY <1>1, ReadyFacts DEF Queue, Ready, IInv, Typed
<1>3. ReadsFit(c)'
  BY <1>2 DEF ReadsFit
<1> QED BY <1>3 DEF Alone, Settles

\* Each step is a step of WorkLifecycle or a stutter, and keeps Alone.
LEMMA NextImplements ==
  ASSUME NEW c, Callers = {c}, ~Crashes, IInv, Alone(c), [Next]_vars
  PROVE  Steps /\ Alone(c)'
<1>1. IInv'
  BY NextIInv
<1>2. CASE ReadTables(c)
  BY <1>2, ReadTablesIs DEF Steps
<1>3. CASE pc[c] = "read" /\ Decide(c)
  <2>1. Ready(c)
    BY <1>3 DEF Ready
  <2> QED BY <1>1, <1>3, <2>1, DecideIs, DecideLeavesAlone
<1>4. CASE Execute(c)
  BY <1>4, ExecuteIs DEF Steps
<1>5. CASE Tick
  BY <1>5, TickIs DEF Steps, Lifecycle!Next
<1>6. CASE UNCHANGED vars
  BY <1>6, NothingHappens DEF Steps
<1> QED BY <1>2, <1>3, <1>4, <1>5, <1>6 DEF Next, Crash

\* Both begin with empty tables.
LEMMA InitImplements ==
  ASSUME NEW c, Callers = {c}, Init
  PROVE  Lifecycle!Init /\ Alone(c)
<1>1. /\ db = NoTables /\ queue[c] = <<>> /\ pc[c] = "idle" /\ at[c] = 0 /\ now = 0
  BY DEF Init
<1>2. WhenDone = NoTables
  BY <1>1, OneQueue, DoneNothing
<1>3. /\ NoTables.tasks = [t \in Tasks |-> Tables!NoTask]
      /\ NoTables.schedules = [t \in Tasks |-> Tables!NoSchedule]
      /\ NoTables.runs = [r \in RunIds |-> Tables!NoRun]
      /\ NoTables.revisions = {}
  BY DEF NoTables
<1>4. /\ Tables!NoTask = Lifecycle!NoTask /\ Tables!NoSchedule = Lifecycle!NoSchedule
      /\ Tables!NoRun = Lifecycle!NoRun
  BY Zenon DEF Tables!NoTask, Lifecycle!NoTask, Tables!NoSchedule, Lifecycle!NoSchedule,
     Tables!NoRun, Lifecycle!NoRun
<1>5. Lifecycle!Init
  BY <1>1, <1>2, <1>3, <1>4, Zenon DEF Lifecycle!Init
<1>6. Alone(c)
  BY <1>1, <1>2, <1>3 DEF Alone, ReadsFit, RevisionsFit, RevisesAnew, Confirmed
<1> QED BY <1>5, <1>6

\* One call after the other, in a process that lives.
OneCaller == \E c : Callers = {c}

\* Every method of the Work service has the effect WorkLifecycle gives it in one
\* step: whole rows that are written back, the increment of run_count on its own
\* and a chain of statements lose and repeat nothing as long as one call follows
\* the other and the process lives.
THEOREM CallsAreMethods ==
  ASSUME OneCaller, ~Crashes
  PROVE  Spec => ImplementsLifecycle
<1>1. PICK c : Callers = {c}
  BY DEF OneCaller
<1>2. Init => Lifecycle!Init /\ Alone(c)
  BY <1>1, InitImplements
<1>3. IInv /\ Alone(c) /\ [Next]_vars => Steps /\ Alone(c)'
  BY <1>1, NextImplements
<1> QED BY <1>2, <1>3, SpecIInv, PTL DEF Spec, Steps, ImplementsLifecycle, Lifecycle!Spec
=============================================================================
