----------------------- MODULE ProcessTraceWriter_proofs -----------------------
(***************************************************************************)
(* Proofs about ProcessTraceWriter, for any number of runs and             *)
(* observations, any sizes of the queue and its batches, and any number of *)
(* attempts.                                                               *)
(***************************************************************************)
EXTENDS ProcessTraceWriter, SequenceTheorems, WellFoundedInduction, TLAPS

-------------------------------------------------------------------------------
(* The inductive invariant. *)

\* Of one run, every observation in A has a smaller number than those in B.
Ahead(A, B) == \A e \in A, f \in B : e[1] = f[1] => NumberOf(e) < NumberOf(f)

\* A queue is in the order of its numbers; and with it a chain.
InOrder(q) == \A i, j \in DOMAIN q : i < j => Ahead({q[i]}, {q[j]})

Ordered(q, c) ==
  /\ InOrder(q)
  /\ \A i, j \in DOMAIN c : i < j => Ahead(ToSet(c[i]), ToSet(c[j]))
  /\ \A i \in DOMAIN c : Ahead(ToSet(c[i]), ToSet(q))

\* What waits has been numbered, and no client was told that it is stored.
NotYetTold ==
  \A e \in Unsettled : watermark[e[1]] < NumberOf(e) /\ NumberOf(e) <= sequence[e[1]]

\* Every observation waits, is stored or is given up, while the process lives.
Accounted == alive => Published \subseteq Unsettled \cup rows \cup failed

\* What the drain has yet to see settled, by how far it is.
DueFits ==
  /\ alive /\ drain = "flushing" => due \subseteq Settled \cup Unsettled
  /\ alive /\ drain = "finishing" =>
       due \subseteq Settled \cup UNION {ToSet(chain[i]) : i \in 1 .. awaited}
  /\ drain = "drained" => due \subseteq Settled

IInv ==
  /\ TypeOK
  /\ Ordered(queue, chain)
  /\ NotYetTold
  /\ Accounted
  /\ \A r \in Runs : watermark[r] <= sequence[r]
  /\ WatermarkHidesNothing
  /\ DueFits

-------------------------------------------------------------------------------
(* Sequences of observations. *)

\* An observation is its run and its number.
LEMMA EventFacts ==
  \A e \in Events : /\ e[1] \in Runs /\ NumberOf(e) \in Int /\ NumberOf(e) >= 1
                    /\ NumberOf(e) <= MaxEvents /\ e = <<e[1], NumberOf(e)>>
  BY WriterAssumption DEF Events, NumberOf

\* What is in a sequence stands at some position of it.
LEMMA ToSetOfSeq ==
  ASSUME NEW s \in Seq(Events)
  PROVE  /\ ToSet(s) \subseteq Events
         /\ DOMAIN s = 1 .. Len(s) /\ Len(s) \in Nat
         /\ \A i \in 1 .. Len(s) : s[i] \in Events /\ s[i] \in ToSet(s)
  BY DEF ToSet

\* What is appended comes after the rest.
LEMMA ToSetOfAppend ==
  ASSUME NEW S, NEW s \in Seq(S), NEW e \in S
  PROVE  /\ Append(s, e) \in Seq(S)
         /\ Len(Append(s, e)) = Len(s) + 1
         /\ DOMAIN Append(s, e) = 1 .. Len(s) + 1
         /\ DOMAIN s = 1 .. Len(s) /\ Len(s) \in Nat
         /\ \A i \in 1 .. Len(s) : Append(s, e)[i] = s[i]
         /\ Append(s, e)[Len(s) + 1] = e
         /\ ToSet(Append(s, e)) = ToSet(s) \cup {e}
<1>1. /\ Append(s, e) \in Seq(S)
      /\ Len(Append(s, e)) = Len(s) + 1
      /\ DOMAIN Append(s, e) = 1 .. Len(s) + 1
      /\ DOMAIN s = 1 .. Len(s) /\ Len(s) \in Nat
      /\ \A i \in 1 .. Len(s) : Append(s, e)[i] = s[i]
      /\ Append(s, e)[Len(s) + 1] = e
  BY AppendProperties, LenProperties
<1>2. ToSet(Append(s, e)) = ToSet(s) \cup {e}
  BY <1>1 DEF ToSet
<1> QED BY <1>1, <1>2

\* The chain without its first batch.
LEMMA TailOfChain ==
  ASSUME NEW c \in Seq(Seq(Events)), c # <<>>
  PROVE  /\ Head(c) = c[1] /\ Head(c) \in Seq(Events)
         /\ Tail(c) \in Seq(Seq(Events))
         /\ Len(c) \in Nat \ {0} /\ Len(Tail(c)) = Len(c) - 1
         /\ DOMAIN c = 1 .. Len(c) /\ DOMAIN Tail(c) = 1 .. Len(c) - 1
         /\ \A i \in 1 .. Len(c) - 1 : Tail(c)[i] = c[i + 1]
  BY HeadTailProperties, EmptySeq, LenProperties

\* A batch cut off the queue, and what is left.
LEMMA CutOff ==
  ASSUME NEW S, NEW q \in Seq(S), NEW n \in 1 .. Len(q)
  PROVE  /\ SubSeq(q, 1, n) \in Seq(S) /\ Len(SubSeq(q, 1, n)) = n
         /\ \A i \in 1 .. n : SubSeq(q, 1, n)[i] = q[i]
         /\ SubSeq(q, n + 1, Len(q)) \in Seq(S) /\ Len(SubSeq(q, n + 1, Len(q))) = Len(q) - n
         /\ \A i \in 1 .. Len(q) - n : SubSeq(q, n + 1, Len(q))[i] = q[n + i]
<1> DEFINE b == SubSeq(q, 1, n)
           k == SubSeq(q, n + 1, Len(q))
<1>0. Len(q) \in Nat
  BY LenProperties
<1>1. n \in Nat /\ 1 <= n /\ n <= Len(q)
  BY <1>0
<1>2. \A i \in 1 .. Len(q) : q[i] \in S
  BY ElementOfSeq
<1>3. b \in Seq(S) /\ Len(b) = n /\ \A i \in 1 .. n : b[i] = q[i]
  <2>1. \A i \in 1 .. n : q[i] \in S
    BY <1>0, <1>1, <1>2
  <2> QED BY <1>1, <2>1, SubSeqProperties
<1>4. k \in Seq(S) /\ Len(k) = Len(q) - n /\ \A i \in 1 .. Len(q) - n : k[i] = q[n + i]
  <2>1. \A i \in n + 1 .. Len(q) : q[i] \in S
    BY <1>0, <1>1, <1>2
  <2>2. /\ k \in Seq(S)
        /\ Len(k) = IF n + 1 <= Len(q) THEN Len(q) - (n + 1) + 1 ELSE 0
        /\ \A i \in 1 .. Len(q) - (n + 1) + 1 : k[i] = q[n + 1 + i - 1]
    BY <1>0, <1>1, <2>1, SubSeqProperties
  <2> HIDE DEF k
  <2>3. Len(k) = Len(q) - n
    BY <1>0, <1>1, <2>2
  <2>4. \A i \in 1 .. Len(q) - n : i \in 1 .. Len(q) - (n + 1) + 1 /\ n + 1 + i - 1 = n + i
    BY <1>0, <1>1
  <2> QED BY <2>2, <2>3, <2>4
<1> QED BY <1>3, <1>4

\* b is cut off the front of q and k is left.
IsCut(q, n, b, k) ==
  /\ Len(q) \in Nat /\ n \in 1 .. Len(q)
  /\ DOMAIN q = 1 .. Len(q) /\ DOMAIN b = 1 .. n /\ DOMAIN k = 1 .. Len(q) - n
  /\ \A i \in 1 .. n : b[i] = q[i]
  /\ \A i \in 1 .. Len(q) - n : k[i] = q[n + i]

\* What it takes is ahead of what it leaves.
LEMMA CutOffOrdered ==
  ASSUME NEW q, NEW n, NEW b, NEW k, IsCut(q, n, b, k)
  PROVE  /\ ToSet(q) = ToSet(b) \cup ToSet(k)
         /\ InOrder(q) => Ahead(ToSet(b), ToSet(k)) /\ InOrder(k)
<1>0. Len(q) \in Nat /\ n \in Nat /\ 1 <= n /\ n <= Len(q)
  BY DEF IsCut
<1>1. ASSUME NEW e \in ToSet(q) PROVE e \in ToSet(b) \cup ToSet(k)
  <2>1. PICK i \in 1 .. Len(q) : e = q[i]
    BY <1>1 DEF ToSet, IsCut
  <2>2. CASE i <= n
    <3>1. i \in DOMAIN b /\ e = b[i]
      BY <1>0, <2>1, <2>2 DEF IsCut
    <3> QED BY <3>1 DEF ToSet
  <2>3. CASE i > n
    <3>1. i - n \in 1 .. Len(q) - n /\ n + (i - n) = i
      BY <1>0, <2>3
    <3>2. i - n \in DOMAIN k /\ e = k[i - n]
      BY <2>1, <3>1 DEF IsCut
    <3> QED BY <3>2 DEF ToSet
  <2> QED BY <1>0, <2>2, <2>3
<1>2. ASSUME NEW e \in ToSet(b) PROVE \E i \in DOMAIN q : i <= n /\ e = q[i]
  <2>1. PICK i \in 1 .. n : e = b[i]
    BY <1>2 DEF ToSet, IsCut
  <2>2. i \in 1 .. Len(q) /\ i <= n
    BY <1>0
  <2> QED BY <2>1, <2>2 DEF IsCut
<1>3. ASSUME NEW e \in ToSet(k) PROVE \E i \in DOMAIN q : n < i /\ e = q[i]
  <2>1. PICK i \in 1 .. Len(q) - n : e = k[i]
    BY <1>3 DEF ToSet, IsCut
  <2>2. n + i \in 1 .. Len(q) /\ n < n + i
    BY <1>0
  <2> QED BY <2>1, <2>2 DEF IsCut
<1>4. ToSet(q) = ToSet(b) \cup ToSet(k)
  BY <1>1, <1>2, <1>3 DEF ToSet
<1>5. ASSUME InOrder(q), NEW e \in ToSet(b), NEW f \in ToSet(k)
      PROVE  Ahead({e}, {f})
  <2>1. PICK i \in DOMAIN q : i <= n /\ e = q[i]
    BY <1>2, <1>5
  <2>2. PICK j \in DOMAIN q : n < j /\ f = q[j]
    BY <1>3, <1>5
  <2>3. i < j
    BY <1>0, <2>1, <2>2 DEF IsCut
  <2> QED BY <1>5, <2>1, <2>2, <2>3 DEF InOrder
<1>6. ASSUME InOrder(q), NEW i \in DOMAIN k, NEW j \in DOMAIN k, i < j
      PROVE  Ahead({k[i]}, {k[j]})
  <2>1. i \in 1 .. Len(q) - n /\ j \in 1 .. Len(q) - n
    BY <1>6 DEF IsCut
  <2>2. n + i \in 1 .. Len(q) /\ n + j \in 1 .. Len(q) /\ n + i < n + j
    BY <1>0, <1>6, <2>1
  <2>3. Ahead({q[n + i]}, {q[n + j]})
    BY <1>6, <2>2 DEF InOrder, IsCut
  <2> QED BY <2>1, <2>3 DEF IsCut
<1> QED BY <1>4, <1>5, <1>6 DEF InOrder, Ahead

\* The greatest of finitely many numbers is there.
LEMMA Greatest ==
  ASSUME NEW S, NEW N \in Nat, S \subseteq 0 .. N, S # {}
  PROVE  Max(S) \in S /\ \A k \in S : k <= Max(S)
<1> DEFINE T == {N - k : k \in S}
<1>1. T \subseteq Nat /\ T # {}
  OBVIOUS
<1>2. PICK x \in T : \A y \in T : ~(<<y, x>> \in OpToRel(<, Nat))
  BY <1>1, NatLessThanWellFounded, WFMin
<1>3. \A y \in T : ~(y < x)
  BY <1>1, <1>2 DEF OpToRel
<1>4. PICK m \in S : x = N - m
  BY <1>2
<1>5. \A k \in S : k <= m
  BY <1>1, <1>3, <1>4
<1>6. \E y \in S : \A k \in S : y >= k
  BY <1>4, <1>5
<1> QED BY <1>6 DEF Max

-------------------------------------------------------------------------------
(* What a flush, a publication and the end of a batch do to what waits. *)

\* flush does nothing to an empty queue, and cuts a batch off any other.
LEMMA FlushTakes ==
  ASSUME TypeOK
  PROVE  \/ queue = <<>> /\ Flushed.queue = <<>> /\ Flushed.chain = chain
         \/ \E n \in 1 .. BatchSize, b \in Seq(Events) :
              /\ Len(b) = n /\ IsCut(queue, n, b, Flushed.queue)
              /\ Flushed.queue \in Seq(Events) /\ Len(Flushed.queue) = Len(queue) - n
              /\ Flushed.chain = Append(chain, b)
<1> DEFINE n == IF Len(queue) < BatchSize THEN Len(queue) ELSE BatchSize
<1>1. queue \in Seq(Events) /\ Len(queue) \in Nat /\ DOMAIN queue = 1 .. Len(queue)
  BY LenProperties DEF TypeOK
<1>2. BatchSize \in Nat \ {0}
  BY WriterAssumption
<1>3. Flushed = [queue |-> SubSeq(queue, n + 1, Len(queue)),
                 chain |-> IF n = 0 THEN chain ELSE Append(chain, SubSeq(queue, 1, n))]
  BY DEF Flushed
<1>4. CASE queue = <<>>
  <2>1. n = 0 /\ Len(queue) = 0
    BY <1>2, <1>4
  <2>2. SubSeq(queue, n + 1, Len(queue)) = <<>>
    BY <2>1, SubSeqEmpty
  <2> QED BY <1>3, <1>4, <2>1, <2>2
<1>5. CASE queue # <<>>
  <2>1. Len(queue) # 0
    BY <1>1, <1>5, EmptySeq
  <2>2. n \in 1 .. Len(queue) /\ n \in 1 .. BatchSize /\ n # 0
    BY <1>1, <1>2, <2>1
  <2> HIDE DEF n
  <2>3. /\ SubSeq(queue, 1, n) \in Seq(Events) /\ Len(SubSeq(queue, 1, n)) = n
        /\ \A i \in 1 .. n : SubSeq(queue, 1, n)[i] = queue[i]
        /\ SubSeq(queue, n + 1, Len(queue)) \in Seq(Events)
        /\ Len(SubSeq(queue, n + 1, Len(queue))) = Len(queue) - n
        /\ \A i \in 1 .. Len(queue) - n : SubSeq(queue, n + 1, Len(queue))[i] = queue[n + i]
    BY <1>1, <2>2, CutOff
  <2>4. /\ DOMAIN SubSeq(queue, 1, n) = 1 .. n
        /\ DOMAIN SubSeq(queue, n + 1, Len(queue)) = 1 .. Len(queue) - n
    BY <2>3, LenProperties
  <2>5. IsCut(queue, n, SubSeq(queue, 1, n), SubSeq(queue, n + 1, Len(queue)))
    BY <1>1, <2>2, <2>3, <2>4 DEF IsCut
  <2>6. /\ Flushed.queue = SubSeq(queue, n + 1, Len(queue))
        /\ Flushed.chain = Append(chain, SubSeq(queue, 1, n))
    BY <1>3, <2>2
  <2> QED BY <2>2, <2>3, <2>5, <2>6
<1> QED BY <1>4, <1>5

\* The types of queue and chain, position by position.
LEMMA ChainFacts ==
  ASSUME TypeOK
  PROVE  /\ chain \in Seq(Seq(Events)) /\ Len(chain) \in Nat /\ DOMAIN chain = 1 .. Len(chain)
         /\ \A i \in 1 .. Len(chain) : chain[i] \in Seq(Events) /\ ToSet(chain[i]) \subseteq Events
         /\ queue \in Seq(Events) /\ Len(queue) \in Nat /\ DOMAIN queue = 1 .. Len(queue)
         /\ \A i \in 1 .. Len(queue) : queue[i] \in Events
         /\ Unsettled \subseteq Events
<1>1. chain \in Seq(Seq(Events)) /\ Len(chain) \in Nat /\ DOMAIN chain = 1 .. Len(chain)
  BY LenProperties DEF TypeOK
<1>2. \A i \in 1 .. Len(chain) : chain[i] \in Seq(Events)
  BY <1>1, ElementOfSeq
<1>3. \A i \in 1 .. Len(chain) : ToSet(chain[i]) \subseteq Events
  BY <1>2, ToSetOfSeq
<1>4. queue \in Seq(Events)
  BY DEF TypeOK
<1>5. /\ ToSet(queue) \subseteq Events
      /\ Len(queue) \in Nat /\ DOMAIN queue = 1 .. Len(queue)
      /\ \A i \in 1 .. Len(queue) : queue[i] \in Events
  BY <1>4, ToSetOfSeq
<1>6. Unsettled \subseteq Events
  BY <1>1, <1>3, <1>5 DEF Unsettled, InChain
<1> QED BY <1>1, <1>2, <1>3, <1>4, <1>5, <1>6

\* A flush moves what waits, and changes neither what it is nor its order.
LEMMA FlushKeeps ==
  ASSUME TypeOK, Ordered(queue, chain), queue' = Flushed.queue, chain' = Flushed.chain
  PROVE  /\ queue' \in Seq(Events) /\ Len(queue') <= Capacity
         /\ chain' \in Seq(Seq(Events)) /\ \A i \in DOMAIN chain' : Len(chain'[i]) \in 1 .. BatchSize
         /\ Len(chain') \in Nat /\ Len(chain) <= Len(chain') /\ DOMAIN chain' = 1 .. Len(chain')
         /\ \A i \in 1 .. Len(chain) : chain'[i] = chain[i]
         /\ Unsettled' = Unsettled
         /\ Ordered(queue, chain)'
         /\ queue = <<>> => ToSet(queue') = {}
<1>0. /\ chain \in Seq(Seq(Events)) /\ Len(chain) \in Nat /\ DOMAIN chain = 1 .. Len(chain)
      /\ Len(queue) \in Nat /\ Len(queue) <= Capacity
      /\ \A i \in DOMAIN chain : Len(chain[i]) \in 1 .. BatchSize
  BY ChainFacts DEF TypeOK
<1>1. CASE queue = <<>> /\ Flushed.queue = <<>> /\ Flushed.chain = chain
  <2>1. queue' = queue /\ chain' = chain
    BY <1>1
  <2>2. Unsettled' = Unsettled /\ (Ordered(queue, chain)' <=> Ordered(queue, chain))
    BY <2>1 DEF Unsettled, InChain, Ordered, InOrder, Ahead, NumberOf
  <2>3. ToSet(queue') = {}
    BY <1>1 DEF ToSet
  <2>4. queue' \in Seq(Events)
    BY <2>1 DEF TypeOK
  <2> QED BY <1>0, <2>1, <2>2, <2>3, <2>4
<1>2. ASSUME NEW n \in 1 .. BatchSize, NEW b \in Seq(Events), Len(b) = n,
             IsCut(queue, n, b, queue'), queue' \in Seq(Events), Len(queue') = Len(queue) - n,
             chain' = Append(chain, b)
      PROVE  /\ queue' \in Seq(Events) /\ Len(queue') <= Capacity
             /\ chain' \in Seq(Seq(Events)) /\ \A i \in DOMAIN chain' : Len(chain'[i]) \in 1 .. BatchSize
             /\ Len(chain') \in Nat /\ Len(chain) <= Len(chain') /\ DOMAIN chain' = 1 .. Len(chain')
             /\ \A i \in 1 .. Len(chain) : chain'[i] = chain[i]
             /\ Unsettled' = Unsettled
             /\ Ordered(queue, chain)'
             /\ queue # <<>>
  <2>1. /\ chain' \in Seq(Seq(Events)) /\ Len(chain') = Len(chain) + 1
        /\ DOMAIN chain' = 1 .. Len(chain) + 1
        /\ \A i \in 1 .. Len(chain) : chain'[i] = chain[i]
        /\ chain'[Len(chain) + 1] = b
    BY <1>0, <1>2, ToSetOfAppend
  <2>2. n \in Nat /\ n >= 1 /\ n <= Len(queue) /\ Capacity \in Nat
    BY <1>0, <1>2, WriterAssumption DEF IsCut
  <2>3. ToSet(queue) = ToSet(b) \cup ToSet(queue') /\ Ahead(ToSet(b), ToSet(queue')) /\ InOrder(queue')
    BY <1>2, CutOffOrdered DEF Ordered
  <2>4. \A i \in DOMAIN chain' : i \in DOMAIN chain \/ i = Len(chain) + 1
    BY <1>0, <2>1
  <2>5. DOMAIN chain \subseteq DOMAIN chain' /\ Len(chain) + 1 \in DOMAIN chain'
    BY <1>0, <2>1
  <2>6. \A i \in DOMAIN chain' : Len(chain'[i]) \in 1 .. BatchSize
    BY <1>0, <1>2, <2>1, <2>4
  <2>7. InChain' = InChain \cup ToSet(b)
    BY <1>0, <2>1, <2>4, <2>5 DEF InChain
  <2>8. Unsettled' = Unsettled
    BY <2>3, <2>7 DEF Unsettled
  <2>9. \A i \in DOMAIN chain : Ahead(ToSet(chain[i]), ToSet(b)) /\ Ahead(ToSet(chain[i]), ToSet(queue'))
    BY <2>3 DEF Ordered, Ahead
  <2>10. \A i \in DOMAIN chain' : Ahead(ToSet(chain'[i]), ToSet(queue'))
    BY <1>0, <2>1, <2>3, <2>4, <2>9
  <2>11. \A i, j \in DOMAIN chain' : i < j => Ahead(ToSet(chain'[i]), ToSet(chain'[j]))
    <3>1. SUFFICES ASSUME NEW i \in DOMAIN chain', NEW j \in DOMAIN chain', i < j
                   PROVE  Ahead(ToSet(chain'[i]), ToSet(chain'[j]))
      OBVIOUS
    <3>2. i \in DOMAIN chain /\ chain'[i] = chain[i]
      <4>1. i \in 1 .. Len(chain) + 1 /\ j \in 1 .. Len(chain) + 1
        BY <2>1
      <4>2. i \in 1 .. Len(chain)
        BY <1>0, <3>1, <4>1
      <4> QED BY <1>0, <2>1, <4>2
    <3>3. CASE j \in DOMAIN chain
      BY <1>0, <2>1, <3>1, <3>2, <3>3 DEF Ordered
    <3>4. CASE j = Len(chain) + 1
      BY <2>1, <2>9, <3>2, <3>4
    <3> QED BY <2>4, <3>3, <3>4
  <2>12. Ordered(queue, chain)'
    BY <2>3, <2>10, <2>11 DEF Ordered, InOrder, Ahead, NumberOf
  <2>13. queue # <<>>
    BY <2>2, EmptySeq
  <2>14. Len(queue') <= Capacity /\ Len(chain') \in Nat /\ Len(chain) <= Len(chain')
    BY <1>0, <1>2, <2>1, <2>2
  <2> QED BY <1>2, <2>1, <2>6, <2>8, <2>12, <2>13, <2>14
<1> QED BY <1>1, <1>2, FlushTakes

\* An observation that is enqueued is behind all that wait.
LEMMA EnqueueKeeps ==
  ASSUME TypeOK, Ordered(queue, chain), NEW e \in Events, Ahead(Unsettled, {e}),
         Len(queue) < Capacity, queue' = Append(queue, e), chain' = chain
  PROVE  /\ queue' \in Seq(Events) /\ Len(queue') <= Capacity
         /\ Unsettled' = Unsettled \cup {e}
         /\ Ordered(queue, chain)'
<1>0. queue \in Seq(Events) /\ Len(queue) \in Nat /\ DOMAIN queue = 1 .. Len(queue)
  BY ChainFacts
<1>1. /\ queue' \in Seq(Events) /\ Len(queue') = Len(queue) + 1
      /\ DOMAIN queue' = 1 .. Len(queue) + 1
      /\ \A i \in 1 .. Len(queue) : queue'[i] = queue[i]
      /\ queue'[Len(queue) + 1] = e
      /\ ToSet(queue') = ToSet(queue) \cup {e}
  BY <1>0, ToSetOfAppend
<1>2. Len(queue') <= Capacity
  BY <1>0, <1>1, WriterAssumption
<1>3. Unsettled' = Unsettled \cup {e}
  BY <1>1 DEF Unsettled, InChain
<1>4. ASSUME NEW i \in DOMAIN queue', NEW j \in DOMAIN queue', i < j
      PROVE  Ahead({queue'[i]}, {queue'[j]})
  <2>1. i \in 1 .. Len(queue) + 1 /\ j \in 1 .. Len(queue) + 1
    BY <1>1
  <2>2. i \in 1 .. Len(queue)
    BY <1>0, <1>4, <2>1
  <2>3. CASE j \in 1 .. Len(queue)
    BY <1>0, <1>1, <1>4, <2>2, <2>3 DEF Ordered, InOrder
  <2>4. CASE j = Len(queue) + 1
    <3>1. queue'[i] \in Unsettled
      BY <1>0, <1>1, <2>2 DEF Unsettled, ToSet
    <3> QED BY <1>1, <2>4, <3>1 DEF Ahead
  <2>5. j \in 1 .. Len(queue) \/ j = Len(queue) + 1
    BY <1>0, <2>1
  <2> QED BY <2>3, <2>4, <2>5
<1>5. \A i \in DOMAIN chain' : Ahead(ToSet(chain'[i]), ToSet(queue'))
  BY <1>1 DEF Ordered, Ahead, Unsettled, InChain
<1>6. Ordered(queue, chain)'
  BY <1>4, <1>5 DEF Ordered, InOrder, Ahead, NumberOf
<1> QED BY <1>1, <1>2, <1>3, <1>6

\* The batch that is done was ahead of everything that still waits.
LEMMA DoneKeeps ==
  ASSUME TypeOK, Ordered(queue, chain), chain # <<>>, queue' = queue, chain' = Tail(chain)
  PROVE  /\ chain' \in Seq(Seq(Events)) /\ \A i \in DOMAIN chain' : Len(chain'[i]) \in 1 .. BatchSize
         /\ Len(chain) \in Nat \ {0} /\ Len(chain') = Len(chain) - 1
         /\ \A i \in 1 .. Len(chain) - 1 : chain'[i] = chain[i + 1]
         /\ Head(chain) = chain[1] /\ ToSet(Head(chain)) \subseteq Events
         /\ Unsettled = ToSet(Head(chain)) \cup Unsettled'
         /\ Ahead(ToSet(Head(chain)), Unsettled')
         /\ Ordered(queue, chain)'
<1>0. chain \in Seq(Seq(Events)) /\ \A i \in DOMAIN chain : Len(chain[i]) \in 1 .. BatchSize
  BY DEF TypeOK
<1>1. /\ Head(chain) = chain[1] /\ Head(chain) \in Seq(Events)
      /\ chain' \in Seq(Seq(Events))
      /\ Len(chain) \in Nat \ {0} /\ Len(chain') = Len(chain) - 1
      /\ DOMAIN chain = 1 .. Len(chain) /\ DOMAIN chain' = 1 .. Len(chain) - 1
      /\ \A i \in 1 .. Len(chain) - 1 : chain'[i] = chain[i + 1]
  BY <1>0, TailOfChain
<1>2. \A i \in DOMAIN chain' : i + 1 \in DOMAIN chain /\ 1 < i + 1 /\ chain'[i] = chain[i + 1]
  BY <1>1
<1>3. 1 \in DOMAIN chain /\ \A i \in DOMAIN chain : i = 1 \/ (i - 1 \in DOMAIN chain' /\ i - 1 + 1 = i)
  BY <1>1
<1>4. \A i \in DOMAIN chain' : Len(chain'[i]) \in 1 .. BatchSize
  BY <1>0, <1>2
<1>5. InChain = ToSet(Head(chain)) \cup InChain'
  <2>1. InChain' = UNION {ToSet(chain'[i]) : i \in DOMAIN chain'}
    BY DEF InChain
  <2>2. \A i \in DOMAIN chain : ToSet(chain[i]) \subseteq ToSet(Head(chain)) \cup InChain'
    <3>1. SUFFICES ASSUME NEW i \in DOMAIN chain, i # 1
                   PROVE  ToSet(chain[i]) \subseteq InChain'
      BY <1>1
    <3>2. i - 1 \in DOMAIN chain' /\ i - 1 + 1 = i
      BY <1>3, <3>1
    <3>3. chain'[i - 1] = chain[i]
      BY <1>2, <3>2
    <3> QED BY <2>1, <3>2, <3>3
  <2>3. \A i \in DOMAIN chain' : ToSet(chain'[i]) \subseteq InChain
    BY <1>2 DEF InChain
  <2>4. ToSet(Head(chain)) \subseteq InChain
    BY <1>1, <1>3 DEF InChain
  <2> QED BY <2>1, <2>2, <2>3, <2>4 DEF InChain
<1>6. Unsettled = ToSet(Head(chain)) \cup Unsettled'
  BY <1>5 DEF Unsettled
<1>7. Ahead(ToSet(Head(chain)), Unsettled')
  <2>1. \A i \in DOMAIN chain' : Ahead(ToSet(Head(chain)), ToSet(chain'[i]))
    BY <1>1, <1>2, <1>3 DEF Ordered
  <2>2. Ahead(ToSet(Head(chain)), ToSet(queue'))
    BY <1>1, <1>3 DEF Ordered
  <2> QED BY <2>1, <2>2 DEF Ahead, Unsettled, InChain
<1>8. \A i, j \in DOMAIN chain' : i < j => Ahead(ToSet(chain'[i]), ToSet(chain'[j]))
  <2>1. \A i, j \in DOMAIN chain' : i < j => i + 1 < j + 1
    BY <1>1
  <2> QED BY <1>2, <2>1 DEF Ordered
<1>9. \A i \in DOMAIN chain' : Ahead(ToSet(chain'[i]), ToSet(queue'))
  BY <1>2 DEF Ordered
<1>10. Ordered(queue, chain)'
  BY <1>8, <1>9 DEF Ordered, InOrder, Ahead, NumberOf
<1>11. ToSet(Head(chain)) \subseteq Events
  BY <1>1, ToSetOfSeq
<1> QED BY <1>1, <1>4, <1>6, <1>7, <1>10, <1>11

-------------------------------------------------------------------------------
(* The invariant holds initially and every action keeps it. *)

\* Nothing is in the empty sequence.
LEMMA EmptyFacts ==
  /\ ToSet(<<>>) = {} /\ DOMAIN <<>> = {} /\ Len(<<>>) = 0
  /\ \A S : <<>> \in Seq(S)
BY EmptySeq DEF ToSet

\* Nothing waits at the start.
LEMMA InitHolds == Init => IInv
<1> SUFFICES ASSUME Init PROVE IInv
  OBVIOUS
<1> USE DEF Init
<1>1. TypeOK
  <2>1. /\ chain \in Seq(Seq(Events)) /\ queue \in Seq(Events)
        /\ DOMAIN chain = {} /\ Len(chain) = 0 /\ Len(queue) = 0
    BY EmptyFacts
  <2>2. 0 \in 0 .. MaxEvents /\ 1 \in 1 .. Attempts /\ 0 <= Capacity /\ 0 \in 0 .. 0
    BY WriterAssumption
  <2> QED BY <2>1, <2>2 DEF TypeOK
<1>2. Ordered(queue, chain)
  BY EmptyFacts DEF Ordered, InOrder
<1>3. Unsettled = {}
  BY EmptyFacts DEF Unsettled, InChain
<1>4. \A e \in Events : ~(NumberOf(e) <= 0)
  BY EventFacts
<1>5. Published = {} /\ WatermarkHidesNothing
  BY <1>4, EventFacts DEF Published, WatermarkHidesNothing
<1>6. NotYetTold /\ Accounted
  BY <1>3, <1>5 DEF NotYetTold, Accounted
<1>7. \A r \in Runs : watermark[r] <= sequence[r]
  OBVIOUS
<1>8. DueFits
  BY DEF DueFits
<1> QED BY <1>1, <1>2, <1>5, <1>6, <1>7, <1>8 DEF IInv

LEMMA PublishKeeps ==
  ASSUME IInv, alive, NEW r \in Runs, Publish(r)
  PROVE  IInv'
<1> DEFINE e == <<r, sequence[r] + 1>>
<1>0. /\ sequence[r] \in Nat /\ sequence[r] + 1 <= MaxEvents /\ MaxEvents \in Nat
      /\ sequence' = [sequence EXCEPT ![r] = @ + 1]
      /\ sequence \in [Runs -> 0 .. MaxEvents] /\ watermark \in [Runs -> 0 .. MaxEvents]
      /\ TypeOK /\ Ordered(queue, chain)
  BY WriterAssumption DEF IInv, TypeOK, Publish
<1>1. e \in Events /\ e[1] = r /\ NumberOf(e) = sequence[r] + 1
  BY <1>0 DEF Events, NumberOf
<1>2. /\ sequence' \in [Runs -> 0 .. MaxEvents]
      /\ \A q \in Runs : sequence'[q] = IF q = r THEN sequence[r] + 1 ELSE sequence[q]
      /\ \A q \in Runs : sequence[q] \in Nat /\ sequence[q] <= sequence'[q]
  BY <1>0
<1>3. Published' = Published \cup {e}
  <2>1. ASSUME NEW f \in Events PROVE f \in Published' <=> f \in Published \/ f = e
    <3>1. f[1] \in Runs /\ NumberOf(f) \in Int /\ f = <<f[1], NumberOf(f)>>
      BY EventFacts
    <3>2. CASE f[1] = r
      <4>1. NumberOf(f) <= sequence[r] + 1 <=> NumberOf(f) <= sequence[r] \/ NumberOf(f) = sequence[r] + 1
        BY <1>0, <3>1
      <4>2. f = e <=> NumberOf(f) = sequence[r] + 1
        BY <1>1, <3>1, <3>2
      <4> QED BY <1>2, <3>2, <4>1, <4>2 DEF Published, NumberOf
    <3>3. CASE f[1] # r
      BY <1>1, <1>2, <3>1, <3>3 DEF Published, NumberOf
    <3> QED BY <3>2, <3>3
  <2> QED BY <1>1, <2>1 DEF Published
<1>4. UNCHANGED <<chain, attempt, rows, persisted, watermark, drain, awaited, due, alive>>
  BY DEF Publish
<1>5. Unsettled \subseteq Events
  BY <1>0, ChainFacts
<1>6. Ahead(Unsettled, {e})
  <2>1. \A f \in Unsettled : f[1] \in Runs /\ NumberOf(f) \in Int /\ NumberOf(f) <= sequence[f[1]]
    BY <1>5, EventFacts DEF IInv, NotYetTold
  <2>2. SUFFICES ASSUME NEW f \in Unsettled, f[1] = r PROVE NumberOf(f) < NumberOf(e)
    BY <1>1 DEF Ahead
  <2>3. NumberOf(f) <= sequence[r] /\ NumberOf(f) \in Int
    BY <2>1, <2>2
  <2> QED BY <1>0, <1>1, <2>3
<1>7. \A q \in Runs : watermark'[q] <= sequence'[q]
  <2>1. \A q \in Runs : watermark[q] \in Int /\ watermark[q] <= sequence[q]
    BY <1>0 DEF IInv
  <2> QED BY <1>2, <1>4, <2>1
<1>8. WatermarkHidesNothing'
  BY <1>4 DEF IInv, WatermarkHidesNothing, Publish, NumberOf
<1>9. \A f \in Unsettled : watermark[f[1]] < NumberOf(f) /\ NumberOf(f) <= sequence'[f[1]]
  <2>1. \A f \in Unsettled : /\ f[1] \in Runs /\ NumberOf(f) \in Int
                             /\ NumberOf(f) <= sequence[f[1]] /\ watermark[f[1]] < NumberOf(f)
    BY <1>5, EventFacts DEF IInv, NotYetTold
  <2> QED BY <1>2, <2>1
<1>10. watermark[r] < NumberOf(e) /\ NumberOf(e) <= sequence'[r]
  <2>1. watermark[r] \in Int /\ watermark[r] <= sequence[r]
    BY <1>0 DEF IInv
  <2> QED BY <1>0, <1>1, <1>2, <2>1
<1> HIDE DEF e
<1>11. CASE IsFull
  <2>1. failed' = failed \cup {e} /\ queue' = queue /\ timer' = timer
    BY <1>11 DEF Publish, e
  <2>2. Unsettled' = Unsettled /\ Settled \subseteq Settled'
    BY <1>4, <2>1 DEF Unsettled, InChain, Settled
  <2>3. TypeOK'
    BY <1>0, <1>1, <1>2, <1>4, <2>1 DEF TypeOK
  <2>4. Ordered(queue, chain)'
    BY <1>0, <1>4, <2>1 DEF Ordered, InOrder, Ahead, NumberOf
  <2>5. NotYetTold'
    BY <1>4, <1>9, <2>2 DEF NotYetTold, NumberOf
  <2>6. Accounted'
    BY <1>3, <1>4, <2>1, <2>2 DEF IInv, Accounted
  <2>7. DueFits'
    BY <1>4, <2>1, <2>2 DEF IInv, DueFits
  <2> QED BY <1>7, <1>8, <2>3, <2>4, <2>5, <2>6, <2>7 DEF IInv
<1>12. CASE ~IsFull
  <2>1. queue' = Append(queue, e) /\ timer' = TRUE /\ failed' = failed
    BY <1>12 DEF Publish, e
  <2>2. Len(queue) < Capacity
    BY <1>0, <1>12, ChainFacts, WriterAssumption DEF IsFull
  <2>3. /\ queue' \in Seq(Events) /\ Len(queue') <= Capacity
        /\ Unsettled' = Unsettled \cup {e}
        /\ Ordered(queue, chain)'
    BY <1>0, <1>1, <1>4, <1>6, <2>1, <2>2, EnqueueKeeps
  <2>4. TypeOK'
    BY <1>0, <1>1, <1>2, <1>4, <2>1, <2>3 DEF TypeOK
  <2>5. NotYetTold'
    BY <1>1, <1>4, <1>9, <1>10, <2>3 DEF NotYetTold, NumberOf
  <2>6. Accounted'
    BY <1>3, <1>4, <2>1, <2>3 DEF IInv, Accounted
  <2>7. DueFits'
    BY <1>4, <2>1, <2>3 DEF IInv, DueFits, Settled
  <2> QED BY <1>7, <1>8, <2>3, <2>4, <2>5, <2>6, <2>7 DEF IInv
<1> QED BY <1>11, <1>12

\* What a flush by the timer or by the drain keeps, but for the drain's part.
LEMMA FlushSteps ==
  ASSUME IInv, queue' = Flushed.queue, chain' = Flushed.chain,
         UNCHANGED <<sequence, attempt, rows, persisted, failed, watermark, alive>>,
         timer' \in BOOLEAN, awaited' \in 0 .. Len(chain'), due' \subseteq Events,
         drain' \in {"open", "flushing", "finishing", "drained"}, DueFits'
  PROVE  IInv'
<1>0. TypeOK /\ Ordered(queue, chain)
  BY DEF IInv
<1>1. /\ queue' \in Seq(Events) /\ Len(queue') <= Capacity
      /\ chain' \in Seq(Seq(Events)) /\ \A i \in DOMAIN chain' : Len(chain'[i]) \in 1 .. BatchSize
      /\ Unsettled' = Unsettled
      /\ Ordered(queue, chain)'
  BY <1>0, FlushKeeps
<1>2. TypeOK'
  BY <1>0, <1>1 DEF TypeOK
<1>3. NotYetTold'
  BY <1>1 DEF IInv, NotYetTold, NumberOf
<1>4. Accounted'
  BY <1>1 DEF IInv, Accounted, Published, NumberOf
<1>5. (\A r \in Runs : watermark[r] <= sequence[r])' /\ WatermarkHidesNothing'
  BY DEF IInv, WatermarkHidesNothing, NumberOf
<1> QED BY <1>1, <1>2, <1>3, <1>4, <1>5 DEF IInv

LEMMA FlushTimerKeeps ==
  ASSUME IInv, FlushTimer
  PROVE  IInv'
<1>0. TypeOK /\ Ordered(queue, chain) /\ queue' = Flushed.queue /\ chain' = Flushed.chain
  BY DEF IInv, FlushTimer
<1>1. /\ Len(chain') \in Nat /\ Len(chain) <= Len(chain')
      /\ \A i \in 1 .. Len(chain) : chain'[i] = chain[i]
      /\ Unsettled' = Unsettled
  BY <1>0, FlushKeeps
<1>2. Len(chain) \in Nat /\ awaited \in 0 .. Len(chain)
  BY <1>0, ChainFacts DEF TypeOK
<1>3. awaited' \in 0 .. Len(chain')
  BY <1>1, <1>2 DEF FlushTimer
<1>4. \A i \in 1 .. awaited : chain'[i] = chain[i]
  BY <1>1, <1>2
<1>5. DueFits'
  BY <1>1, <1>4 DEF IInv, DueFits, FlushTimer, Settled
<1> QED BY <1>0, <1>3, <1>5, FlushSteps DEF FlushTimer, TypeOK

\* What the end of a batch keeps, when its observations are settled with it.
LEMMA BatchSteps ==
  ASSUME IInv, alive, chain # <<>>, BatchDone,
         UNCHANGED <<sequence, queue, drain, due, alive>>,
         Settled \cup ToSet(Head(chain)) \subseteq Settled'
  PROVE  /\ chain' \in Seq(Seq(Events)) /\ \A i \in DOMAIN chain' : Len(chain'[i]) \in 1 .. BatchSize
         /\ attempt' \in 1 .. Attempts /\ timer' \in BOOLEAN /\ awaited' \in 0 .. Len(chain')
         /\ ToSet(Head(chain)) \subseteq Events
         /\ Unsettled = ToSet(Head(chain)) \cup Unsettled'
         /\ Ahead(ToSet(Head(chain)), Unsettled')
         /\ Ordered(queue, chain)'
         /\ DueFits'
<1>0. TypeOK /\ Ordered(queue, chain) /\ queue' = queue /\ chain' = Tail(chain)
  BY DEF IInv, BatchDone
<1>1. /\ chain' \in Seq(Seq(Events)) /\ \A i \in DOMAIN chain' : Len(chain'[i]) \in 1 .. BatchSize
      /\ Len(chain) \in Nat \ {0} /\ Len(chain') = Len(chain) - 1
      /\ \A i \in 1 .. Len(chain) - 1 : chain'[i] = chain[i + 1]
      /\ Head(chain) = chain[1] /\ ToSet(Head(chain)) \subseteq Events
      /\ Unsettled = ToSet(Head(chain)) \cup Unsettled'
      /\ Ahead(ToSet(Head(chain)), Unsettled')
      /\ Ordered(queue, chain)'
  BY <1>0, DoneKeeps
<1>2. awaited \in Nat /\ awaited <= Len(chain)
  BY <1>0, <1>1 DEF TypeOK
<1>3. awaited' = IF awaited = 0 THEN 0 ELSE awaited - 1
  BY DEF BatchDone
<1>4. awaited' \in 0 .. Len(chain')
  BY <1>1, <1>2, <1>3
<1>5. attempt' \in 1 .. Attempts /\ timer' \in BOOLEAN
  BY <1>0, WriterAssumption DEF BatchDone, Rescheduled, TypeOK
<1>6. UNION {ToSet(chain[i]) : i \in 1 .. awaited}
        \subseteq ToSet(Head(chain)) \cup UNION {ToSet(chain'[i]) : i \in 1 .. awaited'}
  <2>1. SUFFICES ASSUME NEW i \in 1 .. awaited, i # 1
                 PROVE  \E j \in 1 .. awaited' : chain[i] = chain'[j]
    BY <1>1
  <2>2. i - 1 \in 1 .. awaited' /\ i - 1 \in 1 .. Len(chain) - 1 /\ (i - 1) + 1 = i
    BY <1>1, <1>2, <1>3, <2>1
  <2>3. chain'[i - 1] = chain[(i - 1) + 1]
    BY <1>1, <2>2
  <2> QED BY <2>2, <2>3
<1>7. DueFits'
  BY <1>1, <1>6 DEF IInv, DueFits
<1> QED BY <1>1, <1>4, <1>5, <1>7

LEMMA PersistBatchKeeps ==
  ASSUME IInv, alive, PersistBatch
  PROVE  IInv'
<1> DEFINE batch == ToSet(Head(chain))
<1>0. /\ TypeOK /\ chain # <<>> /\ BatchDone
      /\ UNCHANGED <<sequence, queue, failed, drain, due, alive>>
      /\ rows' = rows \cup batch /\ persisted' = persisted \cup batch
      /\ watermark' = Raised(batch)
  BY DEF IInv, PersistBatch
<1>1. Settled \cup batch \subseteq Settled'
  BY <1>0 DEF Settled
<1>2. /\ chain' \in Seq(Seq(Events)) /\ \A i \in DOMAIN chain' : Len(chain'[i]) \in 1 .. BatchSize
      /\ attempt' \in 1 .. Attempts /\ timer' \in BOOLEAN /\ awaited' \in 0 .. Len(chain')
      /\ batch \subseteq Events
      /\ Unsettled = batch \cup Unsettled'
      /\ Ahead(batch, Unsettled')
      /\ Ordered(queue, chain)'
      /\ DueFits'
  BY <1>0, <1>1, BatchSteps
<1> HIDE DEF batch
<1>3. /\ MaxEvents \in Nat
      /\ sequence \in [Runs -> 0 .. MaxEvents] /\ watermark \in [Runs -> 0 .. MaxEvents]
  BY <1>0, WriterAssumption DEF TypeOK
<1>4. ASSUME NEW r \in Runs
      PROVE  LET ns == {NumberOf(e) : e \in {x \in batch : x[1] = r}} IN
             /\ watermark'[r] \in {watermark[r]} \cup ns
             /\ \A k \in {watermark[r]} \cup ns : k <= watermark'[r]
             /\ {watermark[r]} \cup ns \subseteq 0 .. MaxEvents
  <2> DEFINE ns == {NumberOf(e) : e \in {x \in batch : x[1] = r}}
  <2>1. \A e \in batch : NumberOf(e) \in 0 .. MaxEvents
    BY <1>2, <1>3, EventFacts
  <2>2. {watermark[r]} \cup ns \subseteq 0 .. MaxEvents
    BY <1>3, <2>1
  <2>3. watermark'[r] = Max({watermark[r]} \cup ns)
    BY <1>0, <1>4 DEF Raised
  <2> HIDE DEF ns
  <2>4. {watermark[r]} \cup ns # {}
    OBVIOUS
  <2>5. /\ Max({watermark[r]} \cup ns) \in {watermark[r]} \cup ns
        /\ \A k \in {watermark[r]} \cup ns : k <= Max({watermark[r]} \cup ns)
    BY <1>3, <2>2, <2>4, Greatest
  <2> QED BY <2>2, <2>3, <2>5 DEF ns
<1>5. watermark' \in [Runs -> 0 .. MaxEvents]
  <2>1. \A r \in Runs : watermark'[r] \in 0 .. MaxEvents
    BY <1>4
  <2> QED BY <1>0, <2>1 DEF Raised
<1>6. TypeOK'
  BY <1>0, <1>2, <1>5 DEF TypeOK
<1>7. NotYetTold'
  <2>1. SUFFICES ASSUME NEW f \in Unsettled'
                 PROVE  watermark'[f[1]] < NumberOf(f) /\ NumberOf(f) <= sequence[f[1]]
    BY <1>0 DEF NotYetTold, NumberOf
  <2>2. f \in Unsettled /\ f[1] \in Runs
    BY <1>0, <1>2, <2>1, ChainFacts, EventFacts
  <2>3. watermark[f[1]] < NumberOf(f) /\ NumberOf(f) <= sequence[f[1]]
    BY <2>2 DEF IInv, NotYetTold
  <2>4. \A e \in batch : e[1] = f[1] => NumberOf(e) < NumberOf(f)
    BY <1>2, <2>1 DEF Ahead
  <2>5. watermark'[f[1]] \in {watermark[f[1]]} \cup {NumberOf(e) : e \in {x \in batch : x[1] = f[1]}}
    BY <1>4, <2>2
  <2> QED BY <2>3, <2>4, <2>5
<1>8. Accounted'
  BY <1>0, <1>2 DEF IInv, Accounted, Published, NumberOf
<1>9. \A r \in Runs : watermark'[r] <= sequence[r]
  <2>1. SUFFICES ASSUME NEW r \in Runs PROVE watermark'[r] <= sequence[r]
    OBVIOUS
  <2>2. \A e \in batch : e[1] = r => NumberOf(e) <= sequence[r]
    BY <1>2 DEF IInv, NotYetTold
  <2>3. watermark'[r] \in {watermark[r]} \cup {NumberOf(e) : e \in {x \in batch : x[1] = r}}
    BY <1>4
  <2>4. watermark[r] <= sequence[r]
    BY DEF IInv
  <2> QED BY <2>2, <2>3, <2>4
<1>10. WatermarkHidesNothing'
  <2>1. SUFFICES ASSUME NEW e \in Events, NumberOf(e) <= watermark'[e[1]]
                 PROVE  e \in rows' \cup failed'
    BY DEF WatermarkHidesNothing, NumberOf
  <2>2. e[1] \in Runs /\ NumberOf(e) \in Int
    BY EventFacts
  <2>3. watermark'[e[1]] \in Int /\ watermark'[e[1]] <= sequence[e[1]] /\ sequence[e[1]] \in Int
    BY <1>3, <1>5, <1>9, <2>2
  <2>4. NumberOf(e) <= sequence[e[1]]
    BY <2>1, <2>2, <2>3
  <2>5. e \in Unsettled \cup rows \cup failed
    BY <2>4 DEF IInv, Accounted, Published
  <2>6. e \notin Unsettled'
    <3>1. SUFFICES ASSUME e \in Unsettled' PROVE FALSE
      OBVIOUS
    <3>2. watermark'[e[1]] < NumberOf(e)
      BY <1>7, <3>1 DEF NotYetTold, NumberOf
    <3> QED BY <2>1, <2>2, <2>3, <3>2
  <2> QED BY <1>0, <1>2, <2>5, <2>6
<1> QED BY <1>0, <1>2, <1>6, <1>7, <1>8, <1>9, <1>10 DEF IInv

LEMMA PersistFailsKeeps ==
  ASSUME IInv, alive, PersistFails
  PROVE  IInv'
<1> DEFINE batch == ToSet(Head(chain))
<1>0. /\ TypeOK /\ chain # <<>>
      /\ rows' \in {rows, rows \cup batch}
      /\ UNCHANGED <<sequence, queue, persisted, watermark, drain, due, alive>>
      /\ batch \subseteq Events
      /\ attempt \in 1 .. Attempts /\ Attempts \in Nat
  <2>1. Head(chain) \in Seq(Events)
    BY TailOfChain DEF IInv, TypeOK, PersistFails
  <2>2. batch \subseteq Events
    BY <2>1, ToSetOfSeq
  <2> QED BY <2>2, WriterAssumption DEF IInv, PersistFails, TypeOK
<1> HIDE DEF batch
<1>1. rows \subseteq rows' /\ rows' \subseteq Events
  BY <1>0 DEF TypeOK
<1>2. ASSUME failed \subseteq failed' PROVE WatermarkHidesNothing'
  BY <1>0, <1>1, <1>2 DEF IInv, WatermarkHidesNothing, NumberOf
<1>3. (\A r \in Runs : watermark[r] <= sequence[r])'
  BY <1>0 DEF IInv
<1>4. CASE attempt < Attempts
  <2>1. attempt' = attempt + 1 /\ UNCHANGED <<chain, timer, awaited, failed>>
    BY <1>4 DEF PersistFails
  <2>2. attempt' \in 1 .. Attempts
    BY <1>0, <1>4, <2>1
  <2>3. TypeOK'
    BY <1>0, <1>1, <2>1, <2>2 DEF TypeOK
  <2>4. Unsettled' = Unsettled /\ Settled' = Settled
    BY <1>0, <2>1 DEF Unsettled, InChain, Settled
  <2>5. Ordered(queue, chain)' /\ NotYetTold' /\ DueFits'
    BY <1>0, <2>1, <2>4 DEF IInv, Ordered, InOrder, Ahead, NotYetTold, DueFits, NumberOf
  <2>6. Accounted'
    BY <1>0, <1>1, <2>1, <2>4 DEF IInv, Accounted, Published, NumberOf
  <2> QED BY <1>2, <1>3, <2>1, <2>3, <2>5, <2>6 DEF IInv
<1>5. CASE ~(attempt < Attempts)
  <2>1. failed' = failed \cup batch /\ BatchDone
    BY <1>5 DEF PersistFails, batch
  <2>2. Settled \cup batch \subseteq Settled'
    BY <1>0, <2>1 DEF Settled
  <2>3. /\ chain' \in Seq(Seq(Events)) /\ \A i \in DOMAIN chain' : Len(chain'[i]) \in 1 .. BatchSize
        /\ attempt' \in 1 .. Attempts /\ timer' \in BOOLEAN /\ awaited' \in 0 .. Len(chain')
        /\ Unsettled = batch \cup Unsettled'
        /\ Ordered(queue, chain)'
        /\ DueFits'
    BY <1>0, <2>1, <2>2, BatchSteps DEF batch
  <2>4. TypeOK'
    BY <1>0, <1>1, <2>1, <2>3 DEF TypeOK
  <2>5. NotYetTold'
    BY <1>0, <2>3 DEF IInv, NotYetTold, NumberOf
  <2>6. Accounted'
    BY <1>0, <1>1, <2>1, <2>3 DEF IInv, Accounted, Published, NumberOf
  <2> QED BY <1>2, <1>3, <2>1, <2>3, <2>4, <2>5, <2>6 DEF IInv
<1> QED BY <1>4, <1>5

\* One turn of the drain, with what it has to see settled.
LEMMA DrainTurnFits ==
  ASSUME IInv, DrainTurn, UNCHANGED <<persisted, failed>>, due' \subseteq Settled \cup Unsettled
  PROVE  DueFits' /\ awaited' \in 0 .. Len(chain') /\ drain' \in {"flushing", "finishing"}
<1>0. TypeOK /\ Ordered(queue, chain) /\ queue' = Flushed.queue /\ chain' = Flushed.chain
  BY DEF IInv, DrainTurn
<1>1. /\ Len(chain') \in Nat /\ DOMAIN chain' = 1 .. Len(chain')
      /\ Unsettled' = Unsettled
      /\ queue = <<>> => ToSet(queue') = {}
  BY <1>0, FlushKeeps
<1>2. awaited' = Len(chain') /\ drain' = IF queue = <<>> THEN "finishing" ELSE "flushing"
  BY DEF DrainTurn
<1>3. queue = <<>> => Unsettled' = UNION {ToSet(chain'[i]) : i \in 1 .. awaited'}
  BY <1>1, <1>2 DEF Unsettled, InChain
<1>4. Settled' = Settled
  BY DEF Settled
<1> QED BY <1>1, <1>2, <1>3, <1>4 DEF DueFits

LEMMA StartDrainKeeps ==
  ASSUME IInv, StartDrain
  PROVE  IInv'
<1>1. /\ DrainTurn /\ due' = Unsettled /\ timer' = FALSE
      /\ UNCHANGED <<sequence, attempt, rows, persisted, failed, watermark, alive>>
  BY DEF StartDrain
<1>2. DueFits' /\ awaited' \in 0 .. Len(chain') /\ drain' \in {"flushing", "finishing"}
  BY <1>1, DrainTurnFits
<1>3. Unsettled \subseteq Events
  BY ChainFacts DEF IInv
<1>4. queue' = Flushed.queue /\ chain' = Flushed.chain
  BY <1>1 DEF DrainTurn
<1> QED BY <1>1, <1>2, <1>3, <1>4, FlushSteps

LEMMA DrainGoesOnKeeps ==
  ASSUME IInv, alive, DrainGoesOn
  PROVE  IInv'
<1>0. /\ UNCHANGED <<sequence, timer, attempt, rows, persisted, failed, watermark, due, alive>>
      /\ awaited = 0 /\ TypeOK
  BY DEF IInv, DrainGoesOn
<1>1. CASE drain = "flushing" /\ DrainTurn
  <2>1. due' \subseteq Settled \cup Unsettled
    BY <1>0, <1>1 DEF IInv, DueFits
  <2>2. DueFits' /\ awaited' \in 0 .. Len(chain') /\ drain' \in {"flushing", "finishing"}
    BY <1>0, <1>1, <2>1, DrainTurnFits
  <2>3. queue' = Flushed.queue /\ chain' = Flushed.chain
    BY <1>1 DEF DrainTurn
  <2> QED BY <1>0, <2>2, <2>3, FlushSteps DEF TypeOK
<1>2. CASE drain = "finishing" /\ drain' = "drained" /\ UNCHANGED <<queue, chain, awaited>>
  <2>1. UNION {ToSet(chain[i]) : i \in 1 .. awaited} = {}
    BY <1>0
  <2>2. due \subseteq Settled
    BY <1>2, <2>1 DEF IInv, DueFits
  <2>3. DueFits'
    BY <1>0, <1>2, <2>2 DEF DueFits, Settled
  <2>4. TypeOK'
    BY <1>0, <1>2 DEF TypeOK
  <2>5. Ordered(queue, chain)' /\ Unsettled' = Unsettled
    BY <1>2 DEF IInv, Ordered, InOrder, Ahead, NumberOf, Unsettled, InChain
  <2>6. NotYetTold' /\ Accounted' /\ WatermarkHidesNothing' /\ (\A r \in Runs : watermark[r] <= sequence[r])'
    BY <1>0, <2>5 DEF IInv, NotYetTold, Accounted, Published, WatermarkHidesNothing, NumberOf
  <2> QED BY <2>3, <2>4, <2>5, <2>6 DEF IInv
<1> QED BY <1>1, <1>2 DEF DrainGoesOn

LEMMA ExitKeeps ==
  ASSUME IInv, Exit
  PROVE  IInv'
<1>0. /\ alive' = FALSE /\ queue' = <<>> /\ chain' = <<>> /\ timer' = FALSE
      /\ attempt' = 1 /\ awaited' = 0
      /\ UNCHANGED <<sequence, rows, persisted, failed, watermark, drain, due>>
  BY DEF Exit
<1>1. Unsettled' = {} /\ Ordered(queue, chain)'
  BY <1>0, EmptyFacts DEF Unsettled, InChain, Ordered, InOrder
<1>2. TypeOK'
  <2>1. /\ chain' \in Seq(Seq(Events)) /\ queue' \in Seq(Events)
        /\ DOMAIN chain' = {} /\ Len(chain') = 0 /\ Len(queue') = 0
    BY <1>0, EmptyFacts
  <2>2. 1 \in 1 .. Attempts /\ 0 <= Capacity /\ 0 \in 0 .. 0
    BY WriterAssumption
  <2> QED BY <1>0, <2>1, <2>2 DEF IInv, TypeOK
<1>3. NotYetTold' /\ Accounted' /\ DueFits'
  BY <1>0, <1>1 DEF IInv, NotYetTold, Accounted, DueFits, Settled
<1>4. WatermarkHidesNothing' /\ (\A r \in Runs : watermark[r] <= sequence[r])'
  BY <1>0 DEF IInv, WatermarkHidesNothing, NumberOf
<1> QED BY <1>1, <1>2, <1>3, <1>4 DEF IInv

\* The invariant is inductive.
LEMMA StepHolds == IInv /\ [Next]_vars => IInv'
<1> SUFFICES ASSUME IInv, [Next]_vars PROVE IInv'
  OBVIOUS
<1>1. ASSUME Next PROVE IInv'
  <2>0. alive
    BY <1>1 DEF Next
  <2>1. ASSUME NEW r \in Runs, Publish(r) PROVE IInv'
    BY <2>0, <2>1, PublishKeeps
  <2>2. CASE FlushTimer
    BY <2>2, FlushTimerKeeps
  <2>3. CASE PersistBatch
    BY <2>0, <2>3, PersistBatchKeeps
  <2>4. CASE PersistFails
    BY <2>0, <2>4, PersistFailsKeeps
  <2>5. CASE StartDrain
    BY <2>5, StartDrainKeeps
  <2>6. CASE DrainGoesOn
    BY <2>0, <2>6, DrainGoesOnKeeps
  <2>7. CASE Exit
    BY <2>7, ExitKeeps
  <2> QED BY <1>1, <2>1, <2>2, <2>3, <2>4, <2>5, <2>6, <2>7 DEF Next
<1>2. CASE UNCHANGED vars
  <2>1. Unsettled' = Unsettled /\ Settled' = Settled /\ (Ordered(queue, chain)' <=> Ordered(queue, chain))
    BY <1>2 DEF vars, Unsettled, InChain, Settled, Ordered, InOrder, Ahead, NumberOf
  <2>2. TypeOK'
    BY <1>2 DEF IInv, TypeOK, vars
  <2> QED BY <1>2, <2>1, <2>2 DEF IInv, NotYetTold, Accounted, Published,
                                  WatermarkHidesNothing, DueFits, NumberOf, vars
<1> QED BY <1>1, <1>2

\* The invariant holds in every reachable state.
LEMMA Inductive == Spec => []IInv
<1>1. Init => IInv
  BY InitHolds
<1>2. IInv /\ [Next]_vars => IInv'
  BY StepHolds
<1> QED BY <1>1, <1>2, PTL DEF Spec

-------------------------------------------------------------------------------
(* The theorems. *)

\* The type invariant with the limit of the queue (enqueue, queueFlush).
THEOREM TypeCorrect == Spec => []TypeOK
<1>1. IInv => TypeOK
  BY DEF IInv
<1> QED BY <1>1, Inductive, PTL

\* What a client may drop from its overlay, after chat.activity.persisted, is in
\* the table or was reported as failed: batches are stored in the order of the
\* numbers of each run, whatever fails (queueFlush, onPersisted).
THEOREM WatermarksHideNothing == Spec => []WatermarkHidesNothing
<1>1. IInv => WatermarkHidesNothing
  BY DEF IInv
<1> QED BY <1>1, Inductive, PTL

\* When drain has returned, all that the writer had accepted before is stored or
\* given up, also what the timer took out of the queue meanwhile (drain).
THEOREM DrainsWaitForAll == Spec => []DrainWaitsForAll
<1>1. IInv => DrainWaitsForAll
  BY DEF IInv, DueFits, DrainWaitsForAll
<1> QED BY <1>1, Inductive, PTL
===============================================================================
