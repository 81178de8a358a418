------------------------ MODULE ChatTopicChain_proofs ------------------------
(***************************************************************************)
(* Proofs about ChatTopicChain: every invariant and action property that   *)
(* its runs check, for any number of messages, attempts, members, turns,   *)
(* stops, failures and crashes.                                            *)
(***************************************************************************)
EXTENDS ChatTopicChain, FiniteSetTheorems, SequenceTheorems, TLAPS

-----------------------------------------------------------------------------
(* The inductive invariant: the shapes of the variables, and four relations *)
(* between them that the properties rest on.                               *)

ExecPcs == {"none", "opening", "turn", "persisting", "advancing",
            "advanced", "settling", "finishing", "closing"}

CancelPcs == {"idle", "requesting", "marking", "aborting", "finishing"}

RequestPcs == {"none", "recovering", "asserting", "starting", "started", "sent", "refused"}

Calls ==
  [pc : ExecPcs, stack : Seq(TurnRuns), next : TurnRuns \cup {None},
   outcome : {None, "completed", "canceled", "failed"}]

Typed ==
  /\ chains \in [Chains -> [status : Statuses, run : TurnRuns \cup {None}, stop : BOOLEAN]]
  /\ linked \subseteq [run : TurnRuns, chain : Chains]
  /\ activeRuns \subseteq TurnRuns
  /\ activeChains \in [Chains -> {"absent", "live", "stopped"}]
  /\ request \in [Chains -> RequestPcs]
  /\ exec \in [Chains -> Calls]
  /\ cancel \in [pc : CancelPcs, run : TurnRuns \cup {None}, requested : BOOLEAN,
                 chain : Chains \cup {None}]
  /\ recovered \in BOOLEAN /\ viewer \in {"idle", "recovering"}
  /\ agents \subseteq Members /\ abandoned \subseteq Chains

BoundsTyped ==
  stops \in 0 .. MaxStops /\ failures \in 0 .. MaxFailures /\ crashes \in 0 .. MaxCrashes

\* The rows.  The run of a user message is told from the runs of replies by its
\* length, and belongs to the chain of that message and attempt: so a chain
\* that is inserted never finds its first run linked already.
RowsFit ==
  /\ \A c \in Chains : chains[c].status = "none" <=> chains[c].run = None
  /\ \A c \in Chains : chains[c].status = "none" => RunOf(c) = {}
  /\ \A c \in Chains : chains[c].run # None => IsLinked(chains[c].run)
  /\ \A k, l \in linked : k.run = l.run => k = l
  /\ \A l \in linked : Len(l.run.msg) > 0
  /\ \A l \in linked : Len(l.run.msg) = 1 =>
       l.run.msg = <<l.chain.msg>> /\ l.run.attempt = l.chain.attempt
  /\ \A c, d \in Chains : IsActive(c) /\ IsActive(d) => c = d

\* A request and the chain it leads to.
RequestFits(c) ==
  /\ request[c] \notin {"started", "sent"} => chains[c].status = "none"
  /\ request[c] = "started" => RunOf(c) = {chains[c].run}
  /\ request[c] # "sent" => exec[c].pc = "none"

Distinct(s) == \A i, j \in DOMAIN s : s[i] = s[j] => i = j

\* The nested calls x of a chain with the runs R.
Shaped(R, x) ==
  /\ x.pc = "none" => x = Idle
  /\ x.pc # "none" =>
       /\ x.stack # <<>> /\ Distinct(x.stack)
       /\ ToSet(x.stack) \subseteq R
  /\ x.pc \in {"opening", "turn", "persisting"} => x.next = None
  /\ x.pc = "advancing" => x.next \in TurnRuns /\ Len(x.next.msg) > 1
  /\ x.pc \in {"advanced", "settling"} /\ x.next # None => x.next \in R \ ToSet(x.stack)
  /\ x.pc \in {"finishing", "closing"} <=> x.outcome # None
  /\ x.pc = "closing" => x.outcome # "completed"

\* The holders of the chain are those of its nested calls, and all but the last
\* one have replied, P; unless the calls are about to end it otherwise.
Answered(R, P, x) ==
  x.pc # "none" /\ x.outcome \in {None, "completed"} =>
    /\ R \subseteq ToSet(x.stack) \cup
         (IF x.pc \in {"advanced", "settling"} THEN {x.next} ELSE {})
    /\ \A r \in ToSet(x.stack) :
         \/ Reply(r) \in P
         \/ r = Last(x.stack) /\ x.pc \in {"opening", "turn", "persisting"}

CallFits(c) ==
  /\ Shaped(RunOf(c), exec[c])
  /\ exec[c].pc # "none" /\ activeChains[c] # "live" => chains[c].stop
  /\ chains[c].stop \/ Answered(RunOf(c), replies, exec[c])

CompletedFits(c) ==
  chains[c].status = "completed" /\ ~chains[c].stop => \A r \in RunOf(c) : Reply(r) \in replies

\* The stop under way.
CancelFits ==
  /\ cancel.chain # None => chains[cancel.chain].stop /\ chains[cancel.chain].status \notin {"none", "active"}
  /\ cancel.pc = "finishing" => cancel.chain # None
  /\ cancel.pc = "aborting" /\ cancel.chain # None => cancel.run = chains[cancel.chain].run

IInv ==
  /\ Typed
  /\ BoundsTyped
  /\ RowsFit
  /\ \A c \in Chains : RequestFits(c) /\ CallFits(c) /\ CompletedFits(c)
  /\ CancelFits
  /\ ActiveChainIsExecuted

-----------------------------------------------------------------------------
(* Stacks of nested calls, runs and links.                                 *)

\* The top of a stack of calls is in it.
LEMMA TopOfStack ==
  ASSUME NEW S, NEW s \in Seq(S), s # <<>>
  PROVE  Last(s) \in S /\ Last(s) \in ToSet(s)
  BY DEF Last, ToSet

\* A stack with the first call.
LEMMA FirstCall ==
  ASSUME NEW S, NEW x \in S
  PROVE  /\ <<x>> \in Seq(S) /\ <<x>> # <<>>
         /\ ToSet(<<x>>) = {x} /\ Last(<<x>>) = x /\ Distinct(<<x>>)
  BY DEF Last, ToSet, Distinct

\* A call on top of the others.
LEMMA NestedCall ==
  ASSUME NEW S, NEW s \in Seq(S), NEW x \in S, Distinct(s), x \notin ToSet(s)
  PROVE  /\ Append(s, x) \in Seq(S) /\ Append(s, x) # <<>>
         /\ ToSet(Append(s, x)) = ToSet(s) \cup {x}
         /\ Last(Append(s, x)) = x
         /\ Distinct(Append(s, x))
<1> DEFINE t == Append(s, x)
<1>1. /\ t \in Seq(S) /\ t # <<>> /\ Len(t) = Len(s) + 1 /\ t[Len(s) + 1] = x
      /\ \A i \in 1 .. Len(s) : t[i] = s[i]
  BY AppendProperties
<1>2. DOMAIN t = 1 .. Len(s) + 1 /\ DOMAIN s = 1 .. Len(s) /\ Len(s) \in Nat
  BY <1>1
<1> HIDE DEF t
<1>3. ToSet(t) = ToSet(s) \cup {x}
  <2>1. DOMAIN t = DOMAIN s \cup {Len(s) + 1}
    BY <1>2
  <2>2. \A i \in DOMAIN s : t[i] = s[i]
    BY <1>1, <1>2
  <2> QED BY <1>1, <2>1, <2>2 DEF ToSet
<1>4. Last(t) = x
  BY <1>1 DEF Last
<1>5. Distinct(t)
  <2> SUFFICES ASSUME NEW i \in DOMAIN t, NEW j \in DOMAIN t, t[i] = t[j] PROVE i = j
    BY DEF Distinct
  <2>1. \A k \in 1 .. Len(s) : t[k] \in ToSet(s)
    BY <1>1, <1>2 DEF ToSet
  <2>2. CASE i \in 1 .. Len(s) /\ j \in 1 .. Len(s)
    BY <1>1, <1>2, <2>2 DEF Distinct
  <2>3. CASE i = Len(s) + 1 \/ j = Len(s) + 1
    BY <1>1, <1>2, <2>1, <2>3
  <2> QED BY <1>2, <2>2, <2>3
<1> QED BY <1>1, <1>3, <1>4, <1>5 DEF t

\* A call returns to the one below it.
LEMMA CallerOf ==
  ASSUME NEW S, NEW s \in Seq(S), s # <<>>, Len(s) # 1, Distinct(s)
  PROVE  /\ Front(s) \in Seq(S) /\ Front(s) # <<>>
         /\ ToSet(Front(s)) \subseteq ToSet(s)
         /\ Distinct(Front(s))
<1> DEFINE t == Front(s)
<1>0. Len(s) \in Nat /\ Len(s) > 1
  <2>1. Len(s) \in Nat /\ Len(s) # 0 /\ Len(s) # 1
    BY EmptySeq
  <2> DEFINE n == Len(s)
  <2>2. n \in Nat /\ n # 0 /\ n # 1
    BY <2>1
  <2> HIDE DEF n
  <2>3. n > 1
    BY <2>2
  <2> QED BY <2>1, <2>3 DEF n
<1>1. /\ t \in Seq(S) /\ Len(t) = Len(s) - 1
      /\ \A i \in 1 .. Len(s) - 1 : t[i] = s[i]
  BY <1>0 DEF Front
<1>2. DOMAIN t = 1 .. Len(s) - 1 /\ DOMAIN s = 1 .. Len(s)
  BY <1>0, <1>1
<1>3. t # <<>>
  BY <1>0, <1>1, EmptySeq
<1> HIDE DEF t
<1> QED BY <1>0, <1>1, <1>2, <1>3 DEF ToSet, Distinct, t

\* A turn names the next one's run.
LEMMA RunsOfTurns ==
  ASSUME NEW r \in TurnRuns, NEW e \in Members, Len(r.msg) > 0
  PROVE  NextRun(r, e) \in TurnRuns /\ Len(NextRun(r, e).msg) > 1
<1>1. r.msg \in Seq(Messages \cup Members) /\ r.member \in Messages \cup Members
  BY DEF TurnRuns
<1>2. /\ Reply(r) \in Seq(Messages \cup Members)
      /\ Len(Reply(r)) > 1
  BY <1>1, AppendProperties DEF Reply
<1> QED BY <1>2 DEF NextRun, TurnRuns

\* A message names the run of its first turn.
LEMMA RunsOfMessages ==
  ASSUME NEW c \in Chains, NEW e \in Members, BoundsAssumption
  PROVE  /\ FirstRun(c, e) \in TurnRuns /\ Len(FirstRun(c, e).msg) = 1
         /\ FirstRun(c, e).msg = <<c.msg>> /\ FirstRun(c, e).attempt = c.attempt
  BY DEF FirstRun, TurnRuns, Chains, BoundsAssumption

\* The runs of a chain are runs of turns.
LEMMA RunsAreTurns ==
  ASSUME Typed
  PROVE  \A c \in Chains : RunOf(c) \subseteq TurnRuns
  BY DEF Typed, RunOf

\* A statement links a run to a chain.
LEMMA LinkStep ==
  ASSUME NEW c \in Chains, NEW r, linked' = linked \cup {[run |-> r, chain |-> c]}
  PROVE  /\ RunOf(c)' = RunOf(c) \cup {r}
         /\ \A d \in Chains : d # c => RunOf(d)' = RunOf(d)
         /\ \A q : IsLinked(q)' <=> IsLinked(q) \/ q = r
<1> DEFINE z == [run |-> r, chain |-> c]
<1>0. z.run = r /\ z.chain = c /\ linked' = linked \cup {z}
  OBVIOUS
<1> HIDE DEF z
<1>1. \A d, q : q \in RunOf(d) <=> \E l \in linked : l.chain = d /\ l.run = q
  BY DEF RunOf
<1>2. \A d, q : q \in RunOf(d)' <=> \E l \in linked' : l.chain = d /\ l.run = q
  BY DEF RunOf
<1>3. \A q : q \in RunOf(c)' <=> q \in RunOf(c) \/ q = r
  BY <1>0, <1>1, <1>2
<1>4. \A d \in Chains : d # c => \A q : q \in RunOf(d)' <=> q \in RunOf(d)
  BY <1>0, <1>1, <1>2
<1>5. \A q : IsLinked(q)' <=> IsLinked(q) \/ q = r
  BY <1>0 DEF IsLinked
<1> QED BY <1>3, <1>4, <1>5
-----------------------------------------------------------------------------
(* What a step leaves alone.                                               *)

\* A step that writes no row keeps what the rows say.
LEMMA RowsStay ==
  ASSUME UNCHANGED <<chains, linked>>
  PROVE  /\ RowsFit => RowsFit'
         /\ \A c : RunOf(c)' = RunOf(c)
<1>1. \A c : IsActive(c)' <=> IsActive(c)
  BY DEF IsActive
<1>2. \A c : RunOf(c)' = RunOf(c)
  BY DEF RunOf
<1>3. \A r : IsLinked(r)' <=> IsLinked(r)
  BY DEF IsLinked
<1>4. RowsFit => RowsFit'
  BY <1>1, <1>2, <1>3 DEF RowsFit
<1> QED BY <1>2, <1>4

\* A chain that a step leaves alone goes on to fit.
LEMMA ChainStays ==
  ASSUME NEW d \in Chains, RequestFits(d), CallFits(d), CompletedFits(d),
         request'[d] = request[d], exec'[d] = exec[d], activeChains'[d] = activeChains[d],
         chains'[d] = chains[d], RunOf(d)' = RunOf(d), replies \subseteq replies'
  PROVE  RequestFits(d)' /\ CallFits(d)' /\ CompletedFits(d)'
<1>1. RequestFits(d)'
  BY DEF RequestFits
<1>2. CallFits(d)'
  <2>1. Answered(RunOf(d), replies, exec[d]) => Answered(RunOf(d), replies', exec[d])
    BY DEF Answered
  <2> QED BY <2>1 DEF CallFits
<1>3. CompletedFits(d)'
  BY DEF CompletedFits
<1> QED BY <1>1, <1>2, <1>3

\* So does a stop.
LEMMA StopStays ==
  ASSUME CancelFits, UNCHANGED <<chains, cancel>>
  PROVE  CancelFits'
  BY DEF CancelFits

\* A call goes on; nothing else changes but replies and the runs in memory.
LEMMA CallMoves ==
  ASSUME IInv, NEW c \in Chains, exec[c].pc # "none",
         NEW x \in Calls, x.pc # "none", exec' = [exec EXCEPT ![c] = x],
         Shaped(RunOf(c), x), chains[c].stop \/ Answered(RunOf(c), replies', x),
         activeRuns' \subseteq TurnRuns, agents' \subseteq Members, replies \subseteq replies',
         BoundsTyped',
         UNCHANGED <<chains, linked, recovered, activeChains, request, cancel, viewer, abandoned>>
  PROVE  IInv'
<1>1. RowsFit' /\ \A d : RunOf(d)' = RunOf(d)
  BY RowsStay DEF IInv
<1>2. /\ exec' \in [Chains -> Calls] /\ exec'[c] = x
      /\ \A d \in Chains : d # c => exec'[d] = exec[d]
  BY DEF IInv, Typed
<1>3. Typed'
  BY <1>2 DEF IInv, Typed
<1>4. RequestFits(c)' /\ CompletedFits(c)'
  BY <1>1, <1>2 DEF IInv, RequestFits, CompletedFits
<1>5. CallFits(c)'
  <2>1. exec[c].pc # "none" /\ activeChains[c] # "live" => chains[c].stop
    BY DEF IInv, CallFits
  <2> QED BY <1>1, <1>2, <2>1 DEF CallFits
<1>6. ASSUME NEW d \in Chains, d # c
      PROVE  RequestFits(d)' /\ CallFits(d)' /\ CompletedFits(d)'
  <2>1. RequestFits(d) /\ CallFits(d) /\ CompletedFits(d)
    BY DEF IInv
  <2> QED BY <1>1, <1>2, <1>6, <2>1, ChainStays
<1>7. CancelFits'
  BY StopStays DEF IInv
<1>8. ActiveChainIsExecuted'
  <2>1. ActiveInRoom' = ActiveInRoom /\ ActiveInRoom \subseteq Chains
    BY DEF ActiveInRoom, IsActive
  <2>2. \A d \in Chains : exec[d].pc # "none" => exec'[d].pc # "none"
    BY <1>2
  <2> QED BY <2>1, <2>2 DEF IInv, ActiveChainIsExecuted
<1> QED BY <1>1, <1>3, <1>4, <1>5, <1>6, <1>7, <1>8 DEF IInv

\* What is known of a call at work.
LEMMA CallAtWork ==
  ASSUME IInv, NEW c \in Chains, exec[c].pc # "none"
  PROVE  /\ exec[c] \in Calls /\ Shaped(RunOf(c), exec[c])
         /\ exec[c].stack \in Seq(TurnRuns) /\ exec[c].stack # <<>>
         /\ ToSet(exec[c].stack) \subseteq RunOf(c) /\ Distinct(exec[c].stack)
         /\ Current(c) \in ToSet(exec[c].stack) /\ Current(c) \in TurnRuns
         /\ request[c] = "sent"
<1>1. exec[c] \in Calls
  BY DEF IInv, Typed
<1>2. exec[c].stack \in Seq(TurnRuns)
  BY <1>1 DEF Calls
<1>3. Shaped(RunOf(c), exec[c])
  BY DEF IInv, CallFits
<1>4. exec[c].stack # <<>> /\ ToSet(exec[c].stack) \subseteq RunOf(c) /\ Distinct(exec[c].stack)
  BY <1>3 DEF Shaped
<1>5. request[c] = "sent"
  BY DEF IInv, RequestFits
<1> QED BY <1>1, <1>2, <1>3, <1>4, <1>5, TopOfStack DEF Current

-----------------------------------------------------------------------------
(* The steps of executeTinyOfficeChatRuntimeDecision that leave the chain   *)
(* as it is.                                                               *)

LEMMA OpenRepositoryFits ==
  ASSUME IInv, NEW c \in Chains, OpenRepository(c)
  PROVE  IInv'
<1> DEFINE x == [exec[c] EXCEPT !.pc = "turn"]
<1>1. /\ exec[c].pc = "opening" /\ exec' = [exec EXCEPT ![c] = x]
      /\ UNCHANGED <<chains, linked, replies, recovered, activeRuns, activeChains, agents,
                     request, cancel, viewer, abandoned, stops, failures, crashes>>
  BY DEF OpenRepository, At, Goto, database, process, budget
<1>2. exec[c] \in Calls /\ Shaped(RunOf(c), exec[c]) /\ (chains[c].stop \/ Answered(RunOf(c), replies, exec[c]))
  BY <1>1, CallAtWork DEF IInv, CallFits
<1>3. /\ x \in Calls /\ x.pc = "turn" /\ x.stack = exec[c].stack /\ x.next = exec[c].next
      /\ x.outcome = exec[c].outcome
  BY <1>2 DEF Calls, ExecPcs
<1> HIDE DEF x
<1>4. Shaped(RunOf(c), x)
  BY <1>1, <1>2, <1>3 DEF Shaped
<1>5. Answered(RunOf(c), replies, exec[c]) => Answered(RunOf(c), replies', x)
  BY <1>1, <1>3 DEF Answered
<1>6. BoundsTyped' /\ activeRuns' \subseteq TurnRuns /\ agents' \subseteq Members
  BY <1>1 DEF IInv, Typed, BoundsTyped
<1> QED BY <1>1, <1>2, <1>3, <1>4, <1>5, <1>6, CallMoves

LEMMA PoolAgentFits ==
  ASSUME IInv, NEW c \in Chains, PoolAgent(c)
  PROVE  IInv'
<1>1. /\ exec[c].pc = "turn" /\ agents' = agents \cup {Current(c).member}
      /\ UNCHANGED <<chains, linked, replies, recovered, activeRuns, activeChains,
                     request, exec, cancel, viewer, abandoned, stops, failures, crashes>>
  BY DEF PoolAgent, At, database, budget
<1>2. Current(c).member \in Members
  BY <1>1, CallAtWork DEF TurnRuns
<1>3. BoundsTyped' /\ activeRuns' \subseteq TurnRuns /\ agents' \subseteq Members
  BY <1>1, <1>2 DEF IInv, Typed, BoundsTyped
<1>4. Answered(RunOf(c), replies, exec[c]) => Answered(RunOf(c), replies', exec[c])
  BY <1>1
<1>5. exec[c] \in Calls /\ Shaped(RunOf(c), exec[c]) /\ (chains[c].stop \/ Answered(RunOf(c), replies, exec[c]))
  BY <1>1, CallAtWork DEF IInv, CallFits
<1>6. exec' = [exec EXCEPT ![c] = exec[c]]
  BY <1>1 DEF IInv, Typed
<1> QED BY <1>1, <1>3, <1>4, <1>5, <1>6, CallMoves

LEMMA TurnReturnsFits ==
  ASSUME IInv, NEW c \in Chains, TurnReturns(c)
  PROVE  IInv'
<1> DEFINE x == IF Canceled(c, Current(c))
                  THEN [exec[c] EXCEPT !.pc = "finishing", !.outcome = "canceled"]
                  ELSE [exec[c] EXCEPT !.pc = "persisting"]
<1>1. /\ exec[c].pc = "turn" /\ exec' = [exec EXCEPT ![c] = x]
      /\ UNCHANGED <<chains, linked, replies, recovered, activeRuns, activeChains, agents,
                     request, cancel, viewer, abandoned, stops, failures, crashes>>
  BY DEF TurnReturns, At, database, process, budget
<1>2. /\ exec[c] \in Calls /\ Shaped(RunOf(c), exec[c]) /\ (chains[c].stop \/ Answered(RunOf(c), replies, exec[c]))
      /\ exec[c].outcome = None
  BY <1>1, CallAtWork DEF IInv, CallFits, Shaped
<1>3. /\ x \in Calls /\ x.stack = exec[c].stack /\ x.next = exec[c].next
      /\ \/ x.pc = "finishing" /\ x.outcome = "canceled"
         \/ x.pc = "persisting" /\ x.outcome = None
  BY <1>2 DEF Calls, ExecPcs
<1> HIDE DEF x
<1>4. None # "canceled"
  BY NoneAssumption
<1>5. Shaped(RunOf(c), x)
  BY <1>1, <1>2, <1>3, <1>4 DEF Shaped
<1>6. Answered(RunOf(c), replies, exec[c]) => Answered(RunOf(c), replies', x)
  BY <1>1, <1>2, <1>3, <1>4 DEF Answered
<1>7. BoundsTyped' /\ activeRuns' \subseteq TurnRuns /\ agents' \subseteq Members
  BY <1>1 DEF IInv, Typed, BoundsTyped
<1> QED BY <1>1, <1>2, <1>3, <1>5, <1>6, <1>7, CallMoves

LEMMA PersistReplyFits ==
  ASSUME IInv, NEW c \in Chains, PersistReply(c)
  PROVE  IInv'
<1>1. /\ exec[c].pc = "persisting" /\ replies' = replies \cup {Reply(Current(c))}
      /\ UNCHANGED <<chains, linked, recovered, activeRuns, activeChains, agents,
                     request, cancel, viewer, abandoned, stops, failures, crashes>>
  BY DEF PersistReply, At, process, budget
<1>2. /\ exec[c] \in Calls /\ Shaped(RunOf(c), exec[c])
      /\ chains[c].stop \/ Answered(RunOf(c), replies, exec[c])
      /\ exec[c].outcome = None /\ exec[c].next = None
      /\ Current(c) \in ToSet(exec[c].stack) /\ Current(c) \in TurnRuns
      /\ ToSet(exec[c].stack) \subseteq RunOf(c)
  BY <1>1, CallAtWork DEF IInv, CallFits, Shaped
<1>3. BoundsTyped' /\ activeRuns' \subseteq TurnRuns /\ agents' \subseteq Members
  BY <1>1 DEF IInv, Typed, BoundsTyped
<1>4. chains[c].stop \/ \A r \in ToSet(exec[c].stack) : Reply(r) \in replies'
  BY <1>1, <1>2 DEF Answered, Current
<1>5. ASSUME NEW x \in Calls, exec' = [exec EXCEPT ![c] = x], x.stack = exec[c].stack,
             \/ x.pc = "finishing" /\ x.outcome = "canceled"
             \/ x.pc = "settling" /\ x.outcome = None /\ x.next = None
             \/ x.pc = "advancing" /\ x.outcome = None /\ x.next \in TurnRuns /\ Len(x.next.msg) > 1
      PROVE  IInv'
  <2>1. None # "canceled"
    BY NoneAssumption
  <2>2. Shaped(RunOf(c), x)
    BY <1>1, <1>2, <1>5, <2>1 DEF Shaped
  <2>3. chains[c].stop \/ Answered(RunOf(c), replies', x)
    BY <1>1, <1>2, <1>4, <1>5, <2>1 DEF Answered
  <2> QED BY <1>1, <1>3, <1>5, <2>2, <2>3, CallMoves
<1>6. CASE exec' = [exec EXCEPT ![c].pc = "finishing", ![c].outcome = "canceled"]
  <2> DEFINE x == [exec[c] EXCEPT !.pc = "finishing", !.outcome = "canceled"]
  <2>1. x \in Calls /\ x.stack = exec[c].stack /\ x.pc = "finishing" /\ x.outcome = "canceled"
    BY <1>2 DEF Calls, ExecPcs
  <2>2. exec' = [exec EXCEPT ![c] = x]
    BY <1>6 DEF IInv, Typed
  <2> HIDE DEF x
  <2> QED BY <1>5, <2>1, <2>2
<1>7. CASE exec' = [exec EXCEPT ![c].pc = "settling"]
  <2> DEFINE x == [exec[c] EXCEPT !.pc = "settling"]
  <2>1. /\ x \in Calls /\ x.stack = exec[c].stack /\ x.pc = "settling"
        /\ x.next = None /\ x.outcome = None
    BY <1>2 DEF Calls, ExecPcs
  <2>2. exec' = [exec EXCEPT ![c] = x]
    BY <1>7
  <2> HIDE DEF x
  <2> QED BY <1>5, <2>1, <2>2
<1>8. ASSUME NEW e \in Members,
             exec' = [exec EXCEPT ![c].pc = "advancing", ![c].next = NextRun(Current(c), e)]
      PROVE  IInv'
  <2> DEFINE n == NextRun(Current(c), e)
             x == [exec[c] EXCEPT !.pc = "advancing", !.next = n]
  <2>1. Len(Current(c).msg) > 0
    BY <1>2 DEF RunOf, IInv, RowsFit
  <2>2. n \in TurnRuns /\ Len(n.msg) > 1
    BY <1>2, <2>1, RunsOfTurns
  <2> HIDE DEF n
  <2>3. /\ x \in Calls /\ x.stack = exec[c].stack /\ x.pc = "advancing"
        /\ x.next = n /\ x.outcome = None
    BY <1>2, <2>2 DEF Calls, ExecPcs
  <2>4. exec' = [exec EXCEPT ![c] = x]
    BY <1>8 DEF IInv, Typed, n
  <2> HIDE DEF x
  <2> QED BY <1>5, <2>2, <2>3, <2>4
<1> QED BY <1>6, <1>7, <1>8 DEF PersistReply, Goto

\* If a stop came in between, the chain was marked, and is not the process's any
\* more: that its new holder will not reply is then no loss.
LEMMA AfterAdvanceFits ==
  ASSUME IInv, NEW c \in Chains, AfterAdvance(c)
  PROVE  IInv'
<1> DEFINE goes == exec[c].next # None /\ activeChains[c] = "live"
           x == [exec[c] EXCEPT !.pc = "settling", !.next = IF goes THEN exec[c].next ELSE None]
<1>1. /\ exec[c].pc = "advanced"
      /\ UNCHANGED <<chains, linked, replies, recovered, activeChains, agents,
                     request, cancel, viewer, abandoned, stops, failures, crashes>>
  BY DEF AfterAdvance, At, database, budget
<1>2. /\ exec[c] \in Calls /\ Shaped(RunOf(c), exec[c])
      /\ chains[c].stop \/ Answered(RunOf(c), replies, exec[c])
      /\ exec[c].outcome = None
      /\ activeChains[c] # "live" => chains[c].stop
      /\ exec[c].next # None => exec[c].next \in RunOf(c)
  BY <1>1, CallAtWork DEF IInv, CallFits, Shaped
<1>3. /\ x \in Calls /\ x.stack = exec[c].stack /\ x.pc = "settling" /\ x.outcome = None
      /\ x.next = IF goes THEN exec[c].next ELSE None
  BY <1>2 DEF Calls, ExecPcs
<1>4. /\ exec' = [exec EXCEPT ![c] = x]
      /\ activeRuns' = IF goes THEN activeRuns \cup {exec[c].next} ELSE activeRuns
  <2>1. CASE goes
    BY <1>2, <2>1 DEF AfterAdvance, Goto, Calls
  <2>2. CASE ~goes
    BY <1>2, <2>2 DEF AfterAdvance, Calls, IInv, Typed
  <2> QED BY <2>1, <2>2
<1> HIDE DEF x
<1>5. Shaped(RunOf(c), x)
  BY <1>1, <1>2, <1>3 DEF Shaped
<1>6. chains[c].stop \/ Answered(RunOf(c), replies', x)
  BY <1>1, <1>2, <1>3 DEF Answered
<1>7. BoundsTyped' /\ activeRuns' \subseteq TurnRuns /\ agents' \subseteq Members
  BY <1>1, <1>2, <1>4, RunsAreTurns DEF IInv, Typed, BoundsTyped
<1> QED BY <1>1, <1>3, <1>4, <1>5, <1>6, <1>7, CallMoves

LEMMA SettleFits ==
  ASSUME IInv, NEW c \in Chains, Settle(c)
  PROVE  IInv'
<1>1. /\ exec[c].pc = "settling"
      /\ UNCHANGED <<chains, linked, replies, recovered, activeChains, agents,
                     request, cancel, viewer, abandoned, stops, failures, crashes>>
  BY DEF Settle, At, database, budget
<1>2. /\ exec[c] \in Calls /\ Shaped(RunOf(c), exec[c])
      /\ chains[c].stop \/ Answered(RunOf(c), replies, exec[c])
      /\ exec[c].outcome = None
      /\ exec[c].stack \in Seq(TurnRuns) /\ exec[c].stack # <<>> /\ Distinct(exec[c].stack)
      /\ ToSet(exec[c].stack) \subseteq RunOf(c)
  BY <1>1, CallAtWork DEF IInv, CallFits, Shaped
<1>3. RunOf(c) \subseteq TurnRuns /\ None \notin TurnRuns /\ None # "completed"
  BY RunsAreTurns, NoneAssumption DEF IInv
<1>4. BoundsTyped' /\ agents' \subseteq Members
  BY <1>1 DEF IInv, Typed, BoundsTyped
<1>5. CASE exec[c].next = None
  <2> DEFINE x == [exec[c] EXCEPT !.pc = "finishing", !.outcome = "completed"]
  <2>1. exec' = [exec EXCEPT ![c] = x] /\ activeRuns' = activeRuns
    BY <1>5 DEF Settle, IInv, Typed
  <2>2. x \in Calls /\ x.stack = exec[c].stack /\ x.pc = "finishing" /\ x.outcome = "completed"
    BY <1>2 DEF Calls, ExecPcs
  <2> HIDE DEF x
  <2>3. Shaped(RunOf(c), x)
    BY <1>1, <1>2, <1>3, <2>2 DEF Shaped
  <2>4. Answered(RunOf(c), replies, exec[c]) => Answered(RunOf(c), replies', x)
    BY <1>1, <1>2, <1>3, <1>5, <2>2 DEF Answered
  <2>5. activeRuns' \subseteq TurnRuns
    BY <2>1 DEF IInv, Typed
  <2> QED BY <1>1, <1>2, <1>4, <2>1, <2>2, <2>3, <2>4, <2>5, CallMoves
<1>6. CASE exec[c].next # None
  <2> DEFINE next == exec[c].next
             s == Append(exec[c].stack, next)
             x == [Idle EXCEPT !.pc = "opening", !.stack = s]
  <2>1. exec' = [exec EXCEPT ![c] = x] /\ activeRuns' = activeRuns \cup {next}
    BY <1>6 DEF Settle
  <2>2. next \in RunOf(c) /\ next \notin ToSet(exec[c].stack) /\ next \in TurnRuns
    BY <1>1, <1>2, <1>3, <1>6 DEF Shaped
  <2> HIDE DEF next
  <2>3. /\ s \in Seq(TurnRuns) /\ s # <<>> /\ Distinct(s) /\ Last(s) = next
        /\ ToSet(s) = ToSet(exec[c].stack) \cup {next}
    BY <1>2, <2>2, NestedCall
  <2> HIDE DEF s
  <2>4. x \in Calls /\ x.stack = s /\ x.pc = "opening" /\ x.outcome = None /\ x.next = None
    BY <2>3 DEF Calls, ExecPcs, Idle
  <2> HIDE DEF x
  <2>5. Shaped(RunOf(c), x)
    BY <1>2, <2>2, <2>3, <2>4 DEF Shaped
  <2>6. Answered(RunOf(c), replies, exec[c]) => Answered(RunOf(c), replies', x)
    BY <1>1, <1>2, <2>3, <2>4 DEF Answered, next
  <2>7. activeRuns' \subseteq TurnRuns
    BY <2>1, <2>2 DEF IInv, Typed
  <2> QED BY <1>1, <1>2, <1>4, <2>1, <2>4, <2>5, <2>6, <2>7, CallMoves
<1> QED BY <1>5, <1>6

\* The catch block.
LEMMA CaughtFits ==
  ASSUME IInv, NEW c \in Chains, exec[c].pc # "none",
         NEW s \in Seq(TurnRuns), s # <<>>, Distinct(s), ToSet(s) \subseteq RunOf(c),
         exec' = [exec EXCEPT ![c] = Caught(c, s)], BoundsTyped',
         UNCHANGED <<chains, linked, replies, recovered, activeRuns, activeChains, agents,
                     request, cancel, viewer, abandoned>>
  PROVE  IInv'
<1> DEFINE x == Caught(c, s)
<1>1. /\ x \in Calls /\ x.stack = s /\ x.pc = "closing" /\ x.next = None
      /\ x.outcome \in {"canceled", "failed"}
  BY DEF Caught, Calls, ExecPcs
<1> HIDE DEF x
<1>2. x.outcome \notin {None, "completed"}
  BY <1>1, NoneAssumption
<1>3. Shaped(RunOf(c), x)
  BY <1>1, <1>2 DEF Shaped
<1>4. Answered(RunOf(c), replies', x)
  BY <1>2 DEF Answered
<1>5. activeRuns' \subseteq TurnRuns /\ agents' \subseteq Members
  BY DEF IInv, Typed
<1> QED BY <1>1, <1>3, <1>4, <1>5, CallMoves DEF x

LEMMA StepThrowsFits ==
  ASSUME IInv, NEW c \in Chains, StepThrows(c)
  PROVE  IInv'
<1>1. /\ exec[c].pc \in {"turn", "persisting", "advancing", "settling", "finishing"}
      /\ exec' = [exec EXCEPT ![c] = Caught(c, exec[c].stack)]
      /\ UNCHANGED <<chains, linked, replies, recovered, activeRuns, activeChains, agents,
                     request, cancel, viewer, abandoned>>
  BY DEF StepThrows, database, process
<1>2. BoundsTyped'
  BY BoundsAssumption DEF IInv, BoundsTyped, StepThrows
<1> QED BY <1>1, <1>2, CallAtWork, CaughtFits

-----------------------------------------------------------------------------
(* Steps that end chains or calls, or move requests.                       *)

\* The status of an active chain may change, and its stop may be set.
Settles(c) ==
  \/ chains'[c] = chains[c]
  \/ /\ IsActive(c)
     /\ chains'[c].status \in {"cancel_requested", "completed", "canceled", "failed"}
     /\ chains'[c].run = chains[c].run
     /\ chains[c].stop => chains'[c].stop

RequestMoves(c) ==
  \/ request'[c] = request[c]
  \/ request'[c] = "sent"
  \/ request[c] \notin {"started", "sent"} /\ request'[c] # "started"

\* A step that ends chains and starts none keeps what the rows say.
LEMMA RowsSettle ==
  ASSUME RowsFit, linked' = linked, \A c \in Chains : Settles(c)
  PROVE  /\ RowsFit'
         /\ \A c : RunOf(c)' = RunOf(c)
         /\ \A c \in Chains : IsActive(c)' => IsActive(c)
         /\ \A c \in Chains : chains'[c].run = chains[c].run
         /\ \A c \in Chains : chains[c].status = "none" <=> chains'[c].status = "none"
         /\ \A c \in Chains : chains[c].stop => chains'[c].stop
         /\ \A c \in Chains : chains[c].status \notin {"none", "active"} =>
              chains'[c].status \notin {"none", "active"}
<1>1. \A c : RunOf(c)' = RunOf(c)
  BY DEF RunOf
<1>2. \A r : IsLinked(r)' <=> IsLinked(r)
  BY DEF IsLinked
<1>3. \A c \in Chains : IsActive(c)' => IsActive(c)
  BY DEF IsActive, Settles
<1>4. \A c \in Chains :
        /\ chains'[c].run = chains[c].run
        /\ chains[c].status = "none" <=> chains'[c].status = "none"
        /\ chains[c].stop => chains'[c].stop
        /\ chains[c].status \notin {"none", "active"} => chains'[c].status \notin {"none", "active"}
  BY DEF IsActive, Settles
<1>5. RowsFit'
  BY <1>1, <1>2, <1>3, <1>4 DEF RowsFit
<1> QED BY <1>1, <1>3, <1>4, <1>5

\* It leaves a stop with a chain that was asked to stop.
LEMMA StopSettles ==
  ASSUME RowsFit, Typed, CancelFits, linked' = linked, cancel' = cancel, \A c \in Chains : Settles(c)
  PROVE  CancelFits'
<1>1. cancel.chain # None => cancel.chain \in Chains
  BY DEF Typed
<1> QED BY <1>1, RowsSettle DEF CancelFits

\* It fits when the execution of what it ends is over or was asked to stop.
LEMMA ChainSettles ==
  ASSUME IInv, Typed', BoundsTyped', linked' = linked, replies' = replies,
         \A c \in Chains : Settles(c) /\ RequestMoves(c),
         \A c \in Chains : exec'[c] = exec[c] \/ exec'[c] = Idle,
         \A c \in Chains : exec'[c].pc # "none" /\ activeChains'[c] # "live" => chains'[c].stop,
         \A c \in Chains : chains'[c].status = "completed" /\ chains[c].status # "completed" =>
           chains[c].stop \/ \A r \in RunOf(c) : Reply(r) \in replies,
         CancelFits', ActiveChainIsExecuted'
  PROVE  IInv'
<1>1. RowsFit' /\ \A c : RunOf(c)' = RunOf(c)
  BY RowsSettle DEF IInv
<1>2. ASSUME NEW c \in Chains PROVE RequestFits(c)' /\ CallFits(c)' /\ CompletedFits(c)'
  <2>1. RequestFits(c) /\ CallFits(c) /\ CompletedFits(c)
    BY DEF IInv
  <2>2. /\ chains'[c].run = chains[c].run
        /\ chains[c].status = "none" <=> chains'[c].status = "none"
        /\ chains[c].stop => chains'[c].stop
        /\ chains'[c] = chains[c] \/ chains'[c].status # "none"
    BY RowsSettle DEF IInv, Settles
  <2>3. Idle.pc = "none" /\ Idle.outcome = None /\ Idle.next = None
    BY DEF Idle
  <2>4. RequestFits(c)'
    BY <1>1, <2>1, <2>2, <2>3 DEF RequestFits, RequestMoves
  <2>5. CallFits(c)'
    <3>1. CASE exec'[c] = exec[c]
      BY <1>1, <2>1, <2>2, <3>1 DEF CallFits
    <3>2. CASE exec'[c] = Idle
      <4>1. Shaped(RunOf(c), Idle) /\ Answered(RunOf(c), replies, Idle)
        BY <2>3 DEF Shaped, Answered
      <4> QED BY <1>1, <2>3, <3>2, <4>1 DEF CallFits
    <3> QED BY <3>1, <3>2
  <2>6. CompletedFits(c)'
    BY <1>1, <2>1, <2>2 DEF CompletedFits
  <2> QED BY <2>4, <2>5, <2>6
<1> QED BY <1>1, <1>2 DEF IInv

\* A request goes on, or fails, and touches no chain.
LEMMA RequestStays ==
  ASSUME IInv, NEW c \in Chains, NEW pc \in RequestPcs, request' = [request EXCEPT ![c] = pc],
         request[c] \notin {"started", "sent"}, pc # "started", BoundsTyped',
         UNCHANGED <<database, process, exec, cancel, viewer, abandoned>>
  PROVE  IInv'
<1>1. UNCHANGED <<chains, linked, replies, recovered, activeRuns, activeChains, agents,
                  exec, cancel, viewer, abandoned>>
  BY DEF database, process
<1>2. Typed'
  BY <1>1 DEF IInv, Typed
<1>3. \A d \in Chains : Settles(d) /\ RequestMoves(d)
  BY <1>1 DEF Settles, RequestMoves, IInv, Typed
<1>4. \A d \in Chains : exec'[d].pc # "none" /\ activeChains'[d] # "live" => chains'[d].stop
  BY <1>1 DEF IInv, CallFits
<1>5. CancelFits'
  BY <1>1, StopStays DEF IInv
<1>6. ActiveChainIsExecuted'
  <2>1. ActiveInRoom' = ActiveInRoom /\ ActiveInRoom \subseteq Chains
    BY <1>1 DEF ActiveInRoom, IsActive
  <2>2. \A d \in Chains : request[d] = "started" => request'[d] = "started"
    BY DEF IInv, Typed
  <2> QED BY <1>1, <2>1, <2>2 DEF IInv, ActiveChainIsExecuted
<1> QED BY <1>1, <1>2, <1>3, <1>4, <1>5, <1>6, ChainSettles

LEMMA PostMessageFits ==
  ASSUME IInv, NEW c \in Chains, PostMessage(c)
  PROVE  IInv'
<1> DEFINE pc == IF recovered THEN AfterRecovery(c) ELSE "recovering"
<1>1. /\ request[c] = "none" /\ request' = [request EXCEPT ![c] = pc]
      /\ UNCHANGED <<database, process, exec, cancel, viewer, abandoned, stops, failures, crashes>>
  BY DEF PostMessage, RequestAt, RequestGoes, budget
<1>2. pc \in RequestPcs /\ pc # "started"
  BY DEF AfterRecovery, RequestPcs
<1>3. BoundsTyped'
  BY <1>1 DEF IInv, BoundsTyped
<1> HIDE DEF pc
<1> QED BY <1>1, <1>2, <1>3, RequestStays

LEMMA RetryChatRunFits ==
  ASSUME IInv, NEW c \in Chains, RetryChatRun(c)
  PROVE  IInv'
<1> DEFINE pc == IF recovered THEN AfterRecovery(c) ELSE "recovering"
<1>1. /\ request[c] = "none" /\ request' = [request EXCEPT ![c] = pc]
      /\ UNCHANGED <<database, process, exec, cancel, viewer, abandoned, stops, failures, crashes>>
  BY DEF RetryChatRun, RequestAt, RequestGoes, budget
<1>2. pc \in RequestPcs /\ pc # "started"
  BY DEF AfterRecovery, RequestPcs
<1>3. BoundsTyped'
  BY <1>1 DEF IInv, BoundsTyped
<1> HIDE DEF pc
<1> QED BY <1>1, <1>2, <1>3, RequestStays

LEMMA AssertCanDispatchFits ==
  ASSUME IInv, NEW c \in Chains, AssertCanDispatch(c)
  PROVE  IInv'
<1> DEFINE pc == IF RoomIsFree THEN "starting" ELSE "refused"
<1>1. /\ request[c] = "asserting" /\ request' = [request EXCEPT ![c] = pc]
      /\ UNCHANGED <<database, process, exec, cancel, viewer, abandoned, stops, failures, crashes>>
  BY DEF AssertCanDispatch, RequestAt, RequestGoes, budget
<1>2. pc \in RequestPcs /\ pc # "started"
  BY DEF RequestPcs
<1>3. BoundsTyped'
  BY <1>1 DEF IInv, BoundsTyped
<1> HIDE DEF pc
<1> QED BY <1>1, <1>2, <1>3, RequestStays

LEMMA RequestFailsFits ==
  ASSUME IInv, NEW c \in Chains, RequestFails(c)
  PROVE  IInv'
<1> DEFINE pc == IF c.attempt = 0 /\ request[c] # "starting" THEN "refused" ELSE "sent"
<1>1. /\ request[c] \in {"recovering", "asserting", "starting"}
      /\ request' = [request EXCEPT ![c] = pc]
      /\ UNCHANGED <<database, process, exec, cancel, viewer, abandoned>>
  BY DEF RequestFails, RequestGoes
<1>2. pc \in RequestPcs /\ pc # "started"
  BY DEF RequestPcs
<1>3. BoundsTyped'
  BY BoundsAssumption DEF IInv, BoundsTyped, RequestFails
<1> HIDE DEF pc
<1> QED BY <1>1, <1>2, <1>3, RequestStays

\* The recovery fails every chain that is active.
LEMMA RecoveryFits ==
  ASSUME IInv, RecoverInterruptedChains, recovered' = TRUE,
         \A c \in Chains : RequestMoves(c), request' \in [Chains -> RequestPcs],
         viewer' \in {"idle", "recovering"},
         UNCHANGED <<linked, replies, activeRuns, activeChains, agents,
                     exec, cancel, abandoned, stops, failures, crashes>>
  PROVE  IInv'
<1>1. \A c \in Chains : chains'[c] = IF IsActive(c) THEN [chains[c] EXCEPT !.status = "failed"]
                                                    ELSE chains[c]
  BY DEF RecoverInterruptedChains
<1>2. chains \in [Chains -> [status : Statuses, run : TurnRuns \cup {None}, stop : BOOLEAN]]
  BY DEF IInv, Typed
<1>3. chains' \in [Chains -> [status : Statuses, run : TurnRuns \cup {None}, stop : BOOLEAN]]
  BY <1>2 DEF RecoverInterruptedChains, Statuses
<1>4. Typed' /\ BoundsTyped'
  BY <1>3 DEF IInv, Typed, BoundsTyped
<1>5. \A c \in Chains : Settles(c) /\ (chains'[c].stop <=> chains[c].stop)
  BY <1>1, <1>2 DEF Settles
<1>6. \A c \in Chains : exec'[c].pc # "none" /\ activeChains'[c] # "live" => chains'[c].stop
  BY <1>5 DEF IInv, CallFits
<1>7. \A c \in Chains : chains'[c].status = "completed" => chains[c].status = "completed"
  BY <1>1, <1>2
<1>8. CancelFits'
  BY <1>5, StopSettles DEF IInv
<1>9. ActiveChainIsExecuted'
  <2>1. \A c \in Chains : ~IsActive(c)'
    BY <1>1, <1>2 DEF IsActive
  <2> QED BY <2>1 DEF ActiveChainIsExecuted, ActiveInRoom
<1> QED BY <1>4, <1>5, <1>6, <1>7, <1>8, <1>9, ChainSettles

LEMMA RecoverForRequestFits ==
  ASSUME IInv, NEW c \in Chains, RecoverForRequest(c)
  PROVE  IInv'
<1>1. /\ request[c] = "recovering" /\ request' = [request EXCEPT ![c] = AfterRecovery(c)]
      /\ RecoverInterruptedChains /\ recovered' = TRUE
      /\ UNCHANGED <<linked, replies, activeRuns, activeChains, agents, viewer,
                     exec, cancel, abandoned, stops, failures, crashes>>
  BY DEF RecoverForRequest, RequestAt, RequestGoes, budget
<1>2. AfterRecovery(c) \in RequestPcs /\ AfterRecovery(c) # "started"
  BY DEF AfterRecovery, RequestPcs
<1>3. request' \in [Chains -> RequestPcs] /\ \A d \in Chains : RequestMoves(d)
  BY <1>1, <1>2 DEF IInv, Typed, RequestMoves
<1>4. viewer' \in {"idle", "recovering"}
  BY <1>1 DEF IInv, Typed
<1> QED BY <1>1, <1>3, <1>4, RecoveryFits

LEMMA RecoverForViewerFits ==
  ASSUME IInv, RecoverForViewer
  PROVE  IInv'
<1>1. /\ viewer' = "idle" /\ request' = request
      /\ RecoverInterruptedChains /\ recovered' = TRUE
      /\ UNCHANGED <<linked, replies, activeRuns, activeChains, agents,
                     exec, cancel, abandoned, stops, failures, crashes>>
  BY DEF RecoverForViewer, budget
<1>2. request' \in [Chains -> RequestPcs] /\ \A d \in Chains : RequestMoves(d)
  BY <1>1 DEF IInv, Typed, RequestMoves
<1> QED BY <1>1, <1>2, RecoveryFits

-----------------------------------------------------------------------------
(* cancelChatRun, pages, and the death of the process.                     *)

\* A step of a stop fits when it changes nothing else.
LEMMA StopFits ==
  ASSUME IInv, Typed', BoundsTyped',
         UNCHANGED <<linked, replies, recovered, request, exec, abandoned>>,
         \A c \in Chains : Settles(c),
         \A c \in Chains : chains'[c].status = "completed" => chains[c].status = "completed",
         \A c \in Chains : activeChains'[c] = activeChains[c] \/ chains'[c].stop,
         CancelFits'
  PROVE  IInv'
<1>1. \A c \in Chains : RequestMoves(c)
  BY DEF RequestMoves
<1>2. \A c \in Chains : exec'[c].pc # "none" /\ activeChains'[c] # "live" => chains'[c].stop
  BY RowsSettle DEF IInv, CallFits
<1>3. ActiveChainIsExecuted'
  <2>1. ActiveInRoom' \subseteq ActiveInRoom
    BY RowsSettle DEF ActiveInRoom, IInv
  <2> QED BY <2>1 DEF IInv, ActiveChainIsExecuted
<1> QED BY <1>1, <1>2, <1>3, ChainSettles

LEMMA ViewRoomFits ==
  ASSUME IInv, ViewRoom
  PROVE  IInv'
<1>1. /\ viewer' = "recovering"
      /\ UNCHANGED <<chains, linked, replies, recovered, activeRuns, activeChains, agents,
                     request, exec, cancel, abandoned, stops, failures, crashes>>
  BY DEF ViewRoom, database, process, budget
<1>2. Typed' /\ BoundsTyped'
  BY <1>1 DEF IInv, Typed, BoundsTyped
<1>3. \A c \in Chains : Settles(c)
  BY <1>1 DEF Settles
<1>4. CancelFits'
  BY <1>1, StopStays DEF IInv
<1> QED BY <1>1, <1>2, <1>3, <1>4, StopFits

LEMMA CancelChatRunFits ==
  ASSUME IInv, NEW r \in activeRuns \cup {l.run : l \in linked}, CancelChatRun(r)
  PROVE  IInv'
<1>1. /\ cancel' = [pc |-> IF IsLinked(r) THEN "requesting" ELSE "marking",
                    run |-> r, requested |-> r \in activeRuns, chain |-> None]
      /\ UNCHANGED <<chains, linked, replies, recovered, activeRuns, activeChains, agents,
                     request, exec, viewer, abandoned>>
  BY DEF CancelChatRun, database, process
<1>2. r \in TurnRuns
  BY DEF IInv, Typed
<1>3. /\ cancel' \in [pc : CancelPcs, run : TurnRuns \cup {None}, requested : BOOLEAN,
                      chain : Chains \cup {None}]
      /\ cancel'.chain = None /\ cancel'.pc # "finishing"
  <2> DEFINE p == IF IsLinked(r) THEN "requesting" ELSE "marking"
             q == r \in activeRuns
  <2>1. p \in CancelPcs /\ p # "finishing" /\ q \in BOOLEAN
    BY DEF CancelPcs
  <2>2. cancel' = [pc |-> p, run |-> r, requested |-> q, chain |-> None]
    BY <1>1
  <2> HIDE DEF p, q
  <2> QED BY <1>2, <2>1, <2>2
<1>4. BoundsTyped'
  BY BoundsAssumption DEF IInv, BoundsTyped, CancelChatRun
<1>5. Typed'
  BY <1>1, <1>3 DEF IInv, Typed
<1>6. CancelFits'
  BY <1>3 DEF CancelFits
<1>7. \A c \in Chains : Settles(c)
  BY <1>1 DEF Settles
<1> QED BY <1>1, <1>4, <1>5, <1>6, <1>7, StopFits

LEMMA RequestCancelFits ==
  ASSUME IInv, RequestCancel
  PROVE  IInv'
<1>1. UNCHANGED <<linked, replies, recovered, activeRuns, activeChains, agents,
                  request, exec, viewer, abandoned, stops, failures, crashes>>
  BY DEF RequestCancel, process, budget
<1>2. PICK l \in linked :
        IF IsActive(l.chain)
          THEN /\ chains' = [chains EXCEPT ![l.chain].status = "cancel_requested",
                                           ![l.chain].stop = TRUE]
               /\ cancel' = [cancel EXCEPT !.pc = "marking", !.chain = l.chain]
          ELSE cancel' = [cancel EXCEPT !.pc = "marking"] /\ chains' = chains
  BY DEF RequestCancel
<1> DEFINE c == l.chain
<1>3. c \in Chains
  BY DEF IInv, Typed
<1>4. chains \in [Chains -> [status : Statuses, run : TurnRuns \cup {None}, stop : BOOLEAN]]
  BY DEF IInv, Typed
<1>5. BoundsTyped'
  BY <1>1 DEF IInv, BoundsTyped
<1>6. CASE IsActive(c)
  <2> DEFINE y == [chains[c] EXCEPT !.status = "cancel_requested", !.stop = TRUE]
  <2>1. chains' = [chains EXCEPT ![c] = y] /\ cancel' = [cancel EXCEPT !.pc = "marking", !.chain = c]
    BY <1>2, <1>3, <1>4, <1>6
  <2>2. /\ y \in [status : Statuses, run : TurnRuns \cup {None}, stop : BOOLEAN]
        /\ y.run = chains[c].run /\ y.status = "cancel_requested" /\ y.stop
    BY <1>3, <1>4 DEF Statuses
  <2> HIDE DEF y, c
  <2>3. /\ chains' \in [Chains -> [status : Statuses, run : TurnRuns \cup {None}, stop : BOOLEAN]]
        /\ chains'[c] = y /\ \A d \in Chains : d # c => chains'[d] = chains[d]
    BY <1>3, <1>4, <2>1, <2>2
  <2>4. /\ cancel' \in [pc : CancelPcs, run : TurnRuns \cup {None}, requested : BOOLEAN,
                        chain : Chains \cup {None}]
        /\ cancel'.pc = "marking" /\ cancel'.chain = c
    BY <1>3, <2>1 DEF IInv, Typed, CancelPcs
  <2>5. Typed'
    BY <1>1, <2>3, <2>4 DEF IInv, Typed
  <2>6. \A d \in Chains : Settles(d)
    BY <1>6, <2>2, <2>3 DEF Settles
  <2>7. CancelFits'
    BY <2>2, <2>3, <2>4 DEF CancelFits
  <2>8. \A d \in Chains : chains'[d].status = "completed" => chains[d].status = "completed"
    BY <2>2, <2>3
  <2> QED BY <1>1, <1>5, <2>5, <2>6, <2>7, <2>8, StopFits
<1>7. CASE ~IsActive(c)
  <2>1. cancel' = [cancel EXCEPT !.pc = "marking"] /\ chains' = chains
    BY <1>2, <1>7
  <2>2. /\ cancel' \in [pc : CancelPcs, run : TurnRuns \cup {None}, requested : BOOLEAN,
                        chain : Chains \cup {None}]
        /\ cancel'.pc = "marking" /\ cancel'.chain = cancel.chain
    BY <2>1 DEF IInv, Typed, CancelPcs
  <2>3. Typed' /\ CancelFits'
    BY <1>1, <2>1, <2>2 DEF IInv, Typed, CancelFits
  <2>4. \A d \in Chains : Settles(d)
    BY <2>1 DEF Settles
  <2> QED BY <1>1, <1>5, <2>1, <2>3, <2>4, StopFits
<1> QED BY <1>6, <1>7

\* There is no stop.
LEMMA NoCancelTyped ==
  /\ NoCancel \in [pc : CancelPcs, run : TurnRuns \cup {None}, requested : BOOLEAN,
                   chain : Chains \cup {None}]
  /\ NoCancel.pc = "idle" /\ NoCancel.chain = None
BY DEF NoCancel, CancelPcs

\* The chain that is marked in memory is one whose stop is committed.
LEMMA MarkStopFits ==
  ASSUME IInv, MarkStop
  PROVE  IInv'
<1> DEFINE c == cancel.chain
           isLive == c # None /\ activeChains[c] # "absent"
           target == StopTarget
<1>1. /\ activeChains' = IF isLive THEN [activeChains EXCEPT ![c] = "stopped"] ELSE activeChains
      /\ cancel' = IF target # None /\ target.member \in agents
                   THEN [cancel EXCEPT !.pc = "aborting", !.run = target,
                                       !.chain = IF isLive THEN c ELSE None]
                   ELSE NoCancel
      /\ UNCHANGED <<chains, linked, replies, recovered, activeRuns, agents,
                     request, exec, viewer, abandoned, stops, failures, crashes>>
  BY DEF MarkStop, database, budget
<1>2. /\ cancel \in [pc : CancelPcs, run : TurnRuns \cup {None}, requested : BOOLEAN,
                     chain : Chains \cup {None}]
      /\ activeRuns \subseteq TurnRuns
      /\ activeChains \in [Chains -> {"absent", "live", "stopped"}]
  BY DEF IInv, Typed
<1>3. c # None => c \in Chains /\ chains[c].stop /\ chains[c].status \notin {"none", "active"}
  BY <1>2 DEF IInv, CancelFits
<1>4. target \in TurnRuns \cup {None} /\ (isLive /\ target # None => target = chains[c].run)
  BY <1>2 DEF StopTarget
<1> HIDE DEF target
<1>5. /\ cancel' \in [pc : CancelPcs, run : TurnRuns \cup {None}, requested : BOOLEAN,
                      chain : Chains \cup {None}]
      /\ CancelFits'
  <2>1. CASE target # None /\ target.member \in agents
    <3> DEFINE d == IF isLive THEN c ELSE None
    <3>1. d \in Chains \cup {None} /\ (d # None => d = c /\ isLive)
      BY <1>3
    <3>2. cancel' = [cancel EXCEPT !.pc = "aborting", !.run = target, !.chain = d]
      BY <1>1, <2>1
    <3> HIDE DEF d, c, isLive
    <3>3. /\ cancel' \in [pc : CancelPcs, run : TurnRuns \cup {None}, requested : BOOLEAN,
                          chain : Chains \cup {None}]
          /\ cancel'.pc = "aborting" /\ cancel'.run = target /\ cancel'.chain = d
      BY <1>2, <1>4, <3>1, <3>2 DEF CancelPcs
    <3> QED BY <1>1, <1>3, <1>4, <2>1, <3>1, <3>3 DEF CancelFits
  <2>2. CASE ~(target # None /\ target.member \in agents)
    BY <1>1, <2>2, NoCancelTyped DEF CancelFits
  <2> QED BY <2>1, <2>2
<1>6. /\ activeChains' \in [Chains -> {"absent", "live", "stopped"}]
      /\ \A d \in Chains : activeChains'[d] = activeChains[d] \/ chains'[d].stop
  BY <1>1, <1>2, <1>3
<1> HIDE DEF c, isLive
<1>7. Typed' /\ BoundsTyped'
  BY <1>1, <1>5, <1>6 DEF IInv, Typed, BoundsTyped
<1>8. \A d \in Chains : Settles(d)
  BY <1>1 DEF Settles
<1> QED BY <1>1, <1>5, <1>6, <1>7, <1>8, StopFits

LEMMA SessionAbortedFits ==
  ASSUME IInv, SessionAborted
  PROVE  IInv'
<1>1. /\ cancel.pc = "aborting" /\ activeRuns' = activeRuns \ {cancel.run}
      /\ cancel' = IF cancel.chain = None THEN NoCancel ELSE [cancel EXCEPT !.pc = "finishing"]
      /\ UNCHANGED <<chains, linked, replies, recovered, activeChains, agents,
                     request, exec, viewer, abandoned, stops, failures, crashes>>
  BY DEF SessionAborted, database, budget
<1>2. cancel \in [pc : CancelPcs, run : TurnRuns \cup {None}, requested : BOOLEAN,
                  chain : Chains \cup {None}]
  BY DEF IInv, Typed
<1>3. /\ cancel' \in [pc : CancelPcs, run : TurnRuns \cup {None}, requested : BOOLEAN,
                      chain : Chains \cup {None}]
      /\ CancelFits'
  <2>1. CASE cancel.chain = None
    BY <1>1, <2>1, NoCancelTyped DEF CancelFits
  <2>2. CASE cancel.chain # None
    <3>1. /\ cancel' \in [pc : CancelPcs, run : TurnRuns \cup {None}, requested : BOOLEAN,
                          chain : Chains \cup {None}]
          /\ cancel'.pc = "finishing" /\ cancel'.chain = cancel.chain
      BY <1>1, <1>2, <2>2 DEF CancelPcs
    <3> QED BY <1>1, <2>2, <3>1 DEF IInv, CancelFits
  <2> QED BY <2>1, <2>2
<1>4. Typed' /\ BoundsTyped'
  BY <1>1, <1>3 DEF IInv, Typed, BoundsTyped
<1>5. \A d \in Chains : Settles(d)
  BY <1>1 DEF Settles
<1> QED BY <1>1, <1>3, <1>4, <1>5, StopFits

\* What finish does to the chains.
LEMMA FinishSettles ==
  ASSUME IInv, NEW c \in Chains, NEW status \in {"completed", "canceled", "failed"},
         Finish(c, status)
  PROVE  /\ chains' \in [Chains -> [status : Statuses, run : TurnRuns \cup {None}, stop : BOOLEAN]]
         /\ \A d \in Chains : Settles(d)
         /\ \A d \in Chains : d # c => chains'[d] = chains[d]
         /\ ~IsActive(c)'
         /\ IsActive(c) => chains'[c].status = status
         /\ ~IsActive(c) => chains'[c] = chains[c]
<1>1. chains \in [Chains -> [status : Statuses, run : TurnRuns \cup {None}, stop : BOOLEAN]]
  BY DEF IInv, Typed
<1>2. CASE IsActive(c)
  <2> DEFINE y == [chains[c] EXCEPT !.status = status]
  <2>1. chains' = [chains EXCEPT ![c] = y]
    BY <1>2 DEF Finish
  <2>2. /\ y \in [status : Statuses, run : TurnRuns \cup {None}, stop : BOOLEAN]
        /\ y.run = chains[c].run /\ y.status = status /\ y.stop = chains[c].stop
    BY <1>1 DEF Statuses
  <2> HIDE DEF y
  <2>3. /\ chains' \in [Chains -> [status : Statuses, run : TurnRuns \cup {None}, stop : BOOLEAN]]
        /\ chains'[c] = y /\ \A d \in Chains : d # c => chains'[d] = chains[d]
    BY <1>1, <2>1, <2>2
  <2> QED BY <1>2, <2>2, <2>3 DEF IsActive, Settles
<1>3. CASE ~IsActive(c)
  <2>1. chains' = chains
    BY <1>3 DEF Finish
  <2> QED BY <1>1, <1>3, <2>1 DEF IsActive, Settles
<1> QED BY <1>2, <1>3

LEMMA FinishCanceledFits ==
  ASSUME IInv, FinishCanceled
  PROVE  IInv'
<1> DEFINE c == cancel.chain
<1>1. /\ Finish(c, "canceled")
      /\ activeChains' = [activeChains EXCEPT ![c] = "absent"]
      /\ cancel' = NoCancel
      /\ UNCHANGED <<linked, replies, recovered, activeRuns, agents,
                     request, exec, viewer, abandoned, stops, failures, crashes>>
  BY DEF FinishCanceled, budget
<1>2. c \in Chains /\ chains[c].stop
  BY DEF FinishCanceled, IInv, CancelFits, Typed
<1> HIDE DEF c
<1>3. /\ chains' \in [Chains -> [status : Statuses, run : TurnRuns \cup {None}, stop : BOOLEAN]]
      /\ \A d \in Chains : Settles(d)
      /\ \A d \in Chains : d # c => chains'[d] = chains[d]
      /\ IsActive(c) => chains'[c].status = "canceled"
      /\ ~IsActive(c) => chains'[c] = chains[c]
  BY <1>1, <1>2, FinishSettles
<1>4. Typed' /\ BoundsTyped'
  BY <1>1, <1>2, <1>3, NoCancelTyped DEF IInv, Typed, BoundsTyped
<1>5. CancelFits'
  BY <1>1, NoCancelTyped DEF CancelFits
<1>6. \A d \in Chains : chains'[d].status = "completed" => chains[d].status = "completed"
  BY <1>3
<1>7. \A d \in Chains : activeChains'[d] = activeChains[d] \/ chains'[d].stop
  BY <1>1, <1>2, <1>3 DEF IInv, Typed, Settles
<1> QED BY <1>1, <1>3, <1>4, <1>5, <1>6, <1>7, StopFits

LEMMA CancelFailsFits ==
  ASSUME IInv, CancelFails
  PROVE  IInv'
<1>1. /\ cancel' = NoCancel
      /\ UNCHANGED <<chains, linked, replies, recovered, activeRuns, activeChains, agents,
                     request, exec, viewer, abandoned, stops, crashes>>
  BY DEF CancelFails, database, process
<1>2. BoundsTyped'
  BY BoundsAssumption DEF IInv, BoundsTyped, CancelFails
<1>3. Typed' /\ CancelFits'
  BY <1>1, NoCancelTyped DEF IInv, Typed, CancelFits
<1>4. \A d \in Chains : Settles(d)
  BY <1>1 DEF Settles
<1> QED BY <1>1, <1>2, <1>3, <1>4, StopFits

\* There is no call.
LEMMA IdleTyped ==
  /\ Idle \in Calls /\ Idle.pc = "none" /\ Idle.stack = <<>>
  /\ Idle.next = None /\ Idle.outcome = None
<1>1. <<>> \in Seq(TurnRuns)
  BY EmptySeq
<1> QED BY <1>1 DEF Idle, Calls, ExecPcs

LEMMA CrashFits ==
  ASSUME IInv, Crash
  PROVE  IInv'
<1>1. /\ recovered' = FALSE /\ activeRuns' = {} /\ agents' = {}
      /\ activeChains' = [c \in Chains |-> "absent"]
      /\ exec' = [c \in Chains |-> Idle]
      /\ cancel' = NoCancel /\ viewer' = "idle"
      /\ UNCHANGED <<chains, linked, replies, abandoned>>
  BY DEF Crash, database
<1>2. \A c \in Chains :
         \/ request'[c] = request[c]
         \/ /\ request'[c] \in {"sent", "refused"}
            /\ request'[c] = "refused" => request[c] \notin {"started", "sent"}
  BY DEF Crash
<1>3. request' = [c \in Chains |-> request'[c]]
  BY DEF Crash
<1>4. request' \in [Chains -> RequestPcs] /\ \A c \in Chains : RequestMoves(c)
  BY <1>2, <1>3 DEF IInv, Typed, RequestPcs, RequestMoves
<1>5. BoundsTyped'
  BY BoundsAssumption DEF IInv, BoundsTyped, Crash
<1>6. Typed'
  BY <1>1, <1>4, IdleTyped, NoCancelTyped DEF IInv, Typed
<1>7. CancelFits'
  BY <1>1, NoCancelTyped DEF CancelFits
<1>8. ActiveChainIsExecuted'
  BY <1>1 DEF ActiveChainIsExecuted
<1>9. \A c \in Chains : exec'[c] = Idle /\ exec'[c].pc = "none" /\ Settles(c)
  BY <1>1, IdleTyped DEF Settles
<1> QED BY <1>1, <1>4, <1>5, <1>6, <1>7, <1>8, <1>9, ChainSettles

-----------------------------------------------------------------------------
(* The end of a call, and the steps that link a run.                       *)

\* The call of a chain is over, and the chain ended or is abandoned.
LEMMA CallEnds ==
  ASSUME IInv, NEW c \in Chains, exec' = [exec EXCEPT ![c] = Idle],
         chains' \in [Chains -> [status : Statuses, run : TurnRuns \cup {None}, stop : BOOLEAN]],
         \A d \in Chains : Settles(d),
         \A d \in Chains : d # c => chains'[d] = chains[d],
         ~IsActive(c)' \/ c \in abandoned',
         chains'[c].status = "completed" /\ chains[c].status # "completed" =>
           chains[c].stop \/ \A r \in RunOf(c) : Reply(r) \in replies,
         abandoned' \subseteq Chains, abandoned \subseteq abandoned',
         activeRuns' \subseteq TurnRuns,
         activeChains' = activeChains \/ activeChains' = [activeChains EXCEPT ![c] = "absent"],
         BoundsTyped',
         UNCHANGED <<linked, replies, recovered, agents, request, cancel, viewer>>
  PROVE  IInv'
<1>1. /\ exec' \in [Chains -> Calls] /\ exec'[c] = Idle /\ exec'[c].pc = "none"
      /\ \A d \in Chains : d # c => exec'[d] = exec[d]
  BY IdleTyped DEF IInv, Typed
<1>2. /\ activeChains' \in [Chains -> {"absent", "live", "stopped"}]
      /\ \A d \in Chains : d # c => activeChains'[d] = activeChains[d]
  BY DEF IInv, Typed
<1>3. Typed'
  BY <1>1, <1>2 DEF IInv, Typed
<1>4. \A d \in Chains : RequestMoves(d) /\ (exec'[d] = exec[d] \/ exec'[d] = Idle)
  BY <1>1 DEF RequestMoves
<1>5. \A d \in Chains : exec'[d].pc # "none" /\ activeChains'[d] # "live" => chains'[d].stop
  BY <1>1, <1>2 DEF IInv, CallFits
<1>6. CancelFits'
  BY StopSettles DEF IInv
<1>7. ActiveChainIsExecuted'
  <2>1. ASSUME recovered, NEW d \in Chains, IsActive(d)', d \notin abandoned'
        PROVE  request'[d] = "started" \/ exec'[d].pc # "none"
    <3>1. d # c /\ IsActive(d) /\ d \notin abandoned
      BY <2>1, RowsSettle DEF IInv
    <3> QED BY <1>1, <2>1, <3>1 DEF IInv, ActiveChainIsExecuted, ActiveInRoom
  <2> QED BY <2>1 DEF ActiveChainIsExecuted, ActiveInRoom
<1> QED BY <1>3, <1>4, <1>5, <1>6, <1>7, ChainSettles

LEMMA OpenFailsFits ==
  ASSUME IInv, NEW c \in Chains, OpenFails(c)
  PROVE  IInv'
<1> DEFINE s == exec[c].stack
<1>1. /\ exec[c].pc = "opening"
      /\ UNCHANGED <<chains, linked, replies, recovered, activeRuns, activeChains, agents,
                     request, cancel, viewer>>
  BY DEF OpenFails, At, database, process
<1>2. BoundsTyped'
  BY BoundsAssumption DEF IInv, BoundsTyped, OpenFails
<1>3. /\ s \in Seq(TurnRuns) /\ s # <<>> /\ Distinct(s) /\ ToSet(s) \subseteq RunOf(c)
  BY <1>1, CallAtWork
<1>4. CASE Len(s) = 1
  <2>1. exec' = [exec EXCEPT ![c] = Idle] /\ abandoned' = abandoned \cup {c}
    BY <1>4 DEF OpenFails
  <2>2. /\ chains' \in [Chains -> [status : Statuses, run : TurnRuns \cup {None}, stop : BOOLEAN]]
        /\ activeRuns' \subseteq TurnRuns /\ abandoned' \subseteq Chains
    BY <1>1, <2>1 DEF IInv, Typed
  <2>3. \A d \in Chains : Settles(d)
    BY <1>1 DEF Settles
  <2> QED BY <1>1, <1>2, <2>1, <2>2, <2>3, CallEnds
<1>5. CASE Len(s) # 1
  <2>1. exec' = [exec EXCEPT ![c] = Caught(c, Front(s))] /\ abandoned' = abandoned
    BY <1>5 DEF OpenFails
  <2>2. /\ Front(s) \in Seq(TurnRuns) /\ Front(s) # <<>> /\ Distinct(Front(s))
        /\ ToSet(Front(s)) \subseteq RunOf(c)
    BY <1>3, <1>5, CallerOf
  <2> QED BY <1>1, <1>2, <2>1, <2>2, CaughtFits
<1> QED BY <1>4, <1>5

LEMMA FinishChainFits ==
  ASSUME IInv, NEW c \in Chains, FinishChain(c)
  PROVE  IInv'
<1>1. /\ exec[c].pc \in {"finishing", "closing"} /\ Finish(c, exec[c].outcome)
      /\ exec' = [exec EXCEPT ![c] = Idle]
      /\ activeChains' = [activeChains EXCEPT ![c] = "absent"]
      /\ activeRuns' \subseteq activeRuns
      /\ UNCHANGED <<linked, replies, recovered, agents, request, cancel, viewer,
                     abandoned, stops, failures, crashes>>
  BY DEF FinishChain, Release, budget
<1>2. /\ exec[c] \in Calls /\ Shaped(RunOf(c), exec[c])
      /\ chains[c].stop \/ Answered(RunOf(c), replies, exec[c])
  BY <1>1, CallAtWork DEF IInv, CallFits
<1>3. exec[c].outcome \in {"completed", "canceled", "failed"}
  BY <1>1, <1>2 DEF Calls, Shaped
<1>4. /\ chains' \in [Chains -> [status : Statuses, run : TurnRuns \cup {None}, stop : BOOLEAN]]
      /\ \A d \in Chains : Settles(d)
      /\ \A d \in Chains : d # c => chains'[d] = chains[d]
      /\ ~IsActive(c)'
      /\ IsActive(c) => chains'[c].status = exec[c].outcome
      /\ ~IsActive(c) => chains'[c] = chains[c]
  BY <1>1, <1>3, FinishSettles
<1>5. ASSUME chains'[c].status = "completed", chains[c].status # "completed", ~chains[c].stop
      PROVE  \A r \in RunOf(c) : Reply(r) \in replies
  <2>1. exec[c].outcome = "completed" /\ exec[c].pc = "finishing"
    BY <1>1, <1>2, <1>4, <1>5 DEF Shaped
  <2> QED BY <1>2, <1>5, <2>1 DEF Answered
<1>6. BoundsTyped' /\ activeRuns' \subseteq TurnRuns /\ abandoned' \subseteq Chains
  BY <1>1 DEF IInv, Typed, BoundsTyped
<1> QED BY <1>1, <1>4, <1>5, <1>6, CallEnds

LEMMA FinishIsSwallowedFits ==
  ASSUME IInv, NEW c \in Chains, FinishIsSwallowed(c)
  PROVE  IInv'
<1>1. /\ exec' = [exec EXCEPT ![c] = Idle] /\ abandoned' = abandoned \cup {c}
      /\ activeChains' = [activeChains EXCEPT ![c] = "absent"]
      /\ activeRuns' \subseteq activeRuns
      /\ UNCHANGED <<chains, linked, replies, recovered, agents, request, cancel, viewer>>
  BY DEF FinishIsSwallowed, Release, database
<1>2. BoundsTyped'
  BY BoundsAssumption DEF IInv, BoundsTyped, FinishIsSwallowed
<1>3. /\ chains' \in [Chains -> [status : Statuses, run : TurnRuns \cup {None}, stop : BOOLEAN]]
      /\ activeRuns' \subseteq TurnRuns /\ abandoned' \subseteq Chains
  BY <1>1 DEF IInv, Typed
<1>4. \A d \in Chains : Settles(d)
  BY <1>1 DEF Settles
<1> QED BY <1>1, <1>2, <1>3, <1>4, CallEnds

\* The first run of a chain is linked to no chain yet.
LEMMA TryStartFits ==
  ASSUME IInv, NEW c \in Chains, TryStart(c)
  PROVE  IInv'
<1>1. /\ request[c] = "starting"
      /\ UNCHANGED <<replies, process, exec, cancel, viewer, abandoned, stops, failures, crashes>>
  BY DEF TryStart, RequestAt, budget
<1>2. BoundsTyped'
  BY <1>1 DEF IInv, BoundsTyped
<1>3. CASE ~RoomIsFree
  <2>1. request' = [request EXCEPT ![c] = "sent"] /\ UNCHANGED <<chains, linked>>
    BY <1>3 DEF TryStart, RequestGoes
  <2> QED BY <1>1, <1>2, <2>1, RequestStays DEF database, RequestPcs
<1>4. ASSUME RoomIsFree, NEW e \in Members, InsertChain(c, FirstRun(c, e)),
             request' = [request EXCEPT ![c] = "started"]
      PROVE  IInv'
  <2> DEFINE r == FirstRun(c, e)
             y == [status |-> "active", run |-> r, stop |-> FALSE]
             z == [run |-> r, chain |-> c]
  <2>1. chains' = [chains EXCEPT ![c] = y] /\ linked' = linked \cup {z}
    BY <1>4 DEF InsertChain
  <2>2. /\ r \in TurnRuns /\ Len(r.msg) = 1 /\ r.msg = <<c.msg>> /\ r.attempt = c.attempt
    BY BoundsAssumption, RunsOfMessages
  <2> HIDE DEF r
  <2>3. z \in [run : TurnRuns, chain : Chains] /\ z.run = r /\ z.chain = c
    BY <2>2
  <2>4. y \in [status : Statuses, run : TurnRuns \cup {None}, stop : BOOLEAN]
        /\ y.run = r /\ y.status = "active" /\ y.stop = FALSE /\ r # None
    BY <2>2, NoneAssumption DEF Statuses
  <2>5. /\ RunOf(c)' = RunOf(c) \cup {r}
        /\ \A d \in Chains : d # c => RunOf(d)' = RunOf(d)
        /\ \A q : IsLinked(q)' <=> IsLinked(q) \/ q = r
    BY <2>1, LinkStep
  <2> HIDE DEF y, z
  <2>6. /\ chains' \in [Chains -> [status : Statuses, run : TurnRuns \cup {None}, stop : BOOLEAN]]
        /\ chains'[c] = y /\ \A d \in Chains : d # c => chains'[d] = chains[d]
    BY <2>1, <2>4 DEF IInv, Typed
  <2>7. /\ request' \in [Chains -> RequestPcs] /\ request'[c] = "started"
        /\ \A d \in Chains : d # c => request'[d] = request[d]
    BY <1>4 DEF IInv, Typed, RequestPcs
  <2>8. Typed'
    BY <1>1, <2>1, <2>3, <2>6, <2>7 DEF IInv, Typed, process
  <2>9. chains[c].status = "none" /\ RunOf(c) = {} /\ exec[c].pc = "none"
    BY <1>1 DEF IInv, RequestFits, RowsFit
  <2>10. \A l \in linked : l.run # r
    <3> SUFFICES ASSUME NEW l \in linked, l.run = r PROVE FALSE
      OBVIOUS
    <3>1. l.chain \in Chains /\ l.run.msg = <<l.chain.msg>> /\ l.run.attempt = l.chain.attempt
      BY <2>2 DEF IInv, Typed, RowsFit
    <3>2. l.chain.msg = c.msg
      BY <2>2, <3>1
    <3>3. l.chain = c
      BY <2>2, <3>1, <3>2 DEF Chains
    <3>4. l.run \in RunOf(c)
      BY <3>3 DEF RunOf
    <3> QED BY <2>9, <3>4
  <2>11. \A d \in Chains : IsActive(d)' <=> d = c
    BY <1>4, <2>4, <2>6 DEF IsActive, RoomIsFree, ActiveInRoom
  <2>12. RowsFit'
    <3>1. \A d \in Chains : chains'[d].status = "none" <=> chains'[d].run = None
      BY <2>4, <2>6 DEF IInv, RowsFit
    <3>2. \A d \in Chains : chains'[d].status = "none" => RunOf(d)' = {}
      BY <2>4, <2>5, <2>6 DEF IInv, RowsFit
    <3>3. \A d \in Chains : chains'[d].run # None => \E l \in linked' : l.run = chains'[d].run
      <4>1. z \in linked' /\ z.run = chains'[c].run
        BY <2>1, <2>3, <2>4, <2>6
      <4>2. linked \subseteq linked'
        BY <2>1
      <4> QED BY <2>6, <4>1, <4>2 DEF IInv, RowsFit, IsLinked
    <3>4. \A k, l \in linked' : k.run = l.run => k = l
      BY <2>1, <2>3, <2>10 DEF IInv, RowsFit
    <3>5. \A l \in linked' : Len(l.run.msg) > 0
      BY <2>1, <2>2, <2>3 DEF IInv, RowsFit
    <3>6. \A l \in linked' : Len(l.run.msg) = 1 =>
            l.run.msg = <<l.chain.msg>> /\ l.run.attempt = l.chain.attempt
      BY <2>1, <2>2, <2>3 DEF IInv, RowsFit
    <3> QED BY <2>11, <3>1, <3>2, <3>3, <3>4, <3>5, <3>6 DEF RowsFit, IsLinked
  <2>13. RequestFits(c)' /\ CallFits(c)' /\ CompletedFits(c)'
    <3>1. exec[c] = Idle
      BY <2>9 DEF IInv, CallFits, Shaped
    <3>2. RequestFits(c)'
      BY <1>1, <2>4, <2>5, <2>6, <2>7, <2>9 DEF RequestFits
    <3>3. Shaped(RunOf(c)', Idle) /\ Answered(RunOf(c)', replies', Idle)
      BY IdleTyped DEF Shaped, Answered
    <3>4. CallFits(c)'
      BY <1>1, <3>1, <3>3, IdleTyped DEF CallFits
    <3>5. CompletedFits(c)'
      BY <2>4, <2>6 DEF CompletedFits
    <3> QED BY <3>2, <3>4, <3>5
  <2>14. ASSUME NEW d \in Chains, d # c
         PROVE  RequestFits(d)' /\ CallFits(d)' /\ CompletedFits(d)'
    <3>1. RequestFits(d) /\ CallFits(d) /\ CompletedFits(d)
      BY DEF IInv
    <3> QED BY <1>1, <2>5, <2>6, <2>7, <2>14, <3>1, ChainStays DEF process
  <2>15. CancelFits'
    <3>1. cancel.chain # None => cancel.chain \in Chains /\ cancel.chain # c
      BY <2>9 DEF IInv, Typed, CancelFits
    <3> QED BY <1>1, <2>6, <3>1 DEF IInv, CancelFits
  <2>16. ActiveChainIsExecuted'
    BY <2>7, <2>11 DEF ActiveChainIsExecuted, ActiveInRoom
  <2> QED BY <1>2, <2>8, <2>12, <2>13, <2>14, <2>15, <2>16 DEF IInv
<1> QED BY <1>3, <1>4 DEF TryStart, RequestGoes

LEMMA BeginExecutionFits ==
  ASSUME IInv, NEW c \in Chains, BeginExecution(c)
  PROVE  IInv'
<1> DEFINE r == chains[c].run
           s == <<r>>
           x == [Idle EXCEPT !.pc = "opening", !.stack = s]
<1>1. /\ request[c] = "started" /\ request' = [request EXCEPT ![c] = "sent"]
      /\ activeChains' = [activeChains EXCEPT ![c] = "live"]
      /\ activeRuns' = activeRuns \cup {r}
      /\ exec' = [exec EXCEPT ![c] = x]
      /\ UNCHANGED <<chains, linked, replies, recovered, agents, cancel, viewer,
                     abandoned, stops, failures, crashes>>
  BY DEF BeginExecution, RequestAt, RequestGoes, database, budget
<1>2. RunOf(c) = {r} /\ r \in TurnRuns
  BY <1>1, RunsAreTurns DEF IInv, RequestFits
<1> HIDE DEF r
<1>3. s \in Seq(TurnRuns) /\ s # <<>> /\ ToSet(s) = {r} /\ Last(s) = r /\ Distinct(s)
  BY <1>2, FirstCall
<1> HIDE DEF s
<1>4. x \in Calls /\ x.pc = "opening" /\ x.stack = s /\ x.next = None /\ x.outcome = None
  BY <1>3 DEF Idle, Calls, ExecPcs
<1> HIDE DEF x
<1>5. /\ exec' \in [Chains -> Calls] /\ exec'[c] = x
      /\ \A d \in Chains : d # c => exec'[d] = exec[d]
      /\ request' \in [Chains -> RequestPcs] /\ request'[c] = "sent"
      /\ \A d \in Chains : d # c => request'[d] = request[d]
      /\ activeChains' \in [Chains -> {"absent", "live", "stopped"}] /\ activeChains'[c] = "live"
      /\ \A d \in Chains : d # c => activeChains'[d] = activeChains[d]
  BY <1>1, <1>4 DEF IInv, Typed, RequestPcs
<1>6. Typed' /\ BoundsTyped'
  BY <1>1, <1>2, <1>5 DEF IInv, Typed, BoundsTyped
<1>7. RowsFit' /\ \A d : RunOf(d)' = RunOf(d)
  BY <1>1, RowsStay DEF IInv
<1>8. RequestFits(c)' /\ CallFits(c)' /\ CompletedFits(c)'
  <2>1. RequestFits(c)'
    BY <1>5 DEF RequestFits
  <2>2. Shaped(RunOf(c), x) /\ Answered(RunOf(c), replies, x)
    BY <1>2, <1>3, <1>4 DEF Shaped, Answered
  <2>3. CallFits(c)'
    BY <1>1, <1>5, <1>7, <2>2 DEF CallFits
  <2>4. CompletedFits(c)'
    BY <1>1, <1>7 DEF IInv, CompletedFits
  <2> QED BY <2>1, <2>3, <2>4
<1>9. ASSUME NEW d \in Chains, d # c
      PROVE  RequestFits(d)' /\ CallFits(d)' /\ CompletedFits(d)'
  <2>1. RequestFits(d) /\ CallFits(d) /\ CompletedFits(d)
    BY DEF IInv
  <2> QED BY <1>1, <1>5, <1>7, <1>9, <2>1, ChainStays
<1>10. CancelFits'
  BY <1>1, StopStays DEF IInv
<1>11. ActiveChainIsExecuted'
  <2>1. ActiveInRoom' = ActiveInRoom /\ ActiveInRoom \subseteq Chains
    BY <1>1 DEF ActiveInRoom, IsActive
  <2> QED BY <1>1, <1>4, <1>5, <2>1 DEF IInv, ActiveChainIsExecuted
<1> QED BY <1>6, <1>7, <1>8, <1>9, <1>10, <1>11 DEF IInv

\* A run of a later turn has a predecessor.
LEMMA RunsOfReplies ==
  ASSUME NEW r \in TurnRuns, Len(r.msg) > 1
  PROVE  Len(r.msg) > 0 /\ Len(r.msg) # 1
<1> DEFINE n == Len(r.msg)
<1>1. r.msg \in Seq(Messages \cup Members)
  BY DEF TurnRuns
<1>2. n \in Nat /\ n > 1
  BY <1>1
<1> HIDE DEF n
<1>3. n > 0 /\ n # 1
  BY <1>2
<1> QED BY <1>3 DEF n

\* The next holder's run is linked by the step that makes it the current one,
\* or was linked before, and then the chain goes no further.
LEMMA AdvanceChainFits ==
  ASSUME IInv, NEW c \in Chains, AdvanceChain(c)
  PROVE  IInv'
<1> DEFINE r == exec[c].next
           goes == MayAdvance(c, Current(c)) /\ ~IsLinked(r)
           x == [exec[c] EXCEPT !.pc = "advanced", !.next = IF goes THEN r ELSE None]
<1>1. /\ exec[c].pc = "advancing"
      /\ UNCHANGED <<replies, recovered, activeRuns, activeChains, agents,
                     request, cancel, viewer, abandoned, stops, failures, crashes>>
  BY DEF AdvanceChain, At, process, budget
<1>2. /\ exec[c] \in Calls /\ Shaped(RunOf(c), exec[c])
      /\ chains[c].stop \/ Answered(RunOf(c), replies, exec[c])
      /\ exec[c].outcome = None /\ exec[c].stack # <<>> /\ request[c] = "sent"
      /\ ToSet(exec[c].stack) \subseteq RunOf(c)
      /\ r \in TurnRuns /\ Len(r.msg) > 1
  BY <1>1, CallAtWork DEF IInv, CallFits, Shaped
<1>3. /\ x \in Calls /\ x.stack = exec[c].stack /\ x.pc = "advanced" /\ x.outcome = None
      /\ x.next = IF goes THEN r ELSE None
  BY <1>2 DEF Calls, ExecPcs
<1>4. exec' = [exec EXCEPT ![c] = x]
  <2>1. CASE goes
    BY <1>2, <2>1 DEF AdvanceChain, Advances, IInv, Typed
  <2>2. CASE ~goes
    BY <1>2, <2>2 DEF AdvanceChain, Advances, IInv, Typed
  <2> QED BY <2>1, <2>2
<1> HIDE DEF x
<1>5. BoundsTyped' /\ activeRuns' \subseteq TurnRuns /\ agents' \subseteq Members
  BY <1>1 DEF IInv, Typed, BoundsTyped
<1>6. CASE ~MayAdvance(c, Current(c))
  <2>1. UNCHANGED <<chains, linked>>
    BY <1>6 DEF AdvanceChain
  <2>2. Shaped(RunOf(c), x) /\ (chains[c].stop \/ Answered(RunOf(c), replies', x))
    BY <1>1, <1>2, <1>3, <1>6 DEF Shaped, Answered
  <2> QED BY <1>1, <1>3, <1>4, <1>5, <2>1, <2>2, CallMoves
<1>7. CASE MayAdvance(c, Current(c))
  <2> DEFINE y == [chains[c] EXCEPT !.run = r]
             z == [run |-> r, chain |-> c]
  <2>1. /\ chains' = [chains EXCEPT ![c] = y]
        /\ linked' = IF IsLinked(r) THEN linked ELSE linked \cup {z}
        /\ chains[c].status = "active"
    BY <1>7 DEF AdvanceChain, UpdateRun, MayAdvance
  <2>0. r \in TurnRuns /\ Len(r.msg) > 0 /\ Len(r.msg) # 1 /\ r # None
    <3> HIDE DEF r
    <3> QED BY <1>2, RunsOfReplies, NoneAssumption
  <2> HIDE DEF r
  <2>2. /\ y \in [status : Statuses, run : TurnRuns \cup {None}, stop : BOOLEAN]
        /\ y.run = r /\ y.status = "active" /\ y.stop = chains[c].stop /\ r # None
    BY <1>2, <2>1, NoneAssumption DEF IInv, Typed
  <2>3. z \in [run : TurnRuns, chain : Chains] /\ z.run = r /\ z.chain = c
    BY <1>2
  <2>4. /\ RunOf(c)' = IF IsLinked(r) THEN RunOf(c) ELSE RunOf(c) \cup {r}
        /\ \A d \in Chains : d # c => RunOf(d)' = RunOf(d)
        /\ \A q : IsLinked(q)' <=> IsLinked(q) \/ q = r
    <3>1. CASE IsLinked(r)
      BY <2>1, <3>1 DEF RunOf, IsLinked
    <3>2. CASE ~IsLinked(r)
      BY <2>1, <3>2, LinkStep
    <3> QED BY <3>1, <3>2
  <2> HIDE DEF y, z
  <2>5. /\ chains' \in [Chains -> [status : Statuses, run : TurnRuns \cup {None}, stop : BOOLEAN]]
        /\ chains'[c] = y /\ \A d \in Chains : d # c => chains'[d] = chains[d]
    BY <2>1, <2>2 DEF IInv, Typed
  <2>6. /\ exec' \in [Chains -> Calls] /\ exec'[c] = x
        /\ \A d \in Chains : d # c => exec'[d] = exec[d]
    BY <1>3, <1>4 DEF IInv, Typed
  <2>7. Typed'
    BY <1>1, <2>1, <2>3, <2>5, <2>6 DEF IInv, Typed
  <2>8. \A d \in Chains : IsActive(d)' <=> IsActive(d)
    BY <2>1, <2>2, <2>5 DEF IsActive
  <2>9. RowsFit'
    <3>1. \A d \in Chains : chains'[d].status = "none" <=> chains'[d].run = None
      BY <2>2, <2>5 DEF IInv, RowsFit
    <3>2. \A d \in Chains : chains'[d].status = "none" => RunOf(d)' = {}
      BY <2>2, <2>4, <2>5 DEF IInv, RowsFit
    <3>3. \A d \in Chains : chains'[d].run # None => \E l \in linked' : l.run = chains'[d].run
      <4>1. \E l \in linked' : l.run = r
        BY <2>1, <2>3 DEF IsLinked
      <4>2. linked \subseteq linked'
        BY <2>1
      <4> QED BY <2>2, <2>5, <4>1, <4>2 DEF IInv, RowsFit, IsLinked
    <3>4. \A k, l \in linked' : k.run = l.run => k = l
      BY <2>1, <2>3 DEF IInv, RowsFit, IsLinked
    <3>5. \A l \in linked' : Len(l.run.msg) > 0
      BY <2>0, <2>1, <2>3 DEF IInv, RowsFit
    <3>6. \A l \in linked' : Len(l.run.msg) = 1 =>
            l.run.msg = <<l.chain.msg>> /\ l.run.attempt = l.chain.attempt
      BY <2>0, <2>1, <2>3 DEF IInv, RowsFit
    <3> QED BY <2>8, <3>1, <3>2, <3>3, <3>4, <3>5, <3>6 DEF RowsFit, IInv, IsLinked
  <2>10. RequestFits(c)' /\ CompletedFits(c)'
    BY <1>1, <1>2, <2>2, <2>5 DEF RequestFits, CompletedFits
  <2>11. CallFits(c)'
    <3>1. ~IsLinked(r) => r \notin RunOf(c)
      BY DEF IsLinked, RunOf
    <3>2. Shaped(RunOf(c)', x)
      <4>1. CASE goes
        <5>1. RunOf(c)' = RunOf(c) \cup {r} /\ r \notin RunOf(c) /\ x.next = r
          BY <1>3, <2>4, <3>1, <4>1
        <5>2. x.next \in RunOf(c)' \ ToSet(x.stack) /\ ToSet(x.stack) \subseteq RunOf(c)'
          BY <1>2, <1>3, <5>1
        <5> QED BY <1>1, <1>2, <1>3, <5>2 DEF Shaped
      <4>2. CASE ~goes
        <5>1. x.next = None /\ ToSet(x.stack) \subseteq RunOf(c)'
          BY <1>2, <1>3, <2>4, <4>2
        <5> QED BY <1>1, <1>2, <1>3, <5>1 DEF Shaped
      <4> QED BY <4>1, <4>2
    <3>3. chains[c].stop \/ Answered(RunOf(c)', replies', x)
      BY <1>1, <1>2, <1>3, <1>7, <2>4 DEF Answered
    <3>4. exec[c].pc # "none" /\ activeChains[c] # "live" => chains[c].stop
      BY DEF IInv, CallFits
    <3> QED BY <1>1, <2>2, <2>5, <2>6, <3>2, <3>3, <3>4 DEF CallFits
  <2>12. ASSUME NEW d \in Chains, d # c
         PROVE  RequestFits(d)' /\ CallFits(d)' /\ CompletedFits(d)'
    <3>1. RequestFits(d) /\ CallFits(d) /\ CompletedFits(d)
      BY DEF IInv
    <3> QED BY <1>1, <2>4, <2>5, <2>6, <2>12, <3>1, ChainStays
  <2>13. CancelFits'
    <3>1. cancel.chain # None => cancel.chain \in Chains /\ cancel.chain # c
      BY <2>1 DEF IInv, Typed, CancelFits
    <3> QED BY <1>1, <2>5, <3>1 DEF IInv, CancelFits
  <2>14. ActiveChainIsExecuted'
    <3>1. ActiveInRoom' = ActiveInRoom /\ ActiveInRoom \subseteq Chains
      BY <2>8 DEF ActiveInRoom
    <3> QED BY <1>1, <1>3, <2>6, <3>1 DEF IInv, ActiveChainIsExecuted
  <2> QED BY <1>5, <2>7, <2>9, <2>10, <2>11, <2>12, <2>13, <2>14 DEF IInv
<1> QED BY <1>6, <1>7

-----------------------------------------------------------------------------
(* The specification keeps the invariant.                                  *)

\* No chain exists at the start.
LEMMA InitIInv ==
  ASSUME Init
  PROVE  IInv
<1>1. /\ chains = [c \in Chains |-> [status |-> "none", run |-> None, stop |-> FALSE]]
      /\ linked = {} /\ recovered = FALSE /\ activeRuns = {} /\ agents = {}
      /\ activeChains = [c \in Chains |-> "absent"] /\ request = [c \in Chains |-> "none"]
      /\ exec = [c \in Chains |-> Idle] /\ cancel = NoCancel /\ viewer = "idle"
      /\ abandoned = {} /\ stops = 0 /\ failures = 0 /\ crashes = 0
  BY DEF Init
<1>2. \A c \in Chains : exec[c] = Idle
  BY <1>1
<1>3. \A c \in Chains : chains[c].status = "none" /\ chains[c].run = None
  BY <1>1
<1>4. \A c \in Chains : RunOf(c) = {}
  BY <1>1 DEF RunOf
<1>5. Typed
  <2>1. chains \in [Chains -> [status : Statuses, run : TurnRuns \cup {None}, stop : BOOLEAN]]
    BY <1>1 DEF Statuses
  <2>2. exec \in [Chains -> Calls]
    BY <1>1, IdleTyped
  <2>3. cancel \in [pc : CancelPcs, run : TurnRuns \cup {None}, requested : BOOLEAN,
                    chain : Chains \cup {None}]
    BY <1>1, NoCancelTyped
  <2>4. request \in [Chains -> RequestPcs] /\ activeChains \in [Chains -> {"absent", "live", "stopped"}]
    BY <1>1 DEF RequestPcs
  <2> QED BY <1>1, <2>1, <2>2, <2>3, <2>4 DEF Typed
<1>6. BoundsTyped
  BY <1>1, BoundsAssumption DEF BoundsTyped
<1>7. RowsFit
  BY <1>1, <1>3, <1>4 DEF RowsFit, IsActive
<1>8. \A c \in Chains : RequestFits(c) /\ CallFits(c) /\ CompletedFits(c)
  BY <1>1, <1>2, <1>3, IdleTyped DEF RequestFits, CallFits, CompletedFits, Shaped, Answered
<1>9. CancelFits
  BY <1>1, NoCancelTyped DEF CancelFits
<1>10. ActiveChainIsExecuted
  BY <1>1 DEF ActiveChainIsExecuted
<1> QED BY <1>5, <1>6, <1>7, <1>8, <1>9, <1>10 DEF IInv

LEMMA StutterFits ==
  ASSUME IInv, UNCHANGED vars
  PROVE  IInv'
<1>1. UNCHANGED <<chains, linked, replies, recovered, activeRuns, activeChains, agents,
                  request, exec, cancel, viewer, abandoned, stops, failures, crashes>>
  BY DEF vars, database, process, budget
<1>2. Typed' /\ BoundsTyped'
  BY <1>1 DEF IInv, Typed, BoundsTyped
<1>3. \A c \in Chains : Settles(c)
  BY <1>1 DEF Settles
<1>4. CancelFits'
  BY <1>1, StopStays DEF IInv
<1> QED BY <1>1, <1>2, <1>3, <1>4, StopFits

\* The invariant is inductive.
LEMMA NextIInv ==
  ASSUME IInv, [Next]_vars
  PROVE  IInv'
<1>1. ASSUME NEW c \in Chains, PostMessage(c) \/ RetryChatRun(c)
      PROVE  IInv'
  BY <1>1, PostMessageFits, RetryChatRunFits
<1>2. ASSUME NEW c \in Chains, RequestStep(c)
      PROVE  IInv'
  BY <1>2, RecoverForRequestFits, AssertCanDispatchFits, TryStartFits, BeginExecutionFits
     DEF RequestStep
<1>3. ASSUME NEW c \in Chains, ExecStep(c)
      PROVE  IInv'
  BY <1>3, OpenRepositoryFits, PoolAgentFits, TurnReturnsFits, PersistReplyFits,
     AdvanceChainFits, AfterAdvanceFits, SettleFits, FinishChainFits
     DEF ExecStep
<1>4. ASSUME NEW c \in Chains, FailingStep(c)
      PROVE  IInv'
  BY <1>4, RequestFailsFits, OpenFailsFits, StepThrowsFits, FinishIsSwallowedFits
     DEF FailingStep
<1>5. CASE ViewRoom \/ RecoverForViewer
  BY <1>5, ViewRoomFits, RecoverForViewerFits
<1>6. ASSUME NEW r \in activeRuns \cup {l.run : l \in linked}, CancelChatRun(r)
      PROVE  IInv'
  BY <1>6, CancelChatRunFits
<1>7. CASE CancelStep \/ CancelFails
  BY <1>7, RequestCancelFits, MarkStopFits, SessionAbortedFits, FinishCanceledFits,
     CancelFailsFits
     DEF CancelStep
<1>8. CASE Crash
  BY <1>8, CrashFits
<1>9. CASE UNCHANGED vars
  BY <1>9, StutterFits
<1> QED BY <1>1, <1>2, <1>3, <1>4, <1>5, <1>6, <1>7, <1>8, <1>9 DEF Next

\* The invariant holds in every reachable state.
LEMMA SpecIInv == Spec => []IInv
  BY InitIInv, NextIInv, PTL DEF Spec

-----------------------------------------------------------------------------
(* What the invariant says of the properties.                              *)

\* Types of the rows, the Maps and the nested calls, for any rooms and bounds.
THEOREM TypeCorrect == Spec => []TypeOK
<1>1. IInv => TypeOK
  <2> SUFFICES ASSUME IInv PROVE TypeOK
    OBVIOUS
  <2>1. ASSUME NEW c \in Chains
        PROVE  /\ chains[c].status \in Statuses
               /\ chains[c].status = "none" <=> chains[c].run = None
               /\ chains[c].run # None => IsLinked(chains[c].run)
               /\ activeChains[c] \in {"absent", "live", "stopped"}
               /\ request[c] \in RequestPcs
               /\ exec[c].pc \in ExecPcs
               /\ exec[c].pc # "none" => ToSet(exec[c].stack) \subseteq RunOf(c)
    <3>1. exec[c] \in Calls
      BY DEF IInv, Typed
    <3>2. exec[c].pc \in ExecPcs
      BY <3>1 DEF Calls
    <3>3. exec[c].pc # "none" => ToSet(exec[c].stack) \subseteq RunOf(c)
      BY CallAtWork
    <3> QED BY <3>2, <3>3 DEF IInv, Typed, RowsFit
  <2>2. cancel.pc \in CancelPcs
    BY DEF IInv, Typed
  <2>3. \A k, l \in linked : k.run = l.run => k = l
    BY DEF IInv, RowsFit
  <2>4. /\ recovered \in BOOLEAN /\ viewer \in {"idle", "recovering"}
        /\ agents \subseteq Members /\ abandoned \subseteq Chains
        /\ stops \in 0 .. MaxStops /\ failures \in 0 .. MaxFailures /\ crashes \in 0 .. MaxCrashes
    BY DEF IInv, Typed, BoundsTyped
  <2> QED BY <2>1, <2>2, <2>3, <2>4 DEF TypeOK, RequestPcs, ExecPcs, CancelPcs
<1> QED BY <1>1, SpecIInv, PTL

\* At most one chain of a room is active or being stopped, for any number of
\* messages and retries: tryStart (chat-topic-chain-repository.ts) inserts only
\* where the index finds no other, and no other statement makes a chain active.
THEOREM RoomHasOneActiveChain == Spec => []OneActiveChain
<1>1. IInv => OneActiveChain
  <2> SUFFICES ASSUME IInv PROVE Cardinality(ActiveInRoom) <= 1
    BY DEF OneActiveChain
  <2>1. CASE ActiveInRoom = {}
    BY <2>1, FS_EmptySet
  <2>2. CASE ActiveInRoom # {}
    <3>1. PICK c \in ActiveInRoom : TRUE
      BY <2>2
    <3>2. ActiveInRoom = {c}
      BY <3>1 DEF IInv, RowsFit, ActiveInRoom
    <3>3. Cardinality(ActiveInRoom) = 1
      BY <3>2, FS_Singleton
    <3> QED BY <3>3
  <2> QED BY <2>1, <2>2
<1> QED BY <1>1, SpecIInv, PTL

\* The nested calls of executeTinyOfficeChatRuntimeDecision are of different
\* runs, and each run is linked to one chain.
THEOREM NoRunIsExecutedTwice == Spec => []RunIsExecutedOnce
<1>1. IInv => RunIsExecutedOnce
  <2> SUFFICES ASSUME IInv, NEW c \in Chains, NEW d \in Chains,
                      NEW i \in DOMAIN exec[c].stack, NEW j \in DOMAIN exec[d].stack,
                      exec[c].stack[i] = exec[d].stack[j]
               PROVE  c = d /\ i = j
    BY DEF RunIsExecutedOnce
  <2> DEFINE r == exec[c].stack[i]
  <2>1. exec[c].pc # "none" /\ exec[d].pc # "none"
    BY IdleTyped DEF IInv, CallFits, Shaped
  <2>2. r \in RunOf(c) /\ r \in RunOf(d)
    BY <2>1, CallAtWork DEF ToSet
  <2>3. \A k, l \in linked : k.run = l.run => k = l
    BY DEF IInv, RowsFit
  <2>4. c = d
    BY <2>2, <2>3 DEF RunOf
  <2>5. Distinct(exec[c].stack)
    BY <2>1, CallAtWork
  <2> QED BY <2>4, <2>5 DEF Distinct
<1> QED BY <1>1, SpecIInv, PTL

\* cancelChatRun aborts the session of the holder that the row names, whichever
\* run of the chain the page asked to stop.
THEOREM StopIsAimedAtHolder == Spec => []StopReachesHolder
<1>1. IInv => StopReachesHolder
  BY DEF IInv, CancelFits, StopReachesHolder
<1> QED BY <1>1, SpecIInv, PTL

\* In a process that has recovered the company, the chain that locks the room
\* is one that somebody executes.
THEOREM ActiveChainHasExecution == Spec => []ActiveChainIsExecuted
<1>1. IInv => ActiveChainIsExecuted
  BY DEF IInv
<1> QED BY <1>1, SpecIInv, PTL

\* A chain that was completed without a stop has the replies of all its
\* holders, of the nested calls too.
THEOREM CompletedChainHasReplies == Spec => []CompletedChainIsAnswered
<1>1. IInv => CompletedChainIsAnswered
  BY DEF IInv, CompletedFits, CompletedChainIsAnswered
<1> QED BY <1>1, SpecIInv, PTL
-----------------------------------------------------------------------------
(* What a step does to the rows.                                           *)

\* The row of d is left alone, or was in a state that the step may leave.
RowGoes(d) ==
  \/ chains'[d] = chains[d]
  \/ chains[d].status \in {"none", "active"}
  \/ chains[d].status = "cancel_requested" /\ chains'[d].run = chains[d].run

\* A row goes on as it should in a recovery,
LEMMA RecoveryOfRow ==
  ASSUME IInv, NEW d \in Chains, RecoverInterruptedChains
  PROVE  RowGoes(d)
<1>1. chains'[d] = IF IsActive(d) THEN [chains[d] EXCEPT !.status = "failed"] ELSE chains[d]
  BY DEF RecoverInterruptedChains
<1>2. chains[d] \in [status : Statuses, run : TurnRuns \cup {None}, stop : BOOLEAN]
  BY DEF IInv, Typed
<1> QED BY <1>1, <1>2 DEF RowGoes, IsActive

\* A chain is inserted once: the request that inserts it found no row of it.
LEMMA InsertionOfRow ==
  ASSUME IInv, NEW d \in Chains, NEW c \in Chains, TryStart(c)
  PROVE  RowGoes(d)
<1>1. chains[c].status = "none"
  BY DEF TryStart, RequestAt, IInv, RequestFits
<1>2. chains' = chains \/ \E y : chains' = [chains EXCEPT ![c] = y]
  BY DEF TryStart, InsertChain
<1>3. CASE d = c
  BY <1>1, <1>3 DEF RowGoes
<1>4. CASE d # c
  BY <1>2, <1>4 DEF RowGoes, IInv, Typed
<1> QED BY <1>3, <1>4

\* when the ball is handed over,
LEMMA AdvanceOfRow ==
  ASSUME IInv, NEW d \in Chains, NEW c \in Chains, AdvanceChain(c)
  PROVE  RowGoes(d)
<1>1. CASE MayAdvance(c, Current(c))
  <2>1. chains[c].status = "active"
    BY <1>1 DEF MayAdvance
  <2>2. \E y : chains' = [chains EXCEPT ![c] = y]
    BY <1>1 DEF AdvanceChain, UpdateRun
  <2>3. d # c => chains'[d] = chains[d]
    BY <2>2 DEF IInv, Typed
  <2> QED BY <2>1, <2>3 DEF RowGoes
<1>2. CASE ~MayAdvance(c, Current(c))
  BY <1>2 DEF AdvanceChain, RowGoes
<1> QED BY <1>1, <1>2

\* when the chain ends,
LEMMA FinishOfRow ==
  ASSUME IInv, NEW d \in Chains, NEW c \in Chains, NEW status, Finish(c, status)
  PROVE  RowGoes(d)
<1>1. CASE IsActive(c)
  <2>1. chains' = [chains EXCEPT ![c].status = status]
    BY <1>1 DEF Finish
  <2>2. d # c => chains'[d] = chains[d]
    BY <2>1 DEF IInv, Typed
  <2>3. chains'[c].run = chains[c].run
    BY <2>1 DEF IInv, Typed
  <2> QED BY <1>1, <2>2, <2>3 DEF RowGoes, IsActive
<1>2. CASE ~IsActive(c)
  BY <1>2 DEF Finish, RowGoes
<1> QED BY <1>1, <1>2

\* when a stop is asked for,
LEMMA StopOfRow ==
  ASSUME IInv, NEW d \in Chains, RequestCancel
  PROVE  RowGoes(d)
<1>1. PICK l \in linked :
        IF IsActive(l.chain)
          THEN chains' = [chains EXCEPT ![l.chain].status = "cancel_requested",
                                        ![l.chain].stop = TRUE]
          ELSE chains' = chains
  BY DEF RequestCancel
<1> DEFINE c == l.chain
<1>2. c \in Chains
  BY DEF IInv, Typed
<1> HIDE DEF c
<1>3. CASE IsActive(c)
  <2>1. chains' = [chains EXCEPT ![c].status = "cancel_requested", ![c].stop = TRUE]
    BY <1>1, <1>3 DEF c
  <2>2. d # c => chains'[d] = chains[d]
    BY <1>2, <2>1 DEF IInv, Typed
  <2>3. chains'[c].run = chains[c].run
    BY <1>2, <2>1 DEF IInv, Typed
  <2> QED BY <1>3, <2>2, <2>3 DEF RowGoes, IsActive
<1>4. CASE ~IsActive(c)
  BY <1>1, <1>4 DEF RowGoes, c
<1> QED BY <1>3, <1>4

\* and so in every step.
LEMMA NextRows ==
  ASSUME IInv, [Next]_vars, NEW d \in Chains
  PROVE  RowGoes(d)
<1>1. CASE chains' = chains
  BY <1>1 DEF RowGoes
<1>2. ASSUME NEW c \in Chains, PostMessage(c) \/ RetryChatRun(c)
      PROVE  chains' = chains
  BY <1>2 DEF PostMessage, RetryChatRun, database
<1>3. ASSUME NEW c \in Chains, RequestStep(c)
      PROVE  RowGoes(d)
  <2>1. AssertCanDispatch(c) \/ BeginExecution(c) => chains' = chains
    BY DEF AssertCanDispatch, BeginExecution, database
  <2>2. RecoverForRequest(c) => RowGoes(d)
    BY RecoveryOfRow DEF RecoverForRequest
  <2> QED BY <1>1, <1>3, <2>1, <2>2, InsertionOfRow DEF RequestStep
<1>4. ASSUME NEW c \in Chains, ExecStep(c)
      PROVE  RowGoes(d)
  <2>1. \/ OpenRepository(c) \/ PoolAgent(c) \/ TurnReturns(c) \/ PersistReply(c)
        \/ AfterAdvance(c) \/ Settle(c)
        => chains' = chains
    BY DEF OpenRepository, PoolAgent, TurnReturns, PersistReply, AfterAdvance, Settle, database
  <2>2. FinishChain(c) => RowGoes(d)
    BY FinishOfRow DEF FinishChain
  <2> QED BY <1>1, <1>4, <2>1, <2>2, AdvanceOfRow DEF ExecStep
<1>5. ASSUME NEW c \in Chains, FailingStep(c)
      PROVE  chains' = chains
  BY <1>5 DEF FailingStep, RequestFails, OpenFails, StepThrows, FinishIsSwallowed, database
<1>6. ViewRoom \/ RecoverForViewer => RowGoes(d)
  BY <1>1, RecoveryOfRow DEF ViewRoom, RecoverForViewer, database
<1>7. ASSUME NEW r, CancelChatRun(r)
      PROVE  chains' = chains
  BY <1>7 DEF CancelChatRun, database
<1>8. CancelStep \/ CancelFails => RowGoes(d)
  <2>1. MarkStop \/ SessionAborted \/ CancelFails => chains' = chains
    BY DEF MarkStop, SessionAborted, CancelFails, database
  <2>2. FinishCanceled => RowGoes(d)
    <3> SUFFICES ASSUME FinishCanceled PROVE RowGoes(d)
      OBVIOUS
    <3>1. cancel.chain \in Chains
      BY DEF FinishCanceled, IInv, Typed, CancelFits
    <3> QED BY <3>1, FinishOfRow DEF FinishCanceled
  <2> QED BY <1>1, <2>1, <2>2, StopOfRow DEF CancelStep
<1>9. Crash \/ UNCHANGED vars => chains' = chains
  BY DEF Crash, vars, database
<1> QED BY <1>1, <1>2, <1>3, <1>4, <1>5, <1>6, <1>7, <1>8, <1>9 DEF Next

\* The execution, the stop and two recoveries finish a chain independently of
\* each other: the first of them decides (the WHERE clauses of finish and of
\* recoverInterruptedChains).
THEOREM EndOfChainIsFinal == Spec => EndedChainIsFinal
<1>1. IInv /\ [Next]_vars =>
        [\A c \in Chains :
           chains[c].status \in {"completed", "canceled", "failed"} => chains'[c] = chains[c]]_vars
  BY NextRows DEF RowGoes
<1> QED BY <1>1, SpecIInv, PTL DEF Spec, EndedChainIsFinal

\* A committed stop wins over an advance that comes later: advance asks for
\* status 'active' in its UPDATE, so the ball stays where the stop found it.
THEOREM NoTransferAfterStop == Spec => StopPreventsTransfer
<1>1. IInv /\ [Next]_vars =>
        [\A c \in Chains :
           chains[c].status \notin {"none", "active"} => chains'[c].run = chains[c].run]_vars
  BY NextRows DEF RowGoes
<1> QED BY <1>1, SpecIInv, PTL DEF Spec, StopPreventsTransfer

=============================================================================
