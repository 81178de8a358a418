---------------------------- MODULE ChatTopicChain ----------------------------
(***************************************************************************)
(* The turns of a Chat Topic room: who holds the "ball"                    *)
(* (tinyoffice-chat-runtime-dispatch.ts), the durable chain record         *)
(* (chat-topic-chain-repository.ts), the choice of the first holder        *)
(* (tinyoffice-chat-dispatch-decision.ts), the handoff that a turn ends    *)
(* with (tinyoffice-chat-natural-language-execution.ts), and the reply     *)
(* (tinyoffice-chat-reply-persistence.ts).                                 *)
(*                                                                         *)
(* A user message starts a chain; the holder replies and hands over to     *)
(* another member, whose turn is a nested call of the same function, or    *)
(* gives the ball back.  Stop requests, other messages and the pages that  *)
(* look for the active run interleave at every await.  The chain rows are  *)
(* in PostgreSQL; activeRuns, activeChains and recoveredCompanies are Maps *)
(* of the process.  One step is one SQL statement, or what happens between *)
(* two awaits.  One room of one company; its direct rooms have no chain.   *)
(***************************************************************************)
EXTENDS Naturals, Sequences, SequencesExt, FiniteSets

CONSTANTS
  Messages,     \* messages of users in the room
  Members,      \* the runtime-capable participants
  MaxAttempts,  \* bound: a message is dispatched this often, retries included
  MaxRequests,  \* bound: messages and retries together
  MaxTurns,     \* bound: turns of a chain (the code has no limit)
  MaxStops,     \* bound: stop requests
  MaxFailures,  \* bound: statements that fail
  MaxCrashes,   \* bound: the process dies this often
  None

ASSUME BoundsAssumption ==
  /\ MaxAttempts \in Nat \ {0} /\ MaxRequests \in Nat /\ MaxTurns \in Nat \ {0}
  /\ MaxStops \in Nat /\ MaxFailures \in Nat /\ MaxCrashes \in Nat

\* buildTinyOfficeChatTurnChainId: attempt 0 is the message itself, the others
\* are its retries.
Chains == [msg : Messages, attempt : 0 .. MaxAttempts - 1]

\* A turn: the message it answers, the member, the attempt.
TurnRuns == [msg : Seq(Messages \cup Members), member : Members, attempt : Nat]

ASSUME NoneAssumption == None \notin Chains \cup TurnRuns \cup {"completed", "canceled", "failed"}

VARIABLES
  chains,       \* chat_topic_chains: status, current_run_id, and whether it
                \* has a cancel_requested_at
  linked,       \* chat_topic_chain_runs, keyed by run
  replies,      \* replies in conversation_messages
  recovered,    \* recoveredCompanies has the company
  activeRuns,   \* keys of the Map activeRuns
  stopped,      \* runs whose object in it has cancelRequested
  activeChains, \* the Map activeChains: "absent", "live" or "stopped"
  agents,       \* members with a session of this room in the provider's pool
  request,      \* how far the dispatch of a chain has got
  exec,         \* the nested calls of executeTinyOfficeChatRuntimeDecision
  cancel,       \* the call of cancelChatRun
  viewer,       \* the call of getActiveChatRun
  abandoned,    \* history: chains that a failure left without anybody to end them
  stops, failures, crashes

database == <<chains, linked, replies>>
process == <<recovered, activeRuns, stopped, activeChains, agents>>
budget == <<abandoned, stops, failures, crashes>>
vars == <<database, process, request, exec, cancel, viewer, budget>>

-----------------------------------------------------------------------------
(* Messages and runs.  A message is the sequence that led to it: a user    *)
(* message is <<m>>, the reply to x by e is Append(x, e), since the reply's *)
(* idempotency key names the message and the member but not the attempt.   *)

Reply(r) == Append(r.msg, r.member)

\* buildTinyOfficeChatTurnDispatchEventKey.
FirstRun(c, e) == [msg |-> <<c.msg>>, member |-> e, attempt |-> c.attempt]
NextRun(r, e) == [msg |-> Reply(r), member |-> e, attempt |-> 0]

IsActive(c) == chains[c].status \in {"active", "cancel_requested"}
ActiveInRoom == {c \in Chains : IsActive(c)}

-----------------------------------------------------------------------------
(* The statements of PostgresChatTopicChainRepository.                     *)

\* Mutant: a chain whose stop was requested is not recovered.
RecoverInterruptedChains_Active ==
  chains' = [c \in Chains |->
    IF chains[c].status = "active" THEN [chains[c] EXCEPT !.status = "failed"] ELSE chains[c]]

RecoverInterruptedChains ==
  chains' = [c \in Chains |->
    IF IsActive(c) THEN [chains[c] EXCEPT !.status = "failed"] ELSE chains[c]]

\* Mutant: the partial unique index does not cover cancel_requested.
RoomIsFree_Active == \A c \in Chains : chains[c].status # "active"

\* The unique index over the active chains of a room.
RoomIsFree == ActiveInRoom = {}

InsertChain(c, r) ==
  /\ chains' = [chains EXCEPT ![c] = [status |-> "active", run |-> r, stop |-> FALSE]]
  /\ linked' = linked \cup {[run |-> r, chain |-> c]}

RunOf(c) == {l.run : l \in {k \in linked : k.chain = c}}

IsLinked(r) == \E l \in linked : l.run = r

\* Mutant: the status of the chain is not asked.
MayAdvance_AnyStatus(c, r) == chains[c].run = r

MayAdvance(c, r) == chains[c].status = "active" /\ chains[c].run = r

\* Mutant: as in InMemoryChatTopicChainRepository, a known run is linked anew.
Advances_Relink(c, r) == TRUE

\* ON CONFLICT (company_id, run_id) DO NOTHING: the chain is updated, but the
\* caller gets no row for a run that some chain had already.
Advances(c, r) == ~IsLinked(r)

UpdateRun(c, r) ==
  /\ chains' = [chains EXCEPT ![c].run = r]
  /\ linked' = IF IsLinked(r) THEN linked ELSE linked \cup {[run |-> r, chain |-> c]}

\* Mutant: a finished chain may be finished again.
Finish_Again(c, status) == chains' = [chains EXCEPT ![c].status = status]

Finish(c, status) ==
  chains' = IF IsActive(c) THEN [chains EXCEPT ![c].status = status] ELSE chains

-----------------------------------------------------------------------------
(* From the request to the chain: assertCanDispatch, then the message is   *)
(* saved, then handleChatDispatchEvent.  recoveredCompanies is read before *)
(* the recovery and written after it.                                      *)

RequestAt(c, pc) == request[c] = pc
RequestGoes(c, pc) == request' = [request EXCEPT ![c] = pc]

AfterRecovery(c) == IF c.attempt = 0 THEN "asserting" ELSE "starting"

IsAdmitted == Cardinality({c \in Chains : request[c] # "none"}) < MaxRequests

PostMessage(c) ==
  /\ c.attempt = 0 /\ IsAdmitted
  /\ RequestAt(c, "none")
  /\ RequestGoes(c, IF recovered THEN AfterRecovery(c) ELSE "recovering")
  /\ UNCHANGED <<database, process, exec, cancel, viewer, budget>>

\* retryChatRun: the message exists; nothing asks whether the room is free.
RetryChatRun(c) ==
  /\ c.attempt > 0 /\ IsAdmitted
  /\ RequestAt(c, "none")
  /\ request[[c EXCEPT !.attempt = @ - 1]] = "sent"
  /\ RequestGoes(c, IF recovered THEN AfterRecovery(c) ELSE "recovering")
  /\ UNCHANGED <<database, process, exec, cancel, viewer, budget>>

RecoverForRequest(c) ==
  /\ RequestAt(c, "recovering")
  /\ RecoverInterruptedChains
  /\ recovered' = TRUE
  /\ RequestGoes(c, AfterRecovery(c))
  /\ UNCHANGED <<linked, replies, activeRuns, stopped, activeChains, agents>>
  /\ UNCHANGED <<exec, cancel, viewer, budget>>

\* findActiveByRoom, and sendMessage when the room is free.
AssertCanDispatch(c) ==
  /\ RequestAt(c, "asserting")
  /\ RequestGoes(c, IF RoomIsFree THEN "starting" ELSE "refused")
  /\ UNCHANGED <<database, process, exec, cancel, viewer, budget>>

TryStart(c) ==
  /\ RequestAt(c, "starting")
  /\ \E e \in Members :
       IF RoomIsFree
       THEN InsertChain(c, FirstRun(c, e)) /\ RequestGoes(c, "started")
       ELSE RequestGoes(c, "sent") /\ UNCHANGED <<chains, linked>>
  /\ UNCHANGED <<replies, process, exec, cancel, viewer, budget>>

Idle == [pc |-> "none", stack |-> <<>>, next |-> None, outcome |-> None]

\* The activeChains and activeRuns entries, and the call up to its first await.
BeginExecution(c) ==
  /\ RequestAt(c, "started")
  /\ RequestGoes(c, "sent")
  /\ activeChains' = [activeChains EXCEPT ![c] = "live"]
  /\ activeRuns' = activeRuns \cup {chains[c].run}
  /\ exec' = [exec EXCEPT ![c] = [Idle EXCEPT !.pc = "opening", !.stack = <<chains[c].run>>]]
  /\ UNCHANGED <<database, recovered, stopped, agents, cancel, viewer, budget>>

RequestFails(c) ==
  /\ failures < MaxFailures
  /\ request[c] \in {"recovering", "asserting", "starting"}
  /\ RequestGoes(c, IF c.attempt = 0 /\ request[c] # "starting" THEN "refused" ELSE "sent")
  /\ failures' = failures + 1
  /\ UNCHANGED <<database, process, exec, cancel, viewer, abandoned, stops, crashes>>

-----------------------------------------------------------------------------
(* getActiveChatRun: only its recovery changes anything.                   *)

ViewRoom ==
  /\ viewer = "idle" /\ ~recovered
  /\ viewer' = "recovering"
  /\ UNCHANGED <<database, process, request, exec, cancel, budget>>

RecoverForViewer ==
  /\ viewer = "recovering"
  /\ viewer' = "idle"
  /\ RecoverInterruptedChains
  /\ recovered' = TRUE
  /\ UNCHANGED <<linked, replies, activeRuns, stopped, activeChains, agents>>
  /\ UNCHANGED <<request, exec, cancel, budget>>

-----------------------------------------------------------------------------
(* executeTinyOfficeChatRuntimeDecision.  stack: the runs of the nested    *)
(* calls, the last one is at work.                                         *)

At(c, pc) == exec[c].pc = pc
Goto(c, pc) == exec' = [exec EXCEPT ![c].pc = pc]
Current(c) == Last(exec[c].stack)

\* chatExecutionCanceled.
Canceled(c, r) == r \in stopped \/ activeChains[c] = "stopped"

\* Where the catch block of the last call of a stack leads.
Caught(c, stack) ==
  [pc |-> "closing", stack |-> stack, next |-> None,
   outcome |-> IF Canceled(c, Last(stack)) THEN "canceled" ELSE "failed"]

OpenRepository(c) ==
  /\ At(c, "opening")
  /\ Goto(c, "turn")
  /\ UNCHANGED <<database, process, request, cancel, viewer, budget>>

\* Outside the try block: the first call throws to its caller, and nobody
\* finishes the chain; a nested one throws into the try block of its caller.
OpenFails(c) ==
  /\ At(c, "opening")
  /\ failures < MaxFailures
  /\ failures' = failures + 1
  /\ exec' = [exec EXCEPT ![c] =
       IF Len(@.stack) = 1 THEN Idle ELSE Caught(c, Front(@.stack))]
  /\ abandoned' = IF Len(exec[c].stack) = 1 THEN abandoned \cup {c} ELSE abandoned
  /\ UNCHANGED <<database, process, request, cancel, viewer, stops, crashes>>

\* getOrCreate, when the turn gets as far as the provider.  The session stays in
\* the pool when the turn is over.
PoolAgent(c) ==
  /\ At(c, "turn")
  /\ Current(c).member \notin agents
  /\ agents' = agents \cup {Current(c).member}
  /\ UNCHANGED <<database, recovered, activeRuns, stopped, activeChains>>
  /\ UNCHANGED <<request, exec, cancel, viewer, budget>>

TurnReturns(c) ==
  /\ At(c, "turn")
  /\ Current(c).member \in agents
  /\ exec' = [exec EXCEPT ![c] =
       IF Canceled(c, Current(c))
       THEN [@ EXCEPT !.pc = "finishing", !.outcome = "canceled"]
       ELSE [@ EXCEPT !.pc = "persisting"]]
  /\ UNCHANGED <<database, process, request, cancel, viewer, budget>>

\* persistTinyOfficeChatNaturalLanguageReply, the second look at the stop, and
\* buildTinyOfficeChatStructuredHandoffDispatch.
PersistReply(c) ==
  LET r == Current(c) IN
  /\ At(c, "persisting")
  /\ replies' = replies \cup {Reply(r)}
  /\ IF Canceled(c, r)
     THEN exec' = [exec EXCEPT ![c].pc = "finishing", ![c].outcome = "canceled"]
     ELSE \/ Goto(c, "settling")
          \/ \E e \in Members \ {r.member} :
               /\ Len(exec[c].stack) < MaxTurns
               /\ exec' = [exec EXCEPT ![c].pc = "advancing", ![c].next = NextRun(r, e)]
  /\ UNCHANGED <<chains, linked, process, request, cancel, viewer, budget>>

AdvanceChain(c) ==
  LET next == exec[c].next IN
  /\ At(c, "advancing")
  /\ IF MayAdvance(c, Current(c))
     THEN /\ UpdateRun(c, next)
          /\ exec' = [exec EXCEPT ![c].pc = "advanced",
                                  ![c].next = IF Advances(c, next) THEN next ELSE None]
     ELSE /\ exec' = [exec EXCEPT ![c].pc = "advanced", ![c].next = None]
          /\ UNCHANGED <<chains, linked>>
  /\ UNCHANGED <<replies, process, request, cancel, viewer, budget>>

\* ensureActiveChatRun for the next holder, unless the stop came in between.
AfterAdvance(c) ==
  LET next == exec[c].next IN
  /\ At(c, "advanced")
  /\ IF next # None /\ activeChains[c] = "live"
     THEN Goto(c, "settling") /\ activeRuns' = activeRuns \cup {next}
     ELSE exec' = [exec EXCEPT ![c].pc = "settling", ![c].next = None] /\ UNCHANGED activeRuns
  /\ UNCHANGED <<database, recovered, stopped, activeChains, agents>>
  /\ UNCHANGED <<request, cancel, viewer, budget>>

\* Mutant: the chain is completed once it was handed over.
Settle_HandedOver(c) ==
  /\ At(c, "settling")
  /\ exec' = [exec EXCEPT ![c] = [@ EXCEPT !.pc = "finishing", !.outcome = "completed"]]
  /\ UNCHANGED <<database, process, request, cancel, viewer, budget>>

\* The reply is recorded; then the next holder's call, whose
\* ensureActiveChatRun makes a new object if a stop removed the first one.
Settle(c) ==
  LET next == exec[c].next IN
  /\ At(c, "settling")
  /\ IF next = None
     THEN /\ exec' = [exec EXCEPT ![c].pc = "finishing", ![c].outcome = "completed"]
          /\ UNCHANGED <<activeRuns, stopped>>
     ELSE /\ exec' = [exec EXCEPT ![c] =
                        [Idle EXCEPT !.pc = "opening", !.stack = Append(exec[c].stack, next)]]
          /\ activeRuns' = activeRuns \cup {next}
          /\ stopped' = IF next \in activeRuns THEN stopped ELSE stopped \ {next}
  /\ UNCHANGED <<database, recovered, activeChains, agents>>
  /\ UNCHANGED <<request, cancel, viewer, budget>>

\* The provider throws, or a statement fails: the catch block.
StepThrows(c) ==
  /\ exec[c].pc \in {"turn", "persisting", "advancing", "settling", "finishing"}
  /\ IF At(c, "turn")
     THEN UNCHANGED failures
     ELSE failures < MaxFailures /\ failures' = failures + 1
  /\ exec' = [exec EXCEPT ![c] = Caught(c, @.stack)]
  /\ UNCHANGED <<database, process, request, cancel, viewer, abandoned, stops, crashes>>

\* activeChains.delete, and the finally block of every call.  Nobody reads the
\* objects of its runs any more.
Release(c) ==
  /\ activeChains' = [activeChains EXCEPT ![c] = "absent"]
  /\ activeRuns' = activeRuns \ ToSet(exec[c].stack)
  /\ stopped' = stopped \ ToSet(exec[c].stack)
  /\ exec' = [exec EXCEPT ![c] = Idle]

FinishChain(c) ==
  /\ exec[c].pc \in {"finishing", "closing"}
  /\ Finish(c, exec[c].outcome)
  /\ Release(c)
  /\ UNCHANGED <<linked, replies, recovered, agents>>
  /\ UNCHANGED <<request, cancel, viewer, budget>>

\* In the catch block a failing finish is swallowed.
FinishIsSwallowed(c) ==
  /\ At(c, "closing")
  /\ failures < MaxFailures
  /\ failures' = failures + 1
  /\ abandoned' = abandoned \cup {c}
  /\ Release(c)
  /\ UNCHANGED <<database, recovered, agents, request, cancel, viewer, stops, crashes>>

-----------------------------------------------------------------------------
(* cancelChatRun, for one request at a time.  It may name any run of the   *)
(* chain that a page still shows; for the runs of an ended chain that left *)
(* activeRuns it does nothing.                                             *)

NoCancel == [pc |-> "idle", run |-> None, requested |-> FALSE, chain |-> None]

CancelChatRun(r) ==
  /\ cancel.pc = "idle"
  /\ stops < MaxStops
  /\ stops' = stops + 1
  /\ r \in activeRuns \/ \E c \in ActiveInRoom : r \in RunOf(c)
  /\ cancel' = [pc |-> IF IsLinked(r) THEN "requesting" ELSE "marking",
                run |-> r, requested |-> r \in activeRuns, chain |-> None]
  /\ UNCHANGED <<database, process, request, exec, viewer, abandoned, failures, crashes>>

RequestCancel ==
  /\ cancel.pc = "requesting"
  /\ \E l \in linked :
       /\ l.run = cancel.run
       /\ IF IsActive(l.chain)
          THEN /\ chains' = [chains EXCEPT ![l.chain].status = "cancel_requested",
                                      ![l.chain].stop = TRUE]
               /\ cancel' = [cancel EXCEPT !.pc = "marking", !.chain = l.chain]
          ELSE cancel' = [cancel EXCEPT !.pc = "marking"] /\ UNCHANGED chains
  /\ UNCHANGED <<linked, replies, process, request, exec, viewer, budget>>

\* Mutant: the stop goes to the run that the page named.
StopTarget_Named ==
  IF cancel.requested THEN cancel.run ELSE None

\* The run to stop: the current one of a chain that this process executes, or
\* the one the request named.
StopTarget ==
  IF cancel.chain # None /\ activeChains[cancel.chain] # "absent"
  THEN IF chains[cancel.chain].run \in activeRuns THEN chains[cancel.chain].run ELSE None
  ELSE IF cancel.requested THEN cancel.run ELSE None

\* Flags in memory, then abortChatRuntime, which counts the pooled session of
\* the target's member whether or not it is at work.
MarkStop ==
  LET c == cancel.chain
      isLive == c # None /\ activeChains[c] # "absent"
      target == StopTarget
  IN
  /\ cancel.pc = "marking"
  /\ activeChains' = IF isLive THEN [activeChains EXCEPT ![c] = "stopped"] ELSE activeChains
  /\ stopped' = IF target # None THEN stopped \cup {target} ELSE stopped
  /\ cancel' = IF target # None /\ target.member \in agents
               THEN [cancel EXCEPT !.pc = "aborting", !.run = target,
                                   !.chain = IF isLive THEN c ELSE None]
               ELSE NoCancel
  /\ UNCHANGED <<database, recovered, activeRuns, agents>>
  /\ UNCHANGED <<request, exec, viewer, budget>>

SessionAborted ==
  /\ cancel.pc = "aborting"
  /\ activeRuns' = activeRuns \ {cancel.run}
  /\ cancel' = IF cancel.chain = None THEN NoCancel ELSE [cancel EXCEPT !.pc = "finishing"]
  /\ UNCHANGED <<database, recovered, stopped, activeChains, agents>>
  /\ UNCHANGED <<request, exec, viewer, budget>>

FinishCanceled ==
  /\ cancel.pc = "finishing"
  /\ Finish(cancel.chain, "canceled")
  /\ activeChains' = [activeChains EXCEPT ![cancel.chain] = "absent"]
  /\ cancel' = NoCancel
  /\ UNCHANGED <<linked, replies, recovered, activeRuns, stopped, agents>>
  /\ UNCHANGED <<request, exec, viewer, budget>>

CancelFails ==
  /\ cancel.pc \in {"requesting", "finishing"}
  /\ failures < MaxFailures
  /\ failures' = failures + 1
  /\ cancel' = NoCancel
  /\ UNCHANGED <<database, process, request, exec, viewer, abandoned, stops, crashes>>

-----------------------------------------------------------------------------
\* The process dies: the Maps and the calls are gone, the rows stay.
Crash ==
  /\ crashes < MaxCrashes
  /\ crashes' = crashes + 1
  /\ recovered' = FALSE /\ activeRuns' = {} /\ stopped' = {} /\ agents' = {}
  /\ activeChains' = [c \in Chains |-> "absent"]
  /\ exec' = [c \in Chains |-> Idle]
  /\ cancel' = NoCancel /\ viewer' = "idle"
  /\ request' = [c \in Chains |->
       CASE request[c] \in {"starting", "started"} -> "sent"
         [] request[c] \in {"recovering", "asserting"} ->
              IF c.attempt = 0 THEN "refused" ELSE "sent"
         [] OTHER -> request[c]]
  /\ UNCHANGED <<database, abandoned, stops, failures>>

Init ==
  /\ chains = [c \in Chains |-> [status |-> "none", run |-> None, stop |-> FALSE]]
  /\ linked = {} /\ replies = {}
  /\ recovered = FALSE /\ activeRuns = {} /\ stopped = {} /\ agents = {}
  /\ activeChains = [c \in Chains |-> "absent"]
  /\ request = [c \in Chains |-> "none"]
  /\ exec = [c \in Chains |-> Idle]
  /\ cancel = NoCancel /\ viewer = "idle"
  /\ abandoned = {} /\ stops = 0 /\ failures = 0 /\ crashes = 0

RequestStep(c) == RecoverForRequest(c) \/ AssertCanDispatch(c) \/ TryStart(c) \/ BeginExecution(c)

ExecStep(c) ==
  \/ OpenRepository(c) \/ PoolAgent(c) \/ TurnReturns(c) \/ PersistReply(c) \/ AdvanceChain(c)
  \/ AfterAdvance(c) \/ Settle(c) \/ FinishChain(c)

FailingStep(c) == RequestFails(c) \/ OpenFails(c) \/ StepThrows(c) \/ FinishIsSwallowed(c)

CancelStep == RequestCancel \/ MarkStop \/ SessionAborted \/ FinishCanceled

Next ==
  \/ \E c \in Chains : PostMessage(c) \/ RetryChatRun(c)
  \/ \E c \in Chains : RequestStep(c) \/ ExecStep(c) \/ FailingStep(c)
  \/ ViewRoom \/ RecoverForViewer
  \/ \E r \in activeRuns \cup {l.run : l \in linked} : CancelChatRun(r)
  \/ CancelStep \/ CancelFails
  \/ Crash

\* Promises are resolved, the provider answers or throws, and somebody has the
\* room open after a restart.
Fairness ==
  /\ \A c \in Chains : WF_vars(RequestStep(c)) /\ WF_vars(ExecStep(c))
  /\ WF_vars(ViewRoom) /\ WF_vars(RecoverForViewer)
  /\ WF_vars(CancelStep)

Spec == Init /\ [][Next]_vars /\ Fairness

-----------------------------------------------------------------------------
(* Properties.                                                             *)

Statuses == {"none", "active", "cancel_requested", "completed", "canceled", "failed"}

\* Types: the rows, the Maps and the calls have the shapes the code gives
\* them, and the current run of a chain has its row in chat_topic_chain_runs
\* unless that row belongs to another chain.
TypeOK ==
  /\ \A c \in Chains :
       /\ chains[c].status \in Statuses
       /\ chains[c].status = "none" <=> chains[c].run = None
       /\ chains[c].run # None => IsLinked(chains[c].run)
       /\ activeChains[c] \in {"absent", "live", "stopped"}
       /\ request[c] \in {"none", "recovering", "asserting", "starting", "started", "sent", "refused"}
       /\ exec[c].pc \in {"none", "opening", "turn", "persisting", "advancing",
                          "advanced", "settling", "finishing", "closing"}
       /\ exec[c].pc # "none" => ToSet(exec[c].stack) \subseteq RunOf(c)
  /\ \A k, l \in linked : k.run = l.run => k = l
  /\ recovered \in BOOLEAN /\ viewer \in {"idle", "recovering"}
  /\ cancel.pc \in {"idle", "requesting", "marking", "aborting", "finishing"}
  /\ agents \subseteq Members /\ abandoned \subseteq Chains
  /\ stops \in 0 .. MaxStops /\ failures \in 0 .. MaxFailures /\ crashes \in 0 .. MaxCrashes

\* A room has one chain that is active or being stopped, however its messages,
\* retries, recoveries and stops interleave (the partial unique index).
OneActiveChain == Cardinality(ActiveInRoom) <= 1

\* A chain that ended keeps the status it ended with, although the execution,
\* the stop request and two recoveries finish it independently of each other.
EndedChainIsFinal ==
  [][\A c \in Chains :
       chains[c].status \in {"completed", "canceled", "failed"} => chains'[c] = chains[c]]_vars

\* Once a stop is committed, or the chain ended, the ball is not passed on:
\* the current run and holder of the chain stay what they were.
StopPreventsTransfer ==
  [][\A c \in Chains :
       chains[c].status \notin {"none", "active"} => chains'[c].run = chains[c].run]_vars

\* A run is executed in one chain, once: also when a retry leads to a reply
\* and a handoff that an earlier attempt had already made.
RunIsExecutedOnce ==
  \A c, d \in Chains :
    \A i \in DOMAIN exec[c].stack, j \in DOMAIN exec[d].stack :
      exec[c].stack[i] = exec[d].stack[j] => c = d /\ i = j

\* A stop that names an older run of a chain is aimed at the current holder.
StopReachesHolder ==
  cancel.pc = "aborting" /\ cancel.chain # None =>
    cancel.run = chains[cancel.chain].run

\* In a process that has recovered the company, an active chain is one that a
\* call is about to execute or executes: the room is not kept locked by a chain
\* nobody works on, unless opening the repository of the first turn or the
\* finish of a failed turn failed.
ActiveChainIsExecuted ==
  recovered =>
    \A c \in ActiveInRoom \ abandoned : request[c] = "started" \/ exec[c].pc # "none"

\* A chain that completed without a stop had the reply of each of its holders
\* posted: completing it, handing it on and posting are separate writes.
CompletedChainIsAnswered ==
  \A c \in Chains :
    chains[c].status = "completed" /\ ~chains[c].stop =>
      \A r \in RunOf(c) : Reply(r) \in replies

\* The user gets the ball back: an active chain ends, also when a statement
\* failed, it was stopped or the process died, with the same two exceptions.
RoomIsReleased ==
  \A c \in Chains : IsActive(c) ~> (~IsActive(c) \/ c \in abandoned)

\* docs/technical/topic-handoff.md says of cancellation that it "suppresses
\* late provider output": after a stop was answered, no turn of the chain that
\* ends later has its reply posted.
StopSuppressesLateReplies ==
  [][\A c \in Chains :
       /\ cancel.pc = "idle"
       /\ chains[c].status \in {"cancel_requested", "canceled"}
       /\ At(c, "turn")
       => exec'[c].pc # "persisting"]_vars

\* docs/product/topic-handoff.md: "one Topic never has two active holders".
OneActiveHolder ==
  Cardinality({c \in Chains : At(c, "turn") /\ ~Canceled(c, Current(c))}) <= 1

\* docs/product/topic-handoff.md: "A user message always gives the ball to
\* exactly one runtime-capable Channel participant".
MessageGetsTheBall ==
  [][\A c \in Chains :
       request[c] = "starting" /\ request'[c] = "sent"
       => crashes' # crashes \/ failures' # failures]_vars
=============================================================================
