-------------------------- MODULE ProcessTraceWriter --------------------------
(***************************************************************************)
(* ProcessTraceEvidenceWriter of runtime/realtime/process-trace-store.ts:  *)
(* the observations of a company's chat runs wait in a queue, a timer or a *)
(* drain cuts batches off it, and a chain of promises stores one batch     *)
(* after the other, each with a few attempts.  The run numbers its         *)
(* observations; after a batch is stored the clients learn, per run,       *)
(* through which number it is stored (chat.activity.persisted).            *)
(*                                                                         *)
(* An observation is the pair of its run and its number: the identifiers   *)
(* the code makes up are distinct.  What it contains is left out.          *)
(***************************************************************************)
EXTENDS Integers, Sequences, SequencesExt, FiniteSets

CONSTANTS
  Runs,         \* the chat runs of the company that share the writer
  MaxEvents,    \* bound: the observations of a run
  BatchSize,    \* PROCESS_TRACE_BATCH_SIZE
  Capacity,     \* PROCESS_TRACE_QUEUE_CAPACITY
  Attempts,     \* PROCESS_TRACE_PERSIST_ATTEMPTS
  MaxCrashes    \* bound: 1 when the process may die

ASSUME WriterAssumption ==
  /\ MaxEvents \in Nat /\ MaxCrashes \in 0 .. 1
  /\ BatchSize \in Nat \ {0} /\ Capacity \in Nat \ {0} /\ Attempts \in Nat \ {0}

VARIABLES
  sequence,   \* of each run: the number of its last observation
  queue,      \* observations that wait for a batch
  timer,      \* TRUE while a flush is scheduled
  chain,      \* batches that wait for their turn; the first is being stored
  attempt,    \* which attempt to store the first batch this is
  rows,       \* observations in process_trace_events
  persisted,  \* observations whose publisher was told that they are stored
  failed,     \* observations that were refused or given up
  watermark,  \* of each run: the greatest persistedThroughSequence clients got
  drain,      \* how far the drain at the end of the server is
  awaited,    \* batches the drain still waits for
  due,        \* history: what was accepted and unsettled when the drain began
  alive       \* FALSE when the process has ended

vars == <<sequence, queue, timer, chain, attempt, rows, persisted, failed,
          watermark, drain, awaited, due, alive>>

Events == {<<r, n>> : r \in Runs, n \in 1 .. MaxEvents}
NumberOf(e) == e[2]

Published == {e \in Events : NumberOf(e) <= sequence[e[1]]}
InChain == UNION {ToSet(chain[i]) : i \in DOMAIN chain}
Unsettled == ToSet(queue) \cup InChain
Settled == persisted \cup failed

Init ==
  /\ sequence = [r \in Runs |-> 0]
  /\ queue = <<>> /\ timer = FALSE
  /\ chain = <<>> /\ attempt = 1
  /\ rows = {} /\ persisted = {} /\ failed = {}
  /\ watermark = [r \in Runs |-> 0]
  /\ drain = "open" /\ awaited = 0 /\ due = {}
  /\ alive = TRUE

-------------------------------------------------------------------------------
(* The writer. *)

\* Mutant: A comparison with > lets the queue hold one more.
IsFull_OffByOne == Len(queue) > Capacity

IsFull == Len(queue) >= Capacity

\* publishChatActivityTrace numbers the observation and enqueues it in one go.
\* A full queue refuses it; else a flush is scheduled if none was.
Publish(r) ==
  LET e == <<r, sequence[r] + 1>> IN
  /\ sequence[r] < MaxEvents
  /\ sequence' = [sequence EXCEPT ![r] = @ + 1]
  /\ IF IsFull THEN failed' = failed \cup {e} /\ UNCHANGED <<queue, timer>>
     ELSE /\ queue' = Append(queue, e)
          /\ timer' = TRUE
          /\ UNCHANGED failed
  /\ UNCHANGED <<chain, attempt, rows, persisted, watermark, drain, awaited,
                 due, alive>>

\* Mutant: splice takes the newest observations instead of the oldest.
Flushed_Newest ==
  LET n == IF Len(queue) < BatchSize THEN Len(queue) ELSE BatchSize
      kept == Len(queue) - n IN
  [queue |-> SubSeq(queue, 1, kept),
   chain |-> IF n = 0 THEN chain ELSE Append(chain, SubSeq(queue, kept + 1, Len(queue)))]

\* queueFlush: one batch leaves the front of the queue for the end of the chain.
Flushed ==
  LET n == IF Len(queue) < BatchSize THEN Len(queue) ELSE BatchSize IN
  [queue |-> SubSeq(queue, n + 1, Len(queue)),
   chain |-> IF n = 0 THEN chain ELSE Append(chain, SubSeq(queue, 1, n))]

FlushTimer ==
  /\ timer
  /\ timer' = FALSE
  /\ queue' = Flushed.queue /\ chain' = Flushed.chain
  /\ UNCHANGED <<sequence, attempt, rows, persisted, failed, watermark, drain,
                 awaited, due, alive>>

\* Mutant: The finally of a batch does not schedule the next flush.
Rescheduled_Not == timer

\* Whether a flush is scheduled when a batch is done.
Rescheduled == timer \/ queue # <<>>

\* The finally of a batch: the next one has its turn, and a drain that waits
\* for this batch has one less to wait for.
BatchDone ==
  /\ chain' = Tail(chain)
  /\ attempt' = 1
  /\ timer' = Rescheduled
  /\ awaited' = IF awaited = 0 THEN 0 ELSE awaited - 1

\* The numbers that clients hold after onPersisted of all events of a batch:
\* a client ignores what does not exceed its number.
Raised(batch) ==
  [r \in Runs |-> Max({watermark[r]} \cup {NumberOf(e) : e \in {x \in batch : x[1] = r}})]

PersistBatch ==
  /\ chain # <<>>
  /\ LET batch == ToSet(Head(chain)) IN
     /\ rows' = rows \cup batch
     /\ persisted' = persisted \cup batch
     /\ watermark' = Raised(batch)
  /\ BatchDone
  /\ UNCHANGED <<sequence, queue, failed, drain, due, alive>>

\* An attempt fails, with its rows stored (the answer was lost) or without.
\* Storing them again replaces them: INSERT ... ON CONFLICT DO UPDATE.
PersistFails ==
  /\ chain # <<>>
  /\ rows' \in {rows, rows \cup ToSet(Head(chain))}
  /\ IF attempt < Attempts
     THEN attempt' = attempt + 1 /\ UNCHANGED <<chain, timer, awaited, failed>>
     ELSE failed' = failed \cup ToSet(Head(chain)) /\ BatchDone
  /\ UNCHANGED <<sequence, queue, persisted, watermark, drain, due, alive>>

-------------------------------------------------------------------------------
(* The end of the server: server.close drains the writer, then it exits. *)

\* Mutant: drain returns when the queue is empty, without the last await.
DrainTurn_LastAwaitMissing ==
  /\ drain' = IF queue = <<>> THEN "finishing" ELSE "flushing"
  /\ queue' = Flushed.queue /\ chain' = Flushed.chain
  /\ awaited' = IF queue = <<>> THEN 0 ELSE Len(chain')

\* One turn of drain: while the queue is not empty, cut a batch off and await
\* the chain as it stands; then await it once more.
DrainTurn ==
  /\ drain' = IF queue = <<>> THEN "finishing" ELSE "flushing"
  /\ queue' = Flushed.queue /\ chain' = Flushed.chain
  /\ awaited' = Len(chain')

StartDrain ==
  /\ drain = "open"
  /\ due' = Unsettled
  /\ timer' = FALSE
  /\ DrainTurn
  /\ UNCHANGED <<sequence, attempt, rows, persisted, failed, watermark, alive>>

DrainGoesOn ==
  /\ awaited = 0
  /\ \/ drain = "flushing" /\ DrainTurn
     \/ drain = "finishing" /\ drain' = "drained" /\ UNCHANGED <<queue, chain, awaited>>
  /\ UNCHANGED <<sequence, timer, attempt, rows, persisted, failed, watermark,
                 due, alive>>

\* The process exits after the drain, or dies: what it held is lost.  The
\* timer does not keep it (unref).
Exit ==
  /\ drain = "drained" \/ MaxCrashes = 1
  /\ alive' = FALSE
  /\ queue' = <<>> /\ timer' = FALSE
  /\ chain' = <<>> /\ attempt' = 1 /\ awaited' = 0
  /\ UNCHANGED <<sequence, rows, persisted, failed, watermark, drain, due>>

Next ==
  /\ alive
  /\ \/ \E r \in Runs : Publish(r)
     \/ FlushTimer
     \/ PersistBatch
     \/ PersistFails
     \/ StartDrain
     \/ DrainGoesOn
     \/ Exit

Spec == Init /\ [][Next]_vars

\* Timers fire, and every attempt ends: the pool's queries have a time limit.
\* That an observation is published, or a server is closed, is nobody's duty.
FairSpec ==
  /\ Spec
  /\ WF_vars(alive /\ FlushTimer)
  /\ WF_vars(alive /\ (PersistBatch \/ PersistFails))
  /\ WF_vars(alive /\ DrainGoesOn)

-------------------------------------------------------------------------------
(* Properties. *)

\* The type invariant, with the limit of the queue: no order of publications,
\* flushes and failures makes it hold more than PROCESS_TRACE_QUEUE_CAPACITY.
TypeOK ==
  /\ sequence \in [Runs -> 0 .. MaxEvents]
  /\ queue \in Seq(Events) /\ Len(queue) <= Capacity
  /\ timer \in BOOLEAN
  /\ chain \in Seq(Seq(Events)) /\ \A i \in DOMAIN chain : Len(chain[i]) \in 1 .. BatchSize
  /\ attempt \in 1 .. Attempts
  /\ rows \subseteq Events /\ persisted \subseteq Events /\ failed \subseteq Events
  /\ watermark \in [Runs -> 0 .. MaxEvents]
  /\ drain \in {"open", "flushing", "finishing", "drained"}
  /\ awaited \in 0 .. Len(chain)
  /\ due \subseteq Events
  /\ alive \in BOOLEAN

\* A client that drops what its overlay shows up to persistedThroughSequence
\* drops nothing that is still on its way: each observation up to there is in
\* the table, or was reported as failed (publishChatActivityTrace, onPersisted,
\* queueFlush).
WatermarkHidesNothing ==
  \A e \in Events : NumberOf(e) <= watermark[e[1]] => e \in rows \cup failed

\* When drain returns, everything the writer had accepted before it was called
\* is stored or given up, whatever the timer has taken out of its hands.
DrainWaitsForAll == drain = "drained" => due \subseteq Settled

\* An accepted observation is stored or given up as long as the process lives:
\* none stays in the queue without a scheduled flush (queueFlush, finally).
EvidenceIsSettled ==
  \A e \in Events : e \in Unsettled ~> (e \in Settled \/ ~alive)

\* What the documents say of the number ("already represented by the durable
\* snapshot"), which a batch that was given up breaks: the next one passes it.
WatermarkIsDurable ==
  \A e \in Events : NumberOf(e) <= watermark[e[1]] => e \in rows

\* "The evidence queue is bounded": the batches of the chain are not counted,
\* so a slow database lets more wait than the queue and one batch can hold.
EvidenceIsBounded == Cardinality(Unsettled) <= Capacity + BatchSize
===============================================================================
