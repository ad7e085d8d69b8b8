----------------------------- MODULE WorkQueue -----------------------------
(***************************************************************************)
(* The Redis work queue that carries inbound webhook payloads from the     *)
(* ingest endpoint (api/board_webhooks.py) to the worker processes         *)
(* (services/queue.py, services/queue_worker.py, services/webhooks/).      *)
(*                                                                         *)
(* One action per Redis command: draining the scheduled set takes three    *)
(* commands, so workers interleave and stop between them.  The clock is    *)
(* abstracted: a scheduled envelope becomes due at some later time.        *)
(***************************************************************************)
EXTENDS Naturals, Sequences, FiniteSets, SequencesExt

CONSTANTS
  Payload,     \* ids of stored webhook payloads
  Worker,      \* worker processes
  MaxRetries,  \* settings.rq_dispatch_max_retries
  BatchSize,   \* _DRY_RUN_BATCH_SIZE
  MaxFaults,   \* bound on worker crashes and Redis failures of the workers
  IngestFaults,\* TRUE when Redis may refuse what the ingest endpoint enqueues
  Never        \* a BRPOP without a timeout

ASSUME QueueAssumption ==
  /\ MaxRetries \in Nat /\ BatchSize \in Nat \ {0} /\ MaxFaults \in Nat
  /\ IngestFaults \in BOOLEAN

Envelope == [payload : Payload, attempts : 0..MaxRetries]

VARIABLES
  ingest,  \* progress of the request that received each payload
  queue,   \* the Redis list; LPUSH adds at the head, RPOP takes the last
  later,   \* members of the sorted set whose score is in the future
  ready,   \* members of the sorted set that are due
  worker,  \* what each worker process is doing and holds in memory
  runs,    \* how often the handler ran for each payload (history)
  settled, \* payloads a handler finished, or that were dropped (history)
  faults   \* crashes and Redis failures so far (bounded by MaxFaults)

vars == <<ingest, queue, later, ready, worker, runs, settled, faults>>
redis == <<queue, later, ready>>

Idle == [pc |-> "read", seen |-> {}, batch |-> <<>>, wake |-> Never, job |-> <<>>,
         again |-> FALSE]   \* TRUE during the drain that follows a timeout

Init ==
  /\ ingest = [p \in Payload |-> "none"]
  /\ queue = <<>> /\ later = {} /\ ready = {}
  /\ worker = [w \in Worker |-> Idle]
  /\ runs = [p \in Payload |-> 0]
  /\ settled = {}
  /\ faults = 0

-----------------------------------------------------------------------------
(* The ingest endpoint: the payload row is committed, then enqueued.        *)
Store(p) ==
  /\ ingest[p] = "none"
  /\ ingest' = [ingest EXCEPT ![p] = "stored"]
  /\ UNCHANGED <<redis, worker, runs, settled, faults>>

Enqueue(p) ==
  /\ ingest[p] = "stored"
  /\ queue' = <<[payload |-> p, attempts |-> 0]>> \o queue
  /\ ingest' = [ingest EXCEPT ![p] = "queued"]
  /\ UNCHANGED <<later, ready, worker, runs, settled, faults>>

(* What enqueue_webhook_delivery returns when enqueue_task returned `ok`:   *)
(* it does not look at it.                                                  *)
ReportedQueued(ok) == TRUE

(* enqueue_task swallows the Redis error and returns False; the endpoint    *)
(* notifies the board lead itself when it is told that queueing failed.     *)
EnqueueFails(p) ==
  /\ IngestFaults /\ ingest[p] = "stored"
  /\ ingest' = [ingest EXCEPT ![p] = IF ReportedQueued(FALSE) THEN "forgotten"
                                                              ELSE "notified"]
  /\ UNCHANGED <<redis, worker, runs, settled, faults>>

-----------------------------------------------------------------------------
(* Time passes: the score of a scheduled envelope is reached.               *)
BecomeDue(e) ==
  /\ e \in later
  /\ later' = later \ {e} /\ ready' = ready \cup {e}
  /\ UNCHANGED <<ingest, queue, worker, runs, settled, faults>>

(* _drain_ready_scheduled_tasks: ZRANGEBYSCORE -inf now, LPUSH, ZREM.       *)
FirstOf(s) == IF Len(s) <= BatchSize THEN s ELSE SubSeq(s, 1, BatchSize)

ReadReady(w) ==
  /\ worker[w].pc = "read"
  /\ \E order \in SetToSeqs(ready) :
       worker' = [worker EXCEPT ![w].batch = FirstOf(order), ![w].seen = ready,
                                ![w].pc = IF ready = {} THEN "peek" ELSE "push"]
  /\ UNCHANGED <<ingest, redis, runs, settled, faults>>

PushReady(w) ==
  /\ worker[w].pc = "push"
  /\ queue' = Reverse(worker[w].batch) \o queue
  /\ worker' = [worker EXCEPT ![w].pc = "remove"]
  /\ UNCHANGED <<ingest, later, ready, runs, settled, faults>>

RemoveAllDue(e, batch) == e \in ready   \* variant
Removed(e, batch) == e \in ToSet(batch)

RemoveReady(w) ==
  /\ worker[w].pc = "remove"
  /\ ready' = {e \in ready : ~Removed(e, worker[w].batch)}
  /\ later' = {e \in later : ~Removed(e, worker[w].batch)}
  /\ worker' = [worker EXCEPT ![w].pc = "peek", ![w].batch = <<>>]
  /\ UNCHANGED <<ingest, queue, runs, settled, faults>>

(* The BRPOP waits until the next envelope that was not yet due when the    *)
(* drain began becomes due, or for ever when none is scheduled.             *)
WaitForever(upcoming) == {Never}   \* variant
NextWake(upcoming) == IF upcoming = {} THEN {Never} ELSE upcoming

PeekNext(w) ==
  /\ worker[w].pc = "peek" /\ ~worker[w].again
  /\ \E e \in NextWake(later \cup (ready \ worker[w].seen)) :
       worker' = [worker EXCEPT ![w].wake = e, ![w].pc = "pop", ![w].seen = {}]
  /\ UNCHANGED <<ingest, redis, runs, settled, faults>>

Pop(w) ==
  /\ worker[w].pc = "pop" /\ queue # <<>>
  /\ queue' = Front(queue)
  /\ worker' = [worker EXCEPT ![w] = [Idle EXCEPT !.pc = "run", !.job = <<Last(queue)>>]]
  /\ UNCHANGED <<ingest, later, ready, runs, settled, faults>>

(* A BRPOP that times out is followed by another drain, whose result is not *)
(* used, and the next dequeue starts over.                                  *)
StartOver(w) ==
  /\ worker[w].pc = "peek" /\ worker[w].again
  /\ worker' = [worker EXCEPT ![w] = Idle]
  /\ UNCHANGED <<ingest, redis, runs, settled, faults>>

TimeOut(w) ==
  /\ worker[w].pc = "pop" /\ queue = <<>>
  /\ worker[w].wake # Never /\ worker[w].wake \notin later
  /\ worker' = [worker EXCEPT ![w] = [Idle EXCEPT !.again = TRUE]]
  /\ UNCHANGED <<ingest, redis, runs, settled, faults>>

-----------------------------------------------------------------------------
Job(w) == worker[w].job[1]

(* process_webhook_queue_task; errors of the gateway are swallowed.         *)
Handle(w) ==
  /\ worker[w].pc = "run"
  /\ runs' = [runs EXCEPT ![Job(w).payload] = @ + 1]
  /\ \/ /\ settled' = settled \cup {Job(w).payload}
        /\ worker' = [worker EXCEPT ![w] = Idle]
     \/ /\ worker' = [worker EXCEPT ![w].pc = "failed"]   \* the database fails
        /\ UNCHANGED settled
  /\ UNCHANGED <<ingest, redis, faults>>

OneRetryMore(attempts) == attempts > MaxRetries + 1   \* variant
GivesUp(attempts) == attempts > MaxRetries

(* requeue_if_failed: always with a delay, so into the sorted set; ZADD of  *)
(* a member already there moves its score.                                  *)
Drop(w) ==
  /\ worker[w].pc = "failed" /\ GivesUp(Job(w).attempts + 1)
  /\ settled' = settled \cup {Job(w).payload}
  /\ worker' = [worker EXCEPT ![w] = Idle]
  /\ UNCHANGED <<ingest, redis, runs, faults>>

Reschedule(w) ==
  LET e == [Job(w) EXCEPT !.attempts = @ + 1]
  IN /\ worker[w].pc = "failed" /\ ~GivesUp(e.attempts)
     /\ later' = later \cup {e} /\ ready' = ready \ {e}
     /\ worker' = [worker EXCEPT ![w] = Idle]
     /\ UNCHANGED <<ingest, queue, runs, settled, faults>>

(* The process stops and its supervisor starts it again, or a Redis command *)
(* raises: flush_queue is left with what it holds in memory.                *)
Fault(w) ==
  /\ faults < MaxFaults
  /\ worker[w] # Idle
  /\ faults' = faults + 1
  /\ worker' = [worker EXCEPT ![w] = Idle]
  /\ UNCHANGED <<ingest, redis, runs, settled>>

Step(w) ==
  \/ ReadReady(w) \/ PushReady(w) \/ RemoveReady(w) \/ PeekNext(w) \/ StartOver(w)
  \/ Pop(w) \/ TimeOut(w) \/ Handle(w) \/ Drop(w) \/ Reschedule(w)

Next ==
  \/ \E p \in Payload : Store(p) \/ Enqueue(p) \/ EnqueueFails(p)
  \/ \E e \in Envelope : BecomeDue(e)
  \/ \E w \in Worker : Step(w) \/ Fault(w)

(* Workers run in an endless loop, and the clock advances.                  *)
Fairness ==
  /\ \A w \in Worker : WF_vars(Step(w))
  /\ \A e \in Envelope : WF_vars(BecomeDue(e))

Spec == Init /\ [][Next]_vars /\ Fairness

-----------------------------------------------------------------------------
(* Properties *)

\* Lists, sets and the memory of workers hold envelopes within the retry limit.
TypeOK ==
  /\ ingest \in [Payload -> {"none", "stored", "queued", "notified", "forgotten"}]
  /\ ToSet(queue) \subseteq Envelope
  /\ later \subseteq Envelope /\ ready \subseteq Envelope /\ later \cap ready = {}
  /\ \A w \in Worker :
       /\ worker[w].pc \in {"read", "push", "remove", "peek", "pop", "run", "failed"}
       /\ ToSet(worker[w].batch) \cup ToSet(worker[w].job) \subseteq Envelope
       /\ worker[w].wake \in Envelope \cup {Never}
       /\ worker[w].pc \in {"run", "failed"} <=> worker[w].job # <<>>
  /\ runs \in [Payload -> Nat]
  /\ settled \subseteq Payload
  /\ faults \in 0..MaxFaults

Copies(p) ==
  {e \in ToSet(queue) \cup later \cup ready \cup UNION {ToSet(worker[w].job) : w \in Worker} :
     e.payload = p}
Lost == {p \in Payload : ingest[p] = "queued" /\ p \notin settled /\ Copies(p) = {}}

\* Each crash or Redis failure costs at most the delivery in the worker's hands:
\* the drain, whose three commands interleave with other workers, loses none.
OneLossPerFault == Cardinality(Lost) <= faults

\* "Requeue a failed task with capped retries.": a delivery is handed to the
\* handler once and then at most max_retries times, whoever drains its retries.
RetriesCapped == \A p \in Payload : runs[p] <= MaxRetries + 1

\* A queued delivery is finished or dropped in the end, unless a fault lost it:
\* scheduled retries wake blocked workers.
Settles ==
  \A p \in Payload : ingest[p] = "queued" ~> (p \in settled \/ p \in Lost)
=============================================================================
