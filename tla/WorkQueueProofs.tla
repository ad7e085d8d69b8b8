-------------------------- MODULE WorkQueueProofs --------------------------
(***************************************************************************)
(* Proofs about WorkQueue for any number of payloads, workers and retries: *)
(* what the queue and the workers hold is well-formed, and a fault costs   *)
(* at most one delivery.                                                   *)
(***************************************************************************)
EXTENDS WorkQueue, FiniteSetTheorems, TLAPS

-----------------------------------------------------------------------------
(* Sequences *)

\* A sequence over a set is one over a larger set (what is queued stays queued).
LEMMA SeqMono ==
  ASSUME NEW S, NEW T, S \subseteq T, NEW s \in Seq(S)
  PROVE  s \in Seq(T)
OBVIOUS

\* The members of a sequence.
LEMMA Members ==
  ASSUME NEW S, NEW s \in Seq(S)
  PROVE  \A x : x \in ToSet(s) <=> \E i \in 1..Len(s) : s[i] = x
<1>1. DOMAIN s = 1..Len(s)
  OBVIOUS
<1>2. QED BY <1>1 DEF ToSet

\* What LPUSH puts in front of the list.
LEMMA ConcatSeq ==
  ASSUME NEW S, NEW s \in Seq(S), NEW t \in Seq(S)
  PROVE  s \o t \in Seq(S) /\ ToSet(s \o t) = ToSet(s) \cup ToSet(t)
<1>1. s \o t \in Seq(S) /\ Len(s \o t) = Len(s) + Len(t)
  OBVIOUS
<1>2. \A i \in 1..Len(s) : (s \o t)[i] = s[i]
  OBVIOUS
<1>3. \A i \in 1..Len(t) : (s \o t)[Len(s) + i] = t[i]
  OBVIOUS
<1>4. \A i \in 1..Len(s \o t) : i \in 1..Len(s) \/ \E j \in 1..Len(t) : i = Len(s) + j
  <2> TAKE i \in 1..Len(s \o t)
  <2>1. i > Len(s) => (i - Len(s)) \in 1..Len(t) /\ i = Len(s) + (i - Len(s))
    BY <1>1
  <2>2. QED BY <2>1, <1>1
<1>5. \A j \in 1..Len(t) : Len(s) + j \in 1..Len(s \o t)
  BY <1>1
<1>6. \A x : x \in ToSet(s \o t) <=> x \in ToSet(s) \/ x \in ToSet(t)
  <2> TAKE x
  <2>1. /\ x \in ToSet(s) <=> \E i \in 1..Len(s) : s[i] = x
        /\ x \in ToSet(t) <=> \E i \in 1..Len(t) : t[i] = x
        /\ x \in ToSet(s \o t) <=> \E i \in 1..Len(s \o t) : (s \o t)[i] = x
    BY <1>1, Members
  <2>2. \A i \in 1..Len(s) : i \in 1..Len(s \o t)
    BY <1>1
  <2>3. QED BY ONLY <2>1, <2>2, <1>2, <1>3, <1>4, <1>5, ZenonT(30)
<1>7. QED BY <1>1, <1>6

\* The order in which a batch is pushed keeps its members.
LEMMA ReverseSeq ==
  ASSUME NEW S, NEW s \in Seq(S)
  PROVE  Reverse(s) \in Seq(S) /\ ToSet(Reverse(s)) = ToSet(s)
<1>1. Reverse(s) \in Seq(S) /\ Len(Reverse(s)) = Len(s)
      /\ \A i \in 1..Len(s) : Reverse(s)[i] = s[(Len(s) - i) + 1]
  BY DEF Reverse
<1>2. \A i \in 1..Len(s) : (Len(s) - i) + 1 \in 1..Len(s)
                            /\ (Len(s) - ((Len(s) - i) + 1)) + 1 = i
  OBVIOUS
<1>3. \A x : x \in ToSet(Reverse(s)) <=> x \in ToSet(s)
  <2> TAKE x
  <2>1. /\ x \in ToSet(s) <=> \E i \in 1..Len(s) : s[i] = x
        /\ x \in ToSet(Reverse(s)) <=> \E i \in 1..Len(s) : Reverse(s)[i] = x
    BY <1>1, Members
  <2>2. x \in ToSet(s) => x \in ToSet(Reverse(s))
    <3>1. SUFFICES ASSUME NEW i \in 1..Len(s), s[i] = x
                   PROVE  \E j \in 1..Len(s) : Reverse(s)[j] = x
      BY <2>1
    <3>2. Reverse(s)[(Len(s) - i) + 1] = s[i]
      BY <1>1, <1>2
    <3>3. QED BY <1>2, <3>1, <3>2
  <2>3. QED BY <1>1, <1>2, <2>1, <2>2
<1>4. QED BY <1>1, <1>3

\* What RPOP leaves, and takes.
LEMMA FrontLast ==
  ASSUME NEW S, NEW s \in Seq(S), s # <<>>
  PROVE  Front(s) \in Seq(S) /\ Last(s) \in S /\ ToSet(s) = ToSet(Front(s)) \cup {Last(s)}
<1>1. Len(s) \in Nat /\ Len(s) >= 1
  OBVIOUS
<1> DEFINE n == Len(s) - 1
<1>2. n \in Nat /\ n <= Len(s)
  BY <1>1
<1>3. Front(s) = [i \in 1..n |-> s[i]]
  BY <1>1 DEF Front
<1>4. Front(s) \in Seq(S) /\ Len(Front(s)) = n
  BY <1>2, <1>3
<1>5. Last(s) \in S /\ Last(s) = s[Len(s)]
  BY <1>1 DEF Last
<1>6. \A i \in 1..Len(s) : i \in 1..n \/ i = Len(s)
  BY <1>1
<1>7. \A x : x \in ToSet(s) <=> x \in ToSet(Front(s)) \/ x = Last(s)
  <2> TAKE x
  <2> HIDE DEF n
  <2>1. x \in ToSet(s) <=> \E i \in 1..Len(s) : s[i] = x
    BY Members
  <2>2. x \in ToSet(Front(s)) <=> \E i \in 1..n : Front(s)[i] = x
    BY <1>4, Members
  <2>3. \A i \in 1..n : Front(s)[i] = s[i]
    BY <1>3
  <2>4. 1..n \subseteq 1..Len(s) /\ Len(s) \in 1..Len(s)
    BY <1>1 DEF n
  <2>5. QED BY <1>5, <1>6, <2>1, <2>2, <2>3, <2>4
<1>8. QED BY <1>4, <1>5, <1>7

\* The envelope a worker has taken, and none.
LEMMA JobSet == ToSet(<<>>) = {} /\ \A e : ToSet(<<e>>) = {e}
BY DEF ToSet

\* ZRANGEBYSCORE with a limit returns members of the set.
LEMMA BatchSeq ==
  ASSUME NEW S, IsFiniteSet(S), NEW order \in SetToSeqs(S)
  PROVE  FirstOf(order) \in Seq(S)
<1>1. Cardinality(S) \in Nat
  BY FS_CardinalityType
<1>2. order \in Seq(S)
  BY <1>1 DEF SetToSeqs
<1>3. QED BY <1>2, QueueAssumption DEF FirstOf
-----------------------------------------------------------------------------
(* Types *)

\* Envelopes of payloads that the ingest endpoint has enqueued.
Queued == {e \in Envelope : ingest[e.payload] = "queued"}

\* What a worker process holds.
Memory ==
  [pc : {"read", "push", "remove", "peek", "pop", "run", "failed"},
   seen : SUBSET Envelope, batch : Seq(Queued), wake : Envelope \cup {Never},
   job : {<<>>} \cup {<<e>> : e \in Queued}, again : BOOLEAN]

\* Everything in Redis and in the workers has been enqueued, and the sorted set,
\* which grows by one envelope at a time, is finite.
QueueInv ==
  /\ ingest \in [Payload -> {"none", "stored", "queued", "notified", "forgotten"}]
  /\ queue \in Seq(Queued)
  /\ later \subseteq Queued /\ ready \subseteq Queued /\ later \cap ready = {}
  /\ IsFiniteSet(ready) /\ IsFiniteSet(later)
  /\ worker \in [Worker -> Memory]
  /\ \A w \in Worker : worker[w].pc \in {"run", "failed"} <=> worker[w].job # <<>>
  /\ runs \in [Payload -> Nat]
  /\ settled \subseteq Payload
  /\ faults \in 0..MaxFaults

\* What is idle holds nothing.
LEMMA IdleMemory == Idle \in Memory /\ Idle.pc = "read" /\ Idle.job = <<>>
BY DEF Idle, Memory

\* An empty Redis and idle workers.
LEMMA QueueInit == Init => QueueInv
BY IdleMemory, FS_EmptySet, QueueAssumption DEF Init, QueueInv

\* The ingest endpoint only adds to what has been enqueued.
LEMMA IngestKeepsTypes ==
  ASSUME QueueInv, NEW p \in Payload, Store(p) \/ Enqueue(p) \/ EnqueueFails(p)
  PROVE  QueueInv'
<1>1. ingest' \in [Payload -> {"none", "stored", "queued", "notified", "forgotten"}]
  BY DEF Store, Enqueue, EnqueueFails, QueueInv
<1>2. Queued \subseteq Queued'
  BY DEF Store, Enqueue, EnqueueFails, QueueInv, Queued, Envelope
<1>3. Memory \subseteq Memory'
  BY <1>2, SeqMono DEF Memory
<1>4. queue \in Seq(Queued')
  BY <1>2, SeqMono DEF QueueInv
<1>5. queue' \in Seq(Queued')
  <2>1. CASE Store(p) \/ EnqueueFails(p)
    BY <1>4, <2>1 DEF Store, EnqueueFails, redis
  <2>2. CASE Enqueue(p)
    <3> DEFINE e == [payload |-> p, attempts |-> 0]
    <3>1. e \in Queued'
      BY <2>2, QueueAssumption DEF Enqueue, Queued, Envelope, QueueInv
    <3> HIDE DEF e
    <3>2. <<e>> \in Seq(Queued')
      BY <3>1
    <3>3. <<e>> \o queue \in Seq(Queued')
      BY <1>4, <3>2
    <3>4. QED BY <2>2, <3>3 DEF Enqueue, e
  <2>3. QED BY <2>1, <2>2
<1>6. UNCHANGED <<later, ready, worker, runs, settled, faults>>
  BY DEF Store, Enqueue, EnqueueFails, redis
<1>7. QED BY <1>1, <1>2, <1>3, <1>5, <1>6 DEF QueueInv
\* A step that leaves the ingest endpoint alone, and the rest in type.
LEMMA KeepsTypes ==
  ASSUME QueueInv, UNCHANGED ingest,
         queue' \in Seq(Queued),
         later' \subseteq Queued, ready' \subseteq Queued, later' \cap ready' = {},
         IsFiniteSet(ready'), IsFiniteSet(later'),
         worker' \in [Worker -> Memory],
         \A w \in Worker : worker'[w].pc \in {"run", "failed"} <=> worker'[w].job # <<>>,
         runs' \in [Payload -> Nat], settled' \subseteq Payload, faults' \in 0..MaxFaults
  PROVE  QueueInv'
<1>1. Queued' = Queued
  BY DEF Queued
<1>2. Memory' = Memory
  BY <1>1 DEF Memory
<1>3. QED BY <1>1, <1>2 DEF QueueInv

\* A worker's memory is replaced by another.
LEMMA NewMemory ==
  ASSUME QueueInv, NEW w \in Worker, NEW m \in Memory, worker' = [worker EXCEPT ![w] = m],
         m.pc \in {"run", "failed"} <=> m.job # <<>>
  PROVE  /\ worker' \in [Worker -> Memory] /\ worker'[w] = m
         /\ \A v \in Worker : v # w => worker'[v] = worker[v]
         /\ \A v \in Worker : worker'[v].pc \in {"run", "failed"} <=> worker'[v].job # <<>>
BY DEF QueueInv

\* The clock.
LEMMA ClockKeepsTypes ==
  ASSUME QueueInv, NEW e \in Envelope, BecomeDue(e)
  PROVE  QueueInv'
<1>1. IsFiniteSet(ready') /\ IsFiniteSet(later')
  BY FS_AddElement, FS_RemoveElement DEF BecomeDue, QueueInv
<1>2. QED BY <1>1, KeepsTypes DEF BecomeDue, QueueInv

\* The three commands of a drain, and the look at the next envelope.
LEMMA DrainKeepsTypes ==
  ASSUME QueueInv, NEW w \in Worker,
         ReadReady(w) \/ PushReady(w) \/ RemoveReady(w) \/ PeekNext(w) \/ StartOver(w)
  PROVE  QueueInv'
<1> DEFINE r == worker[w]
<1>1. r \in Memory /\ (r.pc \in {"run", "failed"} <=> r.job # <<>>)
  BY DEF QueueInv
<1>2. CASE ReadReady(w)
  <2>1. PICK order \in SetToSeqs(ready) :
          worker' = [worker EXCEPT ![w] =
            [r EXCEPT !.batch = FirstOf(order), !.seen = ready,
                      !.pc = IF ready = {} THEN "peek" ELSE "push"]]
    BY <1>2 DEF ReadReady
  <2>2. FirstOf(order) \in Seq(ready)
    BY BatchSeq DEF QueueInv
  <2>3. FirstOf(order) \in Seq(Queued)
    BY <2>2, SeqMono DEF QueueInv
  <2> DEFINE m == [r EXCEPT !.batch = FirstOf(order), !.seen = ready,
                            !.pc = IF ready = {} THEN "peek" ELSE "push"]
  <2>4. m \in Memory /\ m.job = r.job /\ m.pc \in {"peek", "push"}
    BY <1>1, <2>3 DEF Memory, QueueInv, Queued
  <2>5. r.job = <<>>
    BY <1>1, <1>2 DEF ReadReady
  <2> HIDE DEF m
  <2>6. worker' = [worker EXCEPT ![w] = m]
    BY <2>1 DEF m
  <2>7. QED BY <1>2, <2>4, <2>5, <2>6, NewMemory, KeepsTypes DEF ReadReady, redis, QueueInv
<1>3. CASE PushReady(w)
  <2> DEFINE m == [r EXCEPT !.pc = "remove"]
  <2>1. m \in Memory /\ m.job = r.job /\ m.pc = "remove" /\ r.job = <<>>
    BY <1>1, <1>3 DEF Memory, PushReady
  <2> HIDE DEF m
  <2>2. worker' = [worker EXCEPT ![w] = m]
    BY <1>3 DEF PushReady, m
  <2>3. r.batch \in Seq(Queued)
    BY <1>1 DEF Memory
  <2>4. queue' \in Seq(Queued)
    BY <1>3, <2>3, ReverseSeq, ConcatSeq DEF PushReady, QueueInv
  <2>5. /\ UNCHANGED <<ingest, later, ready, runs, settled, faults>>
        /\ m.pc \in {"run", "failed"} <=> m.job # <<>>
    BY <1>3, <2>1 DEF PushReady
  <2>6. QED BY <2>1, <2>2, <2>4, <2>5, NewMemory, KeepsTypes DEF QueueInv
<1>4. CASE RemoveReady(w)
  <2> DEFINE m == [r EXCEPT !.pc = "peek", !.batch = <<>>]
  <2>1. m \in Memory /\ m.job = r.job /\ m.pc = "peek" /\ r.job = <<>>
    <3>1. r.pc = "remove" /\ <<>> \in Seq(Queued)
      BY <1>4 DEF RemoveReady
    <3>2. QED BY <1>1, <3>1 DEF Memory
  <2> HIDE DEF m
  <2>2. worker' = [worker EXCEPT ![w] = m]
    BY <1>4 DEF RemoveReady, m
  <2>3. ready' \subseteq ready /\ later' \subseteq later
    BY <1>4 DEF RemoveReady
  <2>4. IsFiniteSet(ready') /\ IsFiniteSet(later')
    BY <2>3, FS_Subset DEF QueueInv
  <2>5. UNCHANGED <<ingest, queue, runs, settled, faults>>
    BY <1>4 DEF RemoveReady
  <2>6. later' \subseteq Queued /\ ready' \subseteq Queued /\ later' \cap ready' = {}
    BY <2>3 DEF QueueInv
  <2>7. /\ worker' \in [Worker -> Memory]
        /\ \A v \in Worker : worker'[v].pc \in {"run", "failed"} <=> worker'[v].job # <<>>
    BY <2>1, <2>2, NewMemory
  <2>8. QED BY <2>4, <2>5, <2>6, <2>7, KeepsTypes DEF QueueInv
<1>5. CASE PeekNext(w)
  <2>1. PICK e \in NextWake(later \cup (ready \ r.seen)) :
          worker' = [worker EXCEPT ![w] = [r EXCEPT !.wake = e, !.pc = "pop", !.seen = {}]]
    BY <1>5 DEF PeekNext
  <2> DEFINE m == [r EXCEPT !.wake = e, !.pc = "pop", !.seen = {}]
  <2>2. e \in Envelope \cup {Never}
    BY DEF NextWake, QueueInv, Queued
  <2>3. m \in Memory /\ m.job = r.job /\ m.pc = "pop" /\ r.job = <<>>
    BY <1>1, <1>5, <2>2 DEF Memory, PeekNext
  <2> HIDE DEF m
  <2>4. worker' = [worker EXCEPT ![w] = m]
    BY <2>1 DEF m
  <2>5. QED BY <1>5, <2>3, <2>4, NewMemory, KeepsTypes DEF PeekNext, redis, QueueInv
<1>6. CASE StartOver(w)
  BY <1>6, IdleMemory, NewMemory, KeepsTypes DEF StartOver, redis, QueueInv
<1>7. QED BY <1>2, <1>3, <1>4, <1>5, <1>6
\* Taking an envelope, waiting, running the handler, giving up, trying again, and
\* stopping.
LEMMA WorkKeepsTypes ==
  ASSUME QueueInv, NEW w \in Worker,
         Pop(w) \/ TimeOut(w) \/ Handle(w) \/ Drop(w) \/ Reschedule(w) \/ Fault(w)
  PROVE  QueueInv'
<1> DEFINE r == worker[w]
<1>1. r \in Memory /\ (r.pc \in {"run", "failed"} <=> r.job # <<>>)
  BY DEF QueueInv
<1>2. r.job # <<>> => \E e \in Queued : r.job = <<e>> /\ Job(w) = e
  BY <1>1 DEF Memory, Job
<1>3. \A e \in Queued : /\ e.payload \in Payload /\ ingest[e.payload] = "queued"
                         /\ e.attempts \in 0..MaxRetries /\ e \in Envelope
  BY DEF Queued, Envelope
<1>4. CASE Pop(w)
  <2> DEFINE e == Last(queue)
             m == [Idle EXCEPT !.pc = "run", !.job = <<e>>]
  <2>1. queue' \in Seq(Queued) /\ e \in Queued
    BY <1>4, FrontLast DEF Pop, QueueInv
  <2> HIDE DEF e
  <2>2. m \in Memory /\ m.pc = "run" /\ m.job # <<>>
    <3>1. <<>> \in Seq(Queued) /\ <<e>> # <<>>
      OBVIOUS
    <3>2. QED BY <2>1, <3>1 DEF Idle, Memory
  <2> HIDE DEF m
  <2>3. worker' = [worker EXCEPT ![w] = m]
    BY <1>4 DEF Pop, m, e
  <2>4. UNCHANGED <<ingest, later, ready, runs, settled, faults>>
    BY <1>4 DEF Pop
  <2>5. /\ worker' \in [Worker -> Memory]
        /\ \A v \in Worker : worker'[v].pc \in {"run", "failed"} <=> worker'[v].job # <<>>
    BY <2>2, <2>3, NewMemory
  <2>6. QED BY <2>1, <2>4, <2>5, KeepsTypes DEF QueueInv
<1>5. CASE TimeOut(w)
  <2> DEFINE m == [Idle EXCEPT !.again = TRUE]
  <2>1. m \in Memory /\ m.pc = "read" /\ m.job = <<>>
    <3>1. <<>> \in Seq(Queued)
      OBVIOUS
    <3>2. QED BY <3>1 DEF Idle, Memory
  <2> HIDE DEF m
  <2>2. worker' = [worker EXCEPT ![w] = m]
    BY <1>5 DEF TimeOut, m
  <2>3. /\ worker' \in [Worker -> Memory]
        /\ \A v \in Worker : worker'[v].pc \in {"run", "failed"} <=> worker'[v].job # <<>>
    BY <2>1, <2>2, NewMemory
  <2>4. UNCHANGED <<ingest, redis, runs, settled, faults>>
    BY <1>5 DEF TimeOut
  <2>5. QED BY <2>3, <2>4, KeepsTypes DEF QueueInv, redis
<1>6. CASE Handle(w)
  <2>1. PICK e \in Queued : r.job = <<e>> /\ Job(w) = e
    BY <1>1, <1>2, <1>6 DEF Handle
  <2>2. e.payload \in Payload
    BY <1>3
  <2>3. runs' \in [Payload -> Nat] /\ settled' \subseteq Payload
    BY <1>6, <2>1, <2>2 DEF Handle, QueueInv
  <2> DEFINE m == [r EXCEPT !.pc = "failed"]
  <2>4. m \in Memory /\ m.pc = "failed" /\ m.job # <<>>
    BY <1>1, <1>6 DEF Handle, Memory
  <2> HIDE DEF m
  <2>5. worker' = [worker EXCEPT ![w] = Idle] \/ worker' = [worker EXCEPT ![w] = m]
    BY <1>6 DEF Handle, m
  <2>6. /\ worker' \in [Worker -> Memory]
        /\ \A v \in Worker : worker'[v].pc \in {"run", "failed"} <=> worker'[v].job # <<>>
    BY <2>4, <2>5, IdleMemory, NewMemory
  <2>7. UNCHANGED <<ingest, redis, faults>>
    BY <1>6 DEF Handle
  <2>8. QED BY <2>3, <2>6, <2>7, KeepsTypes DEF QueueInv, redis
<1>7. CASE Drop(w)
  <2>1. PICK e \in Queued : r.job = <<e>> /\ Job(w) = e
    BY <1>1, <1>2, <1>7 DEF Drop
  <2>2. settled' \subseteq Payload
    BY <1>3, <1>7, <2>1 DEF Drop, QueueInv
  <2>3. QED BY <1>7, <2>2, IdleMemory, NewMemory, KeepsTypes DEF Drop, redis, QueueInv
<1>8. CASE Reschedule(w)
  <2>1. PICK e \in Queued : r.job = <<e>> /\ Job(w) = e
    BY <1>1, <1>2, <1>8 DEF Reschedule
  <2> DEFINE next == [e EXCEPT !.attempts = @ + 1]
  <2>2. next \in Queued
    <3>1. next.attempts <= MaxRetries /\ next.attempts \in Nat
      BY <1>3, <1>8, <2>1, QueueAssumption DEF Reschedule, GivesUp, Envelope
    <3>2. next.payload = e.payload /\ next \in Envelope
      BY <1>3, <3>1, QueueAssumption DEF Envelope
    <3>3. QED BY <1>3, <3>2 DEF Queued
  <2> HIDE DEF next
  <2>3. later' = later \cup {next} /\ ready' = ready \ {next}
    BY <1>8, <2>1 DEF Reschedule, next
  <2>4. IsFiniteSet(ready') /\ IsFiniteSet(later')
    BY <2>3, FS_AddElement, FS_RemoveElement DEF QueueInv
  <2>5. UNCHANGED <<ingest, queue, runs, settled, faults>>
        /\ worker' = [worker EXCEPT ![w] = Idle]
    BY <1>8 DEF Reschedule
  <2>6. QED BY <2>2, <2>3, <2>4, <2>5, IdleMemory, NewMemory, KeepsTypes DEF QueueInv
<1>9. CASE Fault(w)
  <2>1. faults' \in 0..MaxFaults
    BY <1>9, QueueAssumption DEF Fault, QueueInv
  <2>2. QED BY <1>9, <2>1, IdleMemory, NewMemory, KeepsTypes DEF Fault, redis, QueueInv
<1>10. QED BY <1>4, <1>5, <1>6, <1>7, <1>8, <1>9

\* Every step keeps the types.
LEMMA NextKeepsTypes == QueueInv /\ [Next]_vars => QueueInv'
<1>1. ASSUME QueueInv, Next PROVE QueueInv'
  BY <1>1, IngestKeepsTypes, ClockKeepsTypes, DrainKeepsTypes, WorkKeepsTypes DEF Next, Step
<1>2. ASSUME QueueInv, UNCHANGED vars PROVE QueueInv'
  BY <1>2, KeepsTypes DEF vars, QueueInv
<1>3. QED BY <1>1, <1>2

\* Redis and the workers hold envelopes of stored payloads within the retry limit,
\* however the commands of services/queue.py interleave.
THEOREM QueueTypeCorrect == Spec => []TypeOK
<1>1. QueueInv => TypeOK
  <2> SUFFICES ASSUME QueueInv PROVE TypeOK
    OBVIOUS
  <2>1. Queued \subseteq Envelope
    BY DEF Queued
  <2>2. ToSet(queue) \subseteq Queued
    BY Members DEF QueueInv
  <2>3. ASSUME NEW w \in Worker
        PROVE  /\ worker[w].pc \in {"read", "push", "remove", "peek", "pop", "run", "failed"}
               /\ ToSet(worker[w].batch) \cup ToSet(worker[w].job) \subseteq Envelope
               /\ worker[w].wake \in Envelope \cup {Never}
    <3>1. worker[w] \in Memory
      BY DEF QueueInv
    <3>2. worker[w].batch \in Seq(Queued)
      BY <3>1 DEF Memory
    <3>3. ToSet(worker[w].batch) \subseteq Queued
      BY <3>2, Members
    <3>4. ToSet(worker[w].job) \subseteq Queued
      BY <3>1, JobSet DEF Memory
    <3>5. QED BY <2>1, <3>1, <3>3, <3>4 DEF Memory
  <2>4. QED BY <2>1, <2>2, <2>3 DEF QueueInv, TypeOK
<1>2. QED BY <1>1, QueueInit, NextKeepsTypes, PTL DEF Spec
-----------------------------------------------------------------------------
(* What faults cost *)

\* Envelopes in the list or in the hands of a worker,
Held == ToSet(queue) \cup UNION {ToSet(worker[w].job) : w \in Worker}

\* those a worker has pushed and will remove from the sorted set,
Outstanding == UNION {ToSet(worker[w].batch) : w \in {v \in Worker : worker[v].pc = "remove"}}

\* and those no removal under way can take.
Available == Held \cup ((later \cup ready) \ Outstanding)

\* A delivery will be tried for the k-th time or later, whatever is removed.
Safe(p, k) == \E e \in Available : e.payload = p /\ e.attempts >= k

\* Deliveries that are lost or may be: a removal under way has no such copy.  That
\* it asks for one with as many attempts is what makes it inductive: a retry may
\* be scheduled as the very envelope another worker is about to remove.
Risk ==
  {p \in Payload :
     /\ ingest[p] = "queued" /\ p \notin settled
     /\ \/ ~Safe(p, 0)
        \/ \E e \in Outstanding : e.payload = p /\ ~Safe(p, e.attempts)}

\* What is held or outstanding is an envelope.
LEMMA HoldsEnvelopes ==
  ASSUME QueueInv
  PROVE  Available \subseteq Queued /\ Outstanding \subseteq Queued
<1>1. ASSUME NEW w \in Worker
      PROVE  ToSet(worker[w].batch) \subseteq Queued /\ ToSet(worker[w].job) \subseteq Queued
  <2>1. worker[w] \in Memory
    BY DEF QueueInv
  <2>2. worker[w].batch \in Seq(Queued)
    BY <2>1 DEF Memory
  <2>3. QED BY <2>1, <2>2, Members, JobSet DEF Memory
<1>2. ToSet(queue) \subseteq Queued
  BY Members DEF QueueInv
<1>3. QED BY <1>1, <1>2 DEF Available, Held, Outstanding, QueueInv

\* No new delivery is at risk but those in P, if all others keep their safe copies
\* and what becomes outstanding has one.
LEMMA RiskStep ==
  ASSUME QueueInv, NEW P \in SUBSET Payload,
         \A p \in Payload \ P : ingest'[p] = "queued" => ingest[p] = "queued",
         settled \subseteq settled',
         \A p \in Payload \ (P \cup Risk), k \in Nat :
           ingest[p] = "queued" /\ p \notin settled /\ Safe(p, k) => Safe(p, k)',
         \A e \in Outstanding' : e \in Outstanding \/ Safe(e.payload, e.attempts)'
  PROVE  Risk' \subseteq Risk \cup P
<1> SUFFICES ASSUME NEW p \in Risk', p \notin Risk, p \notin P PROVE FALSE
  OBVIOUS
<1>1. /\ p \in Payload /\ ingest[p] = "queued" /\ p \notin settled
      /\ ~Safe(p, 0)' \/ \E e \in Outstanding' : e.payload = p /\ ~Safe(p, e.attempts)'
  BY DEF Risk
<1>2. Safe(p, 0) /\ \A e \in Outstanding : e.payload = p => Safe(p, e.attempts)
  BY <1>1 DEF Risk
<1>3. \A k \in Nat : Safe(p, k) => Safe(p, k)'
  BY <1>1
<1>4. \A e \in Outstanding : e.attempts \in Nat
  BY HoldsEnvelopes, QueueAssumption DEF Queued, Envelope
<1>5. QED BY <1>1, <1>2, <1>3, <1>4

\* In particular if every available envelope stays available.
LEMMA NoNewRisk ==
  ASSUME QueueInv, NEW P \in SUBSET Payload,
         UNCHANGED ingest, settled \subseteq settled',
         \A e \in Available : e.payload \notin P => e \in Available',
         \A e \in Outstanding' : e \in Outstanding \/ (e \in Available' /\ e \in Queued)
  PROVE  Risk' \subseteq Risk \cup P
<1>1. \A p \in Payload \ P, k \in Nat : Safe(p, k) => Safe(p, k)'
  BY DEF Safe
<1>2. \A e \in Queued : e.attempts \in Nat
  BY QueueAssumption DEF Queued, Envelope
<1>3. \A e \in Available' : e \in Queued => Safe(e.payload, e.attempts)'
  BY <1>2 DEF Safe
<1>4. QED BY <1>1, <1>3, RiskStep

\* What one worker's step does to what the workers hold together.
LEMMA OneWorker ==
  ASSUME NEW w \in Worker, \A v \in Worker : v # w => worker'[v] = worker[v]
  PROVE  /\ \A e \in Held : e \in ToSet(queue) \/ e \in ToSet(worker[w].job) \/ e \in Held'
         /\ ToSet(queue') \subseteq Held' /\ ToSet(worker'[w].job) \subseteq Held'
         /\ \A e \in Outstanding' :
              e \in Outstanding \/ (worker'[w].pc = "remove" /\ e \in ToSet(worker'[w].batch))
         /\ \A e \in Outstanding :
              e \in Outstanding' \/ (worker[w].pc = "remove" /\ e \in ToSet(worker[w].batch))
<1>1. \A e \in Held : e \in ToSet(queue) \/ e \in ToSet(worker[w].job) \/ e \in Held'
  BY DEF Held
<1>2. ToSet(queue') \subseteq Held' /\ ToSet(worker'[w].job) \subseteq Held'
  BY DEF Held
<1>3. \A e \in Outstanding' :
        e \in Outstanding \/ (worker'[w].pc = "remove" /\ e \in ToSet(worker'[w].batch))
  BY DEF Outstanding
<1>4. \A e \in Outstanding :
        e \in Outstanding' \/ (worker[w].pc = "remove" /\ e \in ToSet(worker[w].batch))
  BY DEF Outstanding
<1>5. QED BY <1>1, <1>2, <1>3, <1>4
\* Ingest puts no delivery at risk: a payload is enqueued once, and its envelope is
\* in the list.
LEMMA IngestRisksNone ==
  ASSUME QueueInv, NEW p \in Payload, Store(p) \/ Enqueue(p) \/ EnqueueFails(p)
  PROVE  Risk' \subseteq Risk
<1>1. CASE Store(p) \/ EnqueueFails(p)
  <2>1. /\ UNCHANGED <<queue, later, ready, worker, settled>>
        /\ \A q \in Payload : ingest'[q] = "queued" => ingest[q] = "queued"
    BY <1>1 DEF Store, EnqueueFails, redis, QueueInv
  <2>2. Outstanding' = Outstanding /\ \A q, k : Safe(q, k)' <=> Safe(q, k)
    BY <2>1 DEF Safe, Available, Held, Outstanding
  <2>3. QED BY <2>1, <2>2 DEF Risk
<1>2. CASE Enqueue(p)
  <2> DEFINE e == [payload |-> p, attempts |-> 0]
  <2>1. UNCHANGED <<later, ready, worker, settled>> /\ queue' = <<e>> \o queue
    BY <1>2 DEF Enqueue
  <2>2. ToSet(queue') = {e} \cup ToSet(queue)
    <3> DEFINE S == Queued \cup {e}
    <3>1. <<e>> \in Seq(S) /\ queue \in Seq(S)
      BY SeqMono DEF QueueInv
    <3> HIDE DEF S, e
    <3>2. ToSet(<<e>> \o queue) = ToSet(<<e>>) \cup ToSet(queue)
      BY ONLY <3>1, ConcatSeq, Zenon
    <3>3. ToSet(<<e>>) = {e}
      BY JobSet
    <3>4. QED BY <2>1, <3>2, <3>3
  <2>3. Outstanding' = Outstanding /\ Available \subseteq Available' /\ e \in Available'
    BY <2>1, <2>2 DEF Outstanding, Available, Held
  <2>4. \A q, k : Safe(q, k) => Safe(q, k)'
    BY <2>3 DEF Safe
  <2>5. \A q \in Payload \ {p} : ingest'[q] = "queued" => ingest[q] = "queued"
    BY <1>2 DEF Enqueue, QueueInv
  <2>6. Risk' \subseteq Risk \cup {p}
    <3>1. /\ {p} \in SUBSET Payload /\ settled \subseteq settled'
          /\ \A q \in Payload \ ({p} \cup Risk), k \in Nat :
               ingest[q] = "queued" /\ q \notin settled /\ Safe(q, k) => Safe(q, k)'
          /\ \A d \in Outstanding' : d \in Outstanding \/ Safe(d.payload, d.attempts)'
      BY <2>1, <2>3, <2>4
    <3>2. QED BY <2>5, <3>1, RiskStep
  <2>7. p \notin Risk'
    <3>1. Safe(p, 0)'
      BY <2>3 DEF Safe
    <3>2. \A d \in Outstanding : d.payload # p
      BY <1>2, HoldsEnvelopes DEF Enqueue, Queued
    <3>3. QED BY <2>3, <3>1, <3>2 DEF Risk
  <2>8. QED BY <2>6, <2>7
<1>3. QED BY <1>1, <1>2

\* Nor does the clock.
LEMMA ClockRisksNone ==
  ASSUME QueueInv, NEW e \in Envelope, BecomeDue(e)
  PROVE  Risk' \subseteq Risk
<1>1. later' \cup ready' = later \cup ready /\ UNCHANGED <<ingest, queue, worker, settled>>
  BY DEF BecomeDue
<1>2. Available' = Available /\ Outstanding' = Outstanding
  BY <1>1 DEF Available, Held, Outstanding
<1>3. Risk' \subseteq Risk \cup {}
  BY <1>1, <1>2, NoNewRisk
<1>4. QED BY <1>3

\* Nor do the drain, a look at the queue or waiting: the envelopes that a drain
\* removes have been pushed.
LEMMA DrainRisksNone ==
  ASSUME QueueInv, NEW w \in Worker,
         \/ ReadReady(w) \/ PushReady(w) \/ RemoveReady(w) \/ PeekNext(w) \/ StartOver(w)
         \/ Pop(w) \/ TimeOut(w)
  PROVE  Risk' \subseteq Risk
<1>1. UNCHANGED <<ingest, settled>>
  BY DEF ReadReady, PushReady, RemoveReady, PeekNext, StartOver, Pop, TimeOut, redis
<1> DEFINE B == ToSet(worker[w].batch)
<1>2. /\ worker[w] \in Memory /\ worker[w].batch \in Seq(Queued) /\ B \subseteq Queued
      /\ worker[w].pc \in {"run", "failed"} <=> worker[w].job # <<>>
  <2>1. worker[w] \in Memory
    BY DEF QueueInv
  <2>2. worker[w].batch \in Seq(Queued)
    BY <2>1 DEF Memory
  <2>3. QED BY <2>1, <2>2, Members DEF QueueInv
<1> HIDE DEF B
<1>3. SUFFICES /\ Available \subseteq Available'
               /\ \A e \in Outstanding' : e \in Outstanding \/ (e \in Available' /\ e \in Queued)
  <2>1. Risk' \subseteq Risk \cup {}
    BY <1>1, <1>3, NoNewRisk
  <2>2. QED BY <2>1
<1>5. CASE ReadReady(w) \/ PeekNext(w) \/ StartOver(w) \/ TimeOut(w)
  <2>1. UNCHANGED <<queue, later, ready>> /\ \A v \in Worker : v # w => worker'[v] = worker[v]
    BY <1>5 DEF ReadReady, PeekNext, StartOver, TimeOut, redis, QueueInv
  <2>2. worker[w].job = <<>> /\ worker'[w].pc # "remove" /\ worker[w].pc # "remove"
    <3>1. worker[w].pc \in {"read", "peek", "pop"}
      BY <1>5 DEF ReadReady, PeekNext, StartOver, TimeOut
    <3>2. worker'[w].pc # "remove"
      <4>1. CASE ReadReady(w)
        <5>1. PICK order \in SetToSeqs(ready) :
                worker' = [worker EXCEPT ![w] =
                  [worker[w] EXCEPT !.batch = FirstOf(order), !.seen = ready,
                                    !.pc = IF ready = {} THEN "peek" ELSE "push"]]
          BY <4>1 DEF ReadReady
        <5>2. QED BY <1>2, <5>1 DEF QueueInv, Memory
      <4>2. CASE PeekNext(w)
        <5>1. PICK e \in NextWake(later \cup (ready \ worker[w].seen)) :
                worker' = [worker EXCEPT ![w] =
                  [worker[w] EXCEPT !.wake = e, !.pc = "pop", !.seen = {}]]
          BY <4>2 DEF PeekNext
        <5>2. QED BY <1>2, <5>1 DEF QueueInv, Memory
      <4>3. CASE StartOver(w) \/ TimeOut(w)
        BY <4>3 DEF StartOver, TimeOut, QueueInv, Idle
      <4>4. QED BY <1>5, <4>1, <4>2, <4>3
    <3>3. QED BY <1>2, <3>1, <3>2
  <2>3. Outstanding' = Outstanding
    BY <2>1, <2>2, OneWorker
  <2>4. Held \subseteq Held'
    BY <2>1, <2>2, OneWorker, JobSet
  <2>5. QED BY <2>1, <2>3, <2>4 DEF Available
<1>6. CASE PushReady(w)
  <2>1. /\ UNCHANGED <<later, ready>> /\ \A v \in Worker : v # w => worker'[v] = worker[v]
        /\ worker'[w] = [worker[w] EXCEPT !.pc = "remove"] /\ worker[w].pc = "push"
        /\ queue' = Reverse(worker[w].batch) \o queue
    BY <1>6 DEF PushReady, QueueInv
  <2>2. ToSet(queue') = B \cup ToSet(queue)
    BY <1>2, <2>1, ReverseSeq, ConcatSeq DEF QueueInv, B
  <2>3. worker'[w].batch = worker[w].batch /\ worker[w].job = <<>>
    BY <1>2, <2>1 DEF Memory
  <2>4. Held \subseteq Held' /\ B \subseteq Held'
    BY <2>1, <2>2, <2>3, OneWorker, JobSet
  <2>5. \A e \in Outstanding' : e \in Outstanding \/ e \in B
    BY <2>1, <2>3, OneWorker DEF B
  <2>6. QED BY <1>2, <2>1, <2>4, <2>5 DEF Available
<1>7. CASE RemoveReady(w)
  <2>1. /\ UNCHANGED queue /\ \A v \in Worker : v # w => worker'[v] = worker[v]
        /\ worker[w].pc = "remove" /\ \A e \in later \cup ready : e \in later' \cup ready' \/ e \in B
    BY <1>7 DEF RemoveReady, Removed, QueueInv, B
  <2>2. worker'[w].pc # "remove"
    BY <1>2, <1>7 DEF RemoveReady, QueueInv, Memory
  <2>3. B \subseteq Outstanding
    BY <2>1 DEF Outstanding, B
  <2>4. Held \subseteq Held' /\ Outstanding' \subseteq Outstanding
    BY <1>2, <2>1, <2>2, OneWorker, JobSet
  <2>5. QED BY <2>1, <2>3, <2>4 DEF Available
<1>8. CASE Pop(w)
  <2>1. /\ UNCHANGED <<later, ready>> /\ \A v \in Worker : v # w => worker'[v] = worker[v]
        /\ worker'[w].pc = "run" /\ worker'[w].job = <<Last(queue)>> /\ worker[w].pc = "pop"
        /\ queue # <<>> /\ queue' = Front(queue)
    BY <1>8 DEF Pop, QueueInv, Idle
  <2>2. ToSet(queue) = ToSet(queue') \cup {Last(queue)}
    BY <2>1, FrontLast DEF QueueInv
  <2>3. Held \subseteq Held'
    BY <1>2, <2>1, <2>2, OneWorker, JobSet
  <2>4. Outstanding' = Outstanding
    BY <2>1, OneWorker
  <2>5. QED BY <2>1, <2>3, <2>4 DEF Available
<1>9. QED BY <1>5, <1>6, <1>7, <1>8
\* The handler, giving up and trying again put no delivery at risk; a fault puts at
\* most the one in the worker's hands.
LEMMA WorkRisks ==
  ASSUME QueueInv, NEW w \in Worker, Handle(w) \/ Drop(w) \/ Reschedule(w) \/ Fault(w)
  PROVE  \/ Risk' \subseteq Risk
         \/ Fault(w) /\ \E p \in Payload : Risk' \subseteq Risk \cup {p}
<1> DEFINE r == worker[w]
<1>1. r \in Memory /\ (r.pc \in {"run", "failed"} <=> r.job # <<>>)
  BY DEF QueueInv
<1>2. r.job # <<>> =>
        \E e \in Queued : ToSet(r.job) = {e} /\ Job(w) = e /\ e.payload \in Payload
  BY <1>1, JobSet DEF Memory, Job, Queued, Envelope
<1>3. /\ UNCHANGED <<ingest, queue>> /\ settled \subseteq settled'
      /\ \A v \in Worker : v # w => worker'[v] = worker[v]
  BY DEF Handle, Drop, Reschedule, Fault, redis, QueueInv
<1>4. ASSUME worker' = [worker EXCEPT ![w] = Idle], r.pc # "remove"
      PROVE  Outstanding' = Outstanding
  BY <1>3, <1>4, OneWorker DEF QueueInv, Idle
<1>5. ASSUME NEW e \in Queued, ToSet(r.job) = {e}, e.payload \in settled',
             worker' = [worker EXCEPT ![w] = Idle], r.pc # "remove", UNCHANGED <<later, ready>>
      PROVE  Risk' \subseteq Risk
  <2>1. Outstanding' = Outstanding
    BY <1>4, <1>5
  <2>2. \A d \in Held : d = e \/ d \in Held'
    BY <1>3, <1>5, OneWorker
  <2>3. \A d \in Available : d = e \/ d \in Available'
    BY <1>5, <2>1, <2>2 DEF Available
  <2>4. {e.payload} \in SUBSET Payload
    BY DEF Queued, Envelope
  <2>5. Risk' \subseteq Risk \cup {e.payload}
    BY <1>3, <2>1, <2>3, <2>4, NoNewRisk
  <2>6. e.payload \notin Risk'
    BY <1>5 DEF Risk
  <2>7. QED BY <2>5, <2>6
<1>6. CASE Handle(w)
  <2>1. r.pc = "run" /\ UNCHANGED <<later, ready>>
    BY <1>6 DEF Handle, redis
  <2>2. PICK e \in Queued : ToSet(r.job) = {e} /\ Job(w) = e /\ e.payload \in Payload
    BY <1>1, <1>2, <2>1
  <2>3. CASE worker' = [worker EXCEPT ![w] = Idle] /\ settled' = settled \cup {Job(w).payload}
    BY <1>5, <2>1, <2>2, <2>3
  <2>4. CASE worker' = [worker EXCEPT ![w].pc = "failed"]
    <3>1. worker'[w].pc = "failed" /\ worker'[w].job = r.job
      BY <1>1, <2>4 DEF QueueInv, Memory
    <3>2. Held \subseteq Held' /\ Outstanding' = Outstanding
      BY <1>3, <2>1, <3>1, OneWorker
    <3>3. Available \subseteq Available'
      BY <2>1, <3>2 DEF Available
    <3>4. Risk' \subseteq Risk \cup {}
      BY <1>3, <3>2, <3>3, NoNewRisk
    <3>5. QED BY <3>4
  <2>5. QED BY <1>6, <2>3, <2>4 DEF Handle
<1>7. CASE Drop(w)
  <2>1. PICK e \in Queued : ToSet(r.job) = {e} /\ Job(w) = e /\ e.payload \in Payload
    BY <1>1, <1>2, <1>7 DEF Drop
  <2>2. QED BY <1>5, <1>7, <2>1 DEF Drop, redis
<1>8. CASE Reschedule(w)
  <2>1. PICK e \in Queued : ToSet(r.job) = {e} /\ Job(w) = e /\ e.payload \in Payload
    BY <1>1, <1>2, <1>8 DEF Reschedule
  <2> DEFINE next == [e EXCEPT !.attempts = @ + 1]
  <2>2. e.attempts \in Nat /\ next.attempts = e.attempts + 1 /\ next.payload = e.payload
    BY QueueAssumption DEF Queued, Envelope
  <2>3. later' \cup ready' = later \cup ready \cup {next} /\ worker' = [worker EXCEPT ![w] = Idle]
        /\ r.pc = "failed"
    BY <1>8, <2>1 DEF Reschedule
  <2> HIDE DEF next
  <2>4. Outstanding' = Outstanding
    BY <1>4, <2>3
  <2>5. \A d \in Available : d = e \/ d \in Available'
    BY <1>3, <2>1, <2>3, <2>4, OneWorker DEF Available
  <2>6. next \in Available' \/ next \in Outstanding
    BY <2>3, <2>4 DEF Available
  <2>7. ASSUME NEW p \in Payload \ Risk, NEW k \in Nat,
               ingest[p] = "queued", p \notin settled, Safe(p, k)
        PROVE  Safe(p, k)'
    <3>1. PICK d \in Available : d.payload = p /\ d.attempts >= k
      BY <2>7 DEF Safe
    <3>2. CASE d # e
      BY <2>5, <3>1, <3>2 DEF Safe
    <3>3. CASE d = e /\ next \in Available'
      BY <2>2, <3>1, <3>3 DEF Safe
    <3>4. CASE d = e /\ next \in Outstanding
      <4>1. Safe(p, e.attempts + 1)
        BY <2>2, <2>7, <3>1, <3>4 DEF Risk
      <4>2. PICK c \in Available : c.payload = p /\ c.attempts >= e.attempts + 1
        BY <4>1 DEF Safe
      <4>3. c.attempts \in Nat
        BY HoldsEnvelopes, QueueAssumption DEF Queued, Envelope
      <4>4. c # e /\ c.attempts >= k
        BY <2>2, <3>1, <3>4, <4>2, <4>3
      <4>5. QED BY <2>5, <4>2, <4>4 DEF Safe
    <3>5. QED BY <2>6, <3>2, <3>3, <3>4
  <2>8. Risk' \subseteq Risk \cup {}
    <3>1. /\ {} \in SUBSET Payload
          /\ \A p \in Payload \ {} : ingest'[p] = "queued" => ingest[p] = "queued"
          /\ \A p \in Payload \ ({} \cup Risk), k \in Nat :
               ingest[p] = "queued" /\ p \notin settled /\ Safe(p, k) => Safe(p, k)'
          /\ \A d \in Outstanding' : d \in Outstanding \/ Safe(d.payload, d.attempts)'
      BY <1>3, <2>4, <2>7
    <3>2. QED BY <1>3, <3>1, RiskStep
  <2>9. QED BY <2>8
<1>9. CASE Fault(w)
  <2>1. worker' = [worker EXCEPT ![w] = Idle] /\ UNCHANGED <<later, ready>>
    BY <1>9 DEF Fault, redis
  <2>2. worker'[w].pc = "read"
    BY <2>1 DEF QueueInv, Idle
  <2>3. Outstanding' \subseteq Outstanding
    BY <1>3, <2>2, OneWorker
  <2>4. CASE r.job = <<>>
    <3>1. Held \subseteq Held'
      BY <1>3, <2>4, JobSet, OneWorker
    <3>2. Available \subseteq Available'
      BY <2>1, <2>3, <3>1 DEF Available
    <3>3. Risk' \subseteq Risk \cup {}
      BY <1>3, <2>3, <3>2, NoNewRisk
    <3>4. QED BY <3>3
  <2>5. CASE r.job # <<>>
    <3>1. PICK e \in Queued : ToSet(r.job) = {e} /\ Job(w) = e /\ e.payload \in Payload
      BY <1>2, <2>5
    <3>2. \A d \in Held : d = e \/ d \in Held'
      BY <1>3, <3>1, OneWorker
    <3>3. \A d \in Available : d = e \/ d \in Available'
      BY <2>1, <2>3, <3>2 DEF Available
    <3>4. Risk' \subseteq Risk \cup {e.payload}
      BY <1>3, <2>3, <3>1, <3>3, NoNewRisk
    <3>5. QED BY <1>9, <3>1, <3>4
  <2>6. QED BY <2>4, <2>5
<1>10. QED BY <1>6, <1>7, <1>8, <1>9

\* At most one delivery is at risk for each fault.
FewAtRisk == IsFiniteSet(Risk) /\ Cardinality(Risk) <= faults

\* The bound holds after every step.
LEMMA FewStayAtRisk == QueueInv /\ FewAtRisk /\ [Next]_vars => FewAtRisk'
<1>1. ASSUME QueueInv, FewAtRisk, Risk' \subseteq Risk, faults' \in {faults, faults + 1}
      PROVE  FewAtRisk'
  <2>1. IsFiniteSet(Risk') /\ Cardinality(Risk') <= Cardinality(Risk)
    BY <1>1, FS_Subset DEF FewAtRisk
  <2>2. Cardinality(Risk) \in Nat /\ Cardinality(Risk') \in Nat
    BY <1>1, <2>1, FS_CardinalityType DEF FewAtRisk
  <2>3. QED BY <1>1, <2>1, <2>2, QueueAssumption DEF FewAtRisk, QueueInv
<1>2. ASSUME QueueInv, FewAtRisk, NEW p \in Payload, Risk' \subseteq Risk \cup {p},
             faults' = faults + 1
      PROVE  FewAtRisk'
  <2>1. IsFiniteSet(Risk \cup {p}) /\ Cardinality(Risk \cup {p}) <= Cardinality(Risk) + 1
    <3>1. IsFiniteSet(Risk) /\ Cardinality(Risk) \in Nat
      BY <1>2, FS_CardinalityType DEF FewAtRisk
    <3>2. /\ IsFiniteSet(Risk \cup {p})
          /\ Cardinality(Risk \cup {p}) = IF p \in Risk THEN Cardinality(Risk)
                                           ELSE Cardinality(Risk) + 1
      BY <3>1, FS_AddElement
    <3>3. QED BY <3>1, <3>2
  <2>2. IsFiniteSet(Risk') /\ Cardinality(Risk') <= Cardinality(Risk \cup {p})
    BY <1>2, <2>1, FS_Subset
  <2>3. /\ Cardinality(Risk) \in Nat /\ Cardinality(Risk') \in Nat
        /\ Cardinality(Risk \cup {p}) \in Nat
    BY <1>2, <2>1, <2>2, FS_CardinalityType DEF FewAtRisk
  <2>4. QED BY <1>2, <2>1, <2>2, <2>3, QueueAssumption DEF FewAtRisk, QueueInv
<1>3. ASSUME QueueInv, FewAtRisk, NEW p \in Payload, Store(p) \/ Enqueue(p) \/ EnqueueFails(p)
      PROVE  FewAtRisk'
  BY <1>1, <1>3, IngestRisksNone DEF Store, Enqueue, EnqueueFails
<1>4. ASSUME QueueInv, FewAtRisk, NEW w \in Worker, Step(w) \/ Fault(w)
      PROVE  FewAtRisk'
  <2>1. CASE Fault(w)
    <3>1. faults' = faults + 1
      BY <2>1 DEF Fault
    <3>2. QED BY <1>1, <1>2, <1>4, <2>1, <3>1, WorkRisks
  <2>2. CASE Handle(w) \/ Drop(w) \/ Reschedule(w)
    <3>1. faults' = faults
      BY <2>2 DEF Handle, Drop, Reschedule
    <3>2. ~Fault(w)
      BY <1>4, <3>1, QueueAssumption DEF Fault, QueueInv
    <3>3. Risk' \subseteq Risk
      BY <1>4, <2>2, <3>2, WorkRisks
    <3>4. QED BY <1>1, <1>4, <3>1, <3>3
  <2>3. CASE \/ ReadReady(w) \/ PushReady(w) \/ RemoveReady(w) \/ PeekNext(w) \/ StartOver(w)
             \/ Pop(w) \/ TimeOut(w)
    <3>1. faults' = faults
      BY <2>3 DEF ReadReady, PushReady, RemoveReady, PeekNext, StartOver, Pop, TimeOut
    <3>2. QED BY <1>1, <1>4, <2>3, <3>1, DrainRisksNone
  <2>4. QED BY <1>4, <2>1, <2>2, <2>3 DEF Step
<1>5. ASSUME QueueInv, FewAtRisk, Next PROVE FewAtRisk'
  <2>1. CASE \E e \in Envelope : BecomeDue(e)
    BY <1>1, <1>5, <2>1, ClockRisksNone DEF BecomeDue
  <2>2. CASE ~ \E e \in Envelope : BecomeDue(e)
    BY <1>3, <1>4, <1>5, <2>2 DEF Next
  <2>3. QED BY <2>1, <2>2
<1>6. ASSUME QueueInv, FewAtRisk, UNCHANGED vars PROVE FewAtRisk'
  <2>1. Risk' = Risk
    BY <1>6 DEF vars, Risk, Safe, Available, Held, Outstanding
  <2>2. QED BY <1>1, <1>6, <2>1 DEF vars
<1>7. QED BY <1>5, <1>6

\* A crash of a worker, or a Redis command that raises, costs at most one delivery:
\* draining the scheduled set, which other workers do at the same time, loses none.
THEOREM FaultsCostOneEach == Spec => []OneLossPerFault
<1>1. Init => FewAtRisk
  <2>1. Init => Risk = {}
    BY DEF Init, Risk
  <2>2. Init => faults = 0
    BY DEF Init
  <2>3. IsFiniteSet({}) /\ Cardinality({}) = 0
    BY FS_EmptySet
  <2>4. QED BY <2>1, <2>2, <2>3 DEF FewAtRisk
<1>2. QueueInv /\ FewAtRisk => OneLossPerFault
  <2> SUFFICES ASSUME QueueInv, FewAtRisk PROVE OneLossPerFault
    OBVIOUS
  <2>1. Lost \subseteq Risk
    <3> SUFFICES ASSUME NEW p \in Lost, Safe(p, 0) PROVE FALSE
      BY DEF Lost, Risk
    <3>1. PICK e \in Available : e.payload = p
      BY DEF Safe
    <3>2. e \in Copies(p)
      BY <3>1 DEF Available, Held, Copies
    <3>3. QED BY <3>2 DEF Lost
  <2>2. IsFiniteSet(Lost) /\ Cardinality(Lost) <= Cardinality(Risk)
    BY <2>1, FS_Subset DEF FewAtRisk
  <2>3. Cardinality(Lost) \in Nat /\ Cardinality(Risk) \in Nat
    BY <2>2, FS_CardinalityType DEF FewAtRisk
  <2>4. QED BY <2>2, <2>3, QueueAssumption DEF FewAtRisk, OneLossPerFault, QueueInv
<1>3. QED BY <1>1, <1>2, QueueInit, NextKeepsTypes, FewStayAtRisk, PTL DEF Spec
=============================================================================
