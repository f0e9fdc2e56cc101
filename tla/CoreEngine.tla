------------------------------ MODULE CoreEngine ------------------------------
(***************************************************************************)
(* The stream engine (src/core_engine/rust/src/main.rs): a consumer loop   *)
(* that spawns one task per message of the topic, and the tasks, which run *)
(* on several threads.  A task looks into the idempotency cache, takes a   *)
(* permit, pushes its transaction into the graph writer's buffer, whose    *)
(* lock makes the push atomic and is dropped before the batch is written,  *)
(* and caches its result.  Offsets are never committed and the consumer    *)
(* starts at the latest offset, so a crash loses the memory of the process *)
(* and whatever the topic held.  In this build the Cypher query of a batch *)
(* is built and not yet sent, and feature hydration and the dead letter    *)
(* queue have empty bodies: the model counts what flush_batch is handed.   *)
(***************************************************************************)
EXTENDS Naturals, Sequences, FiniteSets

CONSTANTS
    Transactions,    \* transaction ids
    Tasks,           \* task slots
    MaxPermits,      \* the semaphore (500)
    BatchSize,       \* graph_writer.batch_size (100)
    MaxMessages,     \* bound on the messages produced
    MaxCrashes,      \* bound on the crashes
    Expiry           \* whether cache entries expire within the behaviour (300 s)

ASSUME EngineAssumption ==
    /\ IsFiniteSet(Tasks)
    /\ MaxPermits \in Nat \ {0}
    /\ BatchSize \in Nat \ {0}
    /\ MaxMessages \in Nat /\ MaxCrashes \in Nat
    /\ Expiry \in BOOLEAN

VARIABLES
    topic,       \* messages not yet consumed, in order
    produced,    \* messages produced so far
    task,        \* task slot -> its step and transaction
    cache,       \* transactions in the idempotency cache
    permits,     \* free permits of the semaphore
    buffer,      \* graph_writer.buffer
    flushed,     \* transaction -> times it was handed to flush_batch
    crashes

vars == <<topic, produced, task, cache, permits, buffer, flushed, crashes>>

None == "none"

\* A task in step "flushing" holds the batch it has drained.
Task == [pc : {"free", "spawned", "waiting", "running", "flushing", "pushed"},
         tx : Transactions \cup {None}, batch : Seq(Transactions)]

TypeOK ==
    /\ topic \in Seq(Transactions)
    /\ produced \in 0 .. MaxMessages
    /\ task \in [Tasks -> Task]
    /\ cache \subseteq Transactions
    /\ permits \in 0 .. MaxPermits
    /\ buffer \in Seq(Transactions)
    /\ flushed \in [Transactions -> Nat]
    /\ crashes \in 0 .. MaxCrashes

FreeTask == [pc |-> "free", tx |-> None, batch |-> <<>>]

Init ==
    /\ topic = <<>>
    /\ produced = 0
    /\ task = [t \in Tasks |-> FreeTask]
    /\ cache = {}
    /\ permits = MaxPermits
    /\ buffer = <<>>
    /\ flushed = [x \in Transactions |-> 0]
    /\ crashes = 0

-----------------------------------------------------------------------------
\* A producer that saw no acknowledgement sends the same transaction again.
Produce(x) ==
    /\ produced < MaxMessages
    /\ topic' = Append(topic, x)
    /\ produced' = produced + 1
    /\ UNCHANGED <<task, cache, permits, buffer, flushed, crashes>>

\* The loop of main: tokio::spawn does not wait.
Consume(t) ==
    /\ topic # <<>>
    /\ task[t].pc = "free"
    /\ task' = [task EXCEPT ![t] = [pc |-> "spawned", tx |-> Head(topic), batch |-> <<>>]]
    /\ topic' = Tail(topic)
    /\ UNCHANGED <<produced, cache, permits, buffer, flushed, crashes>>

CheckCache(t) ==
    /\ task[t].pc = "spawned"
    /\ task' = [task EXCEPT ![t] = IF @.tx \in cache THEN FreeTask
                                                     ELSE [@ EXCEPT !.pc = "waiting"]]
    /\ UNCHANGED <<topic, produced, cache, permits, buffer, flushed, crashes>>

AcquirePermit(t) ==
    /\ task[t].pc = "waiting"
    /\ permits > 0
    /\ permits' = permits - 1
    /\ task' = [task EXCEPT ![t].pc = "running"]
    /\ UNCHANGED <<topic, produced, cache, buffer, flushed, crashes>>

\* Variant for mutation: the push that fills the batch is not part of it.
PushDrainsFirst(t) ==
    /\ task[t].pc = "running"
    /\ LET pushed == Append(buffer, task[t].tx)
       IN IF Len(pushed) >= BatchSize
          THEN /\ buffer' = <<>>
               /\ task' = [task EXCEPT ![t].pc = "flushing", ![t].batch = buffer]
          ELSE /\ buffer' = pushed
               /\ task' = [task EXCEPT ![t].pc = "pushed"]
    /\ UNCHANGED <<topic, produced, cache, permits, flushed, crashes>>

Moved(k, pc, batch) == [pc |-> pc, tx |-> k.tx, batch |-> batch]

Push(t) ==
    /\ task[t].pc = "running"
    /\ LET pushed == Append(buffer, task[t].tx)
       IN IF Len(pushed) >= BatchSize
          THEN /\ buffer' = <<>>
               /\ task' = [task EXCEPT ![t] = Moved(@, "flushing", pushed)]
          ELSE /\ buffer' = pushed
               /\ task' = [task EXCEPT ![t].pc = "pushed"]
    /\ UNCHANGED <<topic, produced, cache, permits, flushed, crashes>>

Times(x, s) == Cardinality({i \in DOMAIN s : s[i] = x})

\* One UNWIND statement is to apply the whole batch: r.count grows once per row.
FlushBatch(t) ==
    /\ task[t].pc = "flushing"
    /\ flushed' = [x \in Transactions |-> flushed[x] + Times(x, task[t].batch)]
    /\ task' = [task EXCEPT ![t] = Moved(@, "pushed", <<>>)]
    /\ UNCHANGED <<topic, produced, cache, permits, buffer, crashes>>

\* Variant for mutation: the permit is not given back.
FinishKeepsPermit(t) ==
    /\ task[t].pc = "pushed"
    /\ cache' = cache \cup {task[t].tx}
    /\ task' = [task EXCEPT ![t] = FreeTask]
    /\ UNCHANGED <<topic, produced, permits, buffer, flushed, crashes>>

\* The result is cached, and the permit is dropped with the task.
Finish(t) ==
    /\ task[t].pc = "pushed"
    /\ cache' = cache \cup {task[t].tx}
    /\ permits' = permits + 1
    /\ task' = [task EXCEPT ![t] = FreeTask]
    /\ UNCHANGED <<topic, produced, buffer, flushed, crashes>>

\* get and evict_expired drop entries past their time to live.
EvictExpired(x) ==
    /\ Expiry
    /\ x \in cache
    /\ cache' = cache \ {x}
    /\ UNCHANGED <<topic, produced, task, permits, buffer, flushed, crashes>>

\* The process dies and is started again at the latest offset.
Crash ==
    /\ crashes < MaxCrashes
    /\ crashes' = crashes + 1
    /\ topic' = <<>>
    /\ task' = [t \in Tasks |-> FreeTask]
    /\ cache' = {}
    /\ permits' = MaxPermits
    /\ buffer' = <<>>
    /\ UNCHANGED <<produced, flushed>>

-----------------------------------------------------------------------------
TaskStep(t) ==
    \/ CheckCache(t)
    \/ AcquirePermit(t)
    \/ Push(t)
    \/ FlushBatch(t)
    \/ Finish(t)

Next ==
    \/ \E x \in Transactions : Produce(x) \/ EvictExpired(x)
    \/ \E t \in Tasks : Consume(t) \/ TaskStep(t)
    \/ Crash

Spec == Init /\ [][Next]_vars

\* The runtime polls every ready task.
Fairness == \A t \in Tasks : WF_vars(TaskStep(t))

LiveSpec == Spec /\ Fairness

-----------------------------------------------------------------------------
(* Properties *)

Holders == {t \in Tasks : task[t].pc \in {"running", "flushing", "pushed"}}

\* Permits are neither lost nor invented, across tasks and crashes.
PermitsConserved == permits + Cardinality(Holders) = MaxPermits

\* The buffer never keeps a full batch when its lock is free, and a drained batch is full:
\* flush_batch is called with whole batches only.
BatchesFull ==
    /\ Len(buffer) < BatchSize
    /\ \A t \in Tasks : task[t].pc = "flushing" => Len(task[t].batch) = BatchSize

\* The write of x is in the buffer, in a batch on its way, or was handed to flush_batch.
Taken(x) ==
    flushed[x] > 0 \/ Times(x, buffer) > 0 \/ \E t \in Tasks : Times(x, task[t].batch) > 0

\* A message is answered from the cache, and dropped, only if the graph writer has the
\* write of an earlier one: across drains, expiry and crashes no cached write is lost.
CachedIsTaken == \A x \in cache : Taken(x)

\* Every task that was spawned ends, unless the process dies: no permit is waited for in
\* vain, whatever the other tasks do.
TasksFinish ==
    \A t \in Tasks : task[t].pc # "free" ~> task[t].pc = "free"

\* "deduplicate transactions": a transaction is handed to flush_batch once.
FlushedOnce == \A x \in Transactions : flushed[x] <= 1
=============================================================================
