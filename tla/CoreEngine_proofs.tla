-------------------------- MODULE CoreEngine_proofs --------------------------
(***************************************************************************)
(* Proofs about CoreEngine for any finite set of task slots and any        *)
(* transactions, number of permits, batch size and bounds, with and        *)
(* without expiry.                                                         *)
(***************************************************************************)
EXTENDS CoreEngine, FiniteSetTheorems, TLAPS

\* A task that was spawned has a transaction, and only a flushing task has a batch.
TasksOK ==
    \A t \in Tasks :
        /\ task[t].pc # "free" => task[t].tx \in Transactions
        /\ task[t].pc # "flushing" => task[t].batch = <<>>

\* Past its push, the transaction of a task is with the graph writer.
PushedIsTaken ==
    \A t \in Tasks, x \in Transactions :
        task[t].tx = x /\ task[t].pc \in {"flushing", "pushed"} => Taken(x)

IInv ==
    /\ TypeOK
    /\ TasksOK
    /\ PermitsConserved
    /\ BatchesFull
    /\ PushedIsTaken
    /\ CachedIsTaken

-----------------------------------------------------------------------------
(* Sequences *)

Within(x, s) == \E i \in DOMAIN s : s[i] = x

LEMMA TimesWithin ==
    ASSUME NEW T, NEW s \in Seq(T), NEW x
    PROVE  Times(x, s) \in Nat /\ (Times(x, s) > 0 <=> Within(x, s))
<1> DEFINE S == {i \in DOMAIN s : s[i] = x}
<1>1. IsFiniteSet(S)
  <2>1. DOMAIN s = 1 .. Len(s) /\ Len(s) \in Nat
    OBVIOUS
  <2>2. IsFiniteSet(1 .. Len(s))
    BY <2>1, FS_Interval
  <2>3. S \subseteq 1 .. Len(s)
    BY <2>1
  <2> QED BY <2>2, <2>3, FS_Subset
<1>2. Cardinality(S) \in Nat /\ (Cardinality(S) = 0 <=> S = {})
  BY <1>1, FS_CardinalityType, FS_EmptySet
<1>3. S = {} <=> ~Within(x, s)
  BY DEF Within
<1> QED BY <1>2, <1>3 DEF Times

LEMMA WithinAppend ==
    ASSUME NEW T, NEW s \in Seq(T), NEW y \in T, NEW x
    PROVE  Within(x, Append(s, y)) <=> Within(x, s) \/ x = y
<1>1. /\ Len(Append(s, y)) = Len(s) + 1 /\ Len(s) \in Nat
      /\ DOMAIN Append(s, y) = 1 .. Len(s) + 1 /\ DOMAIN s = 1 .. Len(s)
      /\ Append(s, y)[Len(s) + 1] = y
      /\ \A i \in 1 .. Len(s) : Append(s, y)[i] = s[i]
  OBVIOUS
<1>2. ASSUME Within(x, Append(s, y)) PROVE Within(x, s) \/ x = y
  <2>1. PICK i \in 1 .. Len(s) + 1 : Append(s, y)[i] = x
    BY <1>1, <1>2 DEF Within
  <2>2. CASE i = Len(s) + 1
    BY <1>1, <2>1, <2>2
  <2>3. CASE i \in 1 .. Len(s)
    BY <1>1, <2>1, <2>3 DEF Within
  <2> QED BY <1>1, <2>2, <2>3
<1>3. ASSUME Within(x, s) PROVE Within(x, Append(s, y))
  <2>1. PICK i \in 1 .. Len(s) : s[i] = x
    BY <1>1, <1>3 DEF Within
  <2>2. i \in 1 .. Len(s) + 1 /\ Append(s, y)[i] = x
    BY <1>1, <2>1
  <2> QED BY <1>1, <2>2 DEF Within
<1>4. ASSUME x = y PROVE Within(x, Append(s, y))
  <2>1. Len(s) + 1 \in 1 .. Len(s) + 1
    BY <1>1
  <2> QED BY <1>1, <1>4, <2>1 DEF Within
<1> QED BY <1>2, <1>3, <1>4

LEMMA WithinEmpty == ASSUME NEW x PROVE ~Within(x, <<>>)
BY DEF Within

\* Where the write of x is, without counting.
LEMMA TakenWhere ==
    ASSUME TypeOK, NEW x \in Transactions
    PROVE  Taken(x) <=> \/ flushed[x] > 0
                        \/ Within(x, buffer)
                        \/ \E t \in Tasks : Within(x, task[t].batch)
<1>1. buffer \in Seq(Transactions) /\ \A t \in Tasks : task[t].batch \in Seq(Transactions)
  BY DEF TypeOK, Task
<1>2. Times(x, buffer) > 0 <=> Within(x, buffer)
  BY <1>1, TimesWithin
<1>3. \A t \in Tasks : Times(x, task[t].batch) > 0 <=> Within(x, task[t].batch)
  BY <1>1, TimesWithin
<1> QED BY <1>2, <1>3 DEF Taken

LEMMA TakenWherePrime ==
    ASSUME TypeOK', NEW x \in Transactions
    PROVE  Taken(x)' <=> \/ flushed'[x] > 0
                         \/ Within(x, buffer')
                         \/ \E t \in Tasks : Within(x, task'[t].batch)
<1>1. buffer' \in Seq(Transactions) /\ \A t \in Tasks : task'[t].batch \in Seq(Transactions)
  BY DEF TypeOK, Task
<1>2. Times(x, buffer') > 0 <=> Within(x, buffer')
  BY <1>1, TimesWithin
<1>3. \A t \in Tasks : Times(x, task'[t].batch) > 0 <=> Within(x, task'[t].batch)
  BY <1>1, TimesWithin
<1> QED BY <1>2, <1>3 DEF Taken

-----------------------------------------------------------------------------
(* Permits *)

LEMMA HoldersFinite == IsFiniteSet(Holders) /\ Cardinality(Holders) \in Nat
<1>1. Holders \subseteq Tasks
  BY DEF Holders
<1> QED BY <1>1, EngineAssumption, FS_Subset, FS_CardinalityType

\* No task begins or ends to hold a permit.
LEMMA SameHolders ==
    ASSUME PermitsConserved, Holders' = Holders, permits' = permits
    PROVE  PermitsConserved'
BY DEF PermitsConserved

LEMMA HolderJoins ==
    ASSUME PermitsConserved, permits \in Nat, NEW t \in Tasks, t \notin Holders,
           Holders' = Holders \cup {t}, permits' = permits - 1
    PROVE  PermitsConserved'
<1>1. Cardinality(Holders') = Cardinality(Holders) + 1
  BY HoldersFinite, FS_AddElement
<1> QED BY <1>1, HoldersFinite DEF PermitsConserved

LEMMA HolderLeaves ==
    ASSUME PermitsConserved, permits \in Nat, NEW t \in Tasks, t \in Holders,
           Holders' = Holders \ {t}, permits' = permits + 1
    PROVE  PermitsConserved' /\ permits' <= MaxPermits
<1>1. Cardinality(Holders') = Cardinality(Holders) - 1
  BY HoldersFinite, FS_RemoveElement
<1>2. Cardinality(Holders) > 0
  <2>1. Holders # {} 
    OBVIOUS
  <2> QED BY <2>1, HoldersFinite, FS_EmptySet
<1> QED BY <1>1, <1>2, HoldersFinite, EngineAssumption DEF PermitsConserved

-----------------------------------------------------------------------------
(* The inductive invariant *)

LEMMA InitIInv == Init => IInv
<1> SUFFICES ASSUME Init PROVE IInv
  OBVIOUS
<1>1. TypeOK
  BY EngineAssumption DEF Init, TypeOK, Task, FreeTask
<1>2. TasksOK /\ PushedIsTaken /\ CachedIsTaken
  BY DEF Init, TasksOK, PushedIsTaken, CachedIsTaken, FreeTask
<1>3. PermitsConserved
  <2>1. Holders = {}
    BY DEF Init, Holders, FreeTask
  <2> QED BY <2>1, FS_EmptySet, EngineAssumption DEF Init, PermitsConserved
<1>4. BatchesFull
  BY EngineAssumption DEF Init, BatchesFull, FreeTask
<1> QED BY <1>1, <1>2, <1>3, <1>4 DEF IInv

LEMMA StutterIInv == ASSUME IInv, UNCHANGED vars PROVE IInv'
<1> USE DEF vars
<1>1. TypeOK' /\ TasksOK' /\ BatchesFull'
  BY DEF IInv, TypeOK, TasksOK, BatchesFull
<1>2. PermitsConserved'
  BY DEF IInv, PermitsConserved, Holders
<1>3. \A x : Taken(x)' <=> Taken(x)
  BY DEF Taken, Times
<1>4. PushedIsTaken' /\ CachedIsTaken'
  BY <1>3 DEF IInv, PushedIsTaken, CachedIsTaken
<1> QED BY <1>1, <1>2, <1>4 DEF IInv

\* Steps that touch neither tasks, nor the writer.
LEMMA WriterUntouched ==
    ASSUME IInv, UNCHANGED <<task, permits, buffer, flushed>>, cache' \subseteq cache
    PROVE  TasksOK' /\ PermitsConserved' /\ BatchesFull' /\ PushedIsTaken' /\ CachedIsTaken'
<1>1. TasksOK' /\ BatchesFull'
  BY DEF IInv, TasksOK, BatchesFull
<1>2. PermitsConserved'
  BY DEF IInv, PermitsConserved, Holders
<1>3. \A x : Taken(x)' <=> Taken(x)
  BY DEF Taken, Times
<1>4. PushedIsTaken' /\ CachedIsTaken'
  BY <1>3 DEF IInv, PushedIsTaken, CachedIsTaken
<1> QED BY <1>1, <1>2, <1>4

LEMMA ProduceKeeps == ASSUME IInv, NEW x \in Transactions, Produce(x) PROVE IInv'
<1>1. TypeOK'
  BY EngineAssumption DEF IInv, TypeOK, Produce
<1> QED BY <1>1, WriterUntouched DEF IInv, Produce

LEMMA EvictExpiredKeeps == ASSUME IInv, NEW x \in Transactions, EvictExpired(x) PROVE IInv'
<1>1. TypeOK'
  BY DEF IInv, TypeOK, EvictExpired
<1> QED BY <1>1, WriterUntouched DEF IInv, EvictExpired

LEMMA CrashKeeps == ASSUME IInv, Crash PROVE IInv'
<1>1. TypeOK'
  BY EngineAssumption DEF IInv, TypeOK, Crash, Task, FreeTask
<1>2. TasksOK' /\ PushedIsTaken' /\ CachedIsTaken'
  BY DEF Crash, TasksOK, PushedIsTaken, CachedIsTaken, FreeTask
<1>3. PermitsConserved'
  <2>1. Holders' = {}
    BY DEF Crash, Holders, FreeTask
  <2>2. Cardinality(Holders)' = 0
    BY <2>1, FS_EmptySet
  <2> QED BY <2>2, EngineAssumption DEF Crash, PermitsConserved
<1>4. BatchesFull'
  BY EngineAssumption DEF Crash, BatchesFull, FreeTask
<1> QED BY <1>1, <1>2, <1>3, <1>4 DEF IInv

-----------------------------------------------------------------------------
(* The steps of a task *)

\* A step of t that leaves the writer and the batches alone, and takes no write of its own.
LEMMA BatchesUntouched ==
    ASSUME IInv, TypeOK', NEW t \in Tasks, UNCHANGED <<buffer, flushed, cache>>,
           \A k \in Tasks : task'[k].batch = task[k].batch,
           \A k \in Tasks \ {t} : task'[k] = task[k],
           task'[t].pc \notin {"flushing", "pushed"}
    PROVE  BatchesFull' /\ PushedIsTaken' /\ CachedIsTaken'
<1>1. \A x : Taken(x)' <=> Taken(x)
  BY DEF Taken, Times
<1>2. BatchesFull'
  BY DEF IInv, BatchesFull
<1>3. PushedIsTaken'
  BY <1>1 DEF IInv, PushedIsTaken
<1>4. CachedIsTaken'
  BY <1>1 DEF IInv, CachedIsTaken
<1> QED BY <1>2, <1>3, <1>4

LEMMA ConsumeKeeps == ASSUME IInv, NEW t \in Tasks, Consume(t) PROVE IInv'
<1>0. Head(topic) \in Transactions /\ Tail(topic) \in Seq(Transactions)
  BY DEF IInv, TypeOK, Consume
<1>1. TypeOK'
  <2>1. [pc |-> "spawned", tx |-> Head(topic), batch |-> <<>>] \in Task
    BY <1>0 DEF Task
  <2>2. task' \in [Tasks -> Task]
    BY <2>1 DEF IInv, TypeOK, Consume
  <2> QED BY <1>0, <2>2 DEF IInv, TypeOK, Consume
<1>2. task[t].batch = <<>> /\ task[t].pc = "free"
  BY DEF IInv, TasksOK, Consume
<1>3. TasksOK'
  BY <1>0 DEF IInv, TypeOK, TasksOK, Consume, FreeTask
<1>4. Holders' = Holders
  BY DEF IInv, TypeOK, Consume, Holders, FreeTask
<1>5. PermitsConserved'
  BY <1>4, SameHolders DEF IInv, Consume
<1>6. BatchesFull' /\ PushedIsTaken' /\ CachedIsTaken'
  <2>1. \A k \in Tasks : task'[k].batch = task[k].batch
    BY <1>2 DEF IInv, TypeOK, Consume, FreeTask
  <2>2. \A k \in Tasks \ {t} : task'[k] = task[k]
    BY DEF IInv, TypeOK, Consume
  <2>3. task'[t].pc = "spawned"
    BY DEF IInv, TypeOK, Consume, FreeTask
  <2> QED BY <1>1, <2>1, <2>2, <2>3, BatchesUntouched DEF Consume
<1> QED BY <1>1, <1>3, <1>5, <1>6 DEF IInv

LEMMA CheckCacheKeeps == ASSUME IInv, NEW t \in Tasks, CheckCache(t) PROVE IInv'
<1>1. TypeOK'
  <2>1. task[t] \in Task
    BY DEF IInv, TypeOK
  <2>2. [task[t] EXCEPT !.pc = "waiting"] \in Task /\ FreeTask \in Task
    BY <2>1 DEF Task, FreeTask
  <2>3. task' \in [Tasks -> Task]
    BY <2>2 DEF IInv, TypeOK, CheckCache
  <2> QED BY <2>3 DEF IInv, TypeOK, CheckCache
<1>2. task[t].batch = <<>> /\ task[t].pc = "spawned"
  BY DEF IInv, TasksOK, CheckCache
<1>3. TasksOK'
  BY DEF IInv, TypeOK, TasksOK, CheckCache, FreeTask, Task
<1>4. task'[t].pc \in {"free", "waiting"}
  BY DEF IInv, TypeOK, CheckCache, FreeTask, Task
<1>5. \A k \in Tasks \ {t} : task'[k] = task[k]
  BY DEF IInv, TypeOK, CheckCache
<1>6. Holders' = Holders
  BY <1>2, <1>4, <1>5 DEF Holders
<1>7. PermitsConserved'
  BY <1>6, SameHolders DEF IInv, CheckCache
<1>8. BatchesFull' /\ PushedIsTaken' /\ CachedIsTaken'
  <2>1. \A k \in Tasks : task'[k].batch = task[k].batch
    BY <1>2, <1>5 DEF IInv, TypeOK, CheckCache, FreeTask
  <2> QED BY <1>1, <1>4, <1>5, <2>1, BatchesUntouched DEF CheckCache
<1> QED BY <1>1, <1>3, <1>7, <1>8 DEF IInv

LEMMA AcquirePermitKeeps == ASSUME IInv, NEW t \in Tasks, AcquirePermit(t) PROVE IInv'
<1>1. TypeOK'
  <2>1. task[t] \in Task
    BY DEF IInv, TypeOK
  <2>2. [task[t] EXCEPT !.pc = "running"] \in Task
    BY <2>1 DEF Task
  <2>3. task' \in [Tasks -> Task]
    BY <2>2 DEF IInv, TypeOK, AcquirePermit
  <2>4. permits' \in 0 .. MaxPermits
    BY EngineAssumption DEF IInv, TypeOK, AcquirePermit
  <2> QED BY <2>3, <2>4 DEF IInv, TypeOK, AcquirePermit
<1>2. task[t].pc = "waiting" /\ task'[t].pc = "running"
  BY DEF IInv, TypeOK, AcquirePermit
<1>3. TasksOK'
  BY DEF IInv, TypeOK, TasksOK, AcquirePermit, Task
<1>4. \A k \in Tasks \ {t} : task'[k] = task[k]
  BY DEF IInv, TypeOK, AcquirePermit
<1>5. t \notin Holders /\ Holders' = Holders \cup {t}
  BY <1>2, <1>4 DEF Holders
<1>6. permits \in Nat /\ permits' = permits - 1
  BY EngineAssumption DEF IInv, TypeOK, AcquirePermit
<1>7. PermitsConserved'
  BY <1>5, <1>6, HolderJoins DEF IInv
<1>8. BatchesFull' /\ PushedIsTaken' /\ CachedIsTaken'
  <2>1. \A k \in Tasks : task'[k].batch = task[k].batch
    BY DEF IInv, TypeOK, AcquirePermit, Task
  <2> QED BY <1>1, <1>2, <1>4, <2>1, BatchesUntouched DEF AcquirePermit
<1> QED BY <1>1, <1>3, <1>7, <1>8 DEF IInv

LEMMA PushKeeps == ASSUME IInv, NEW t \in Tasks, Push(t) PROVE IInv'
<1> DEFINE pushed == Append(buffer, task[t].tx)
<1>1. /\ task[t] \in Task /\ task[t].pc = "running"
      /\ task[t].tx \in Transactions /\ task[t].batch = <<>>
      /\ buffer \in Seq(Transactions)
  BY DEF IInv, TypeOK, TasksOK, Push
<1>2. /\ pushed \in Seq(Transactions)
      /\ Len(pushed) = Len(buffer) + 1 /\ Len(buffer) \in Nat
      /\ \A x : Within(x, pushed) <=> Within(x, buffer) \/ x = task[t].tx
  BY <1>1, WithinAppend
<1>3. \A k \in Tasks \ {t} : task'[k] = task[k]
  BY DEF IInv, TypeOK, Push
<1>4. \/ /\ Len(pushed) >= BatchSize
         /\ buffer' = <<>>
         /\ task'[t] = Moved(task[t], "flushing", pushed)
      \/ /\ ~(Len(pushed) >= BatchSize)
         /\ buffer' = pushed
         /\ task'[t] = [task[t] EXCEPT !.pc = "pushed"]
  BY DEF IInv, TypeOK, Push
<1> HIDE DEF pushed
<1>4a. task'[t] = Moved(task[t], "flushing", pushed)
        => /\ task'[t] \in Task /\ task'[t].pc = "flushing"
           /\ task'[t].tx = task[t].tx /\ task'[t].batch = pushed
  BY <1>1, <1>2 DEF Moved, Task
<1>4b. task'[t] = [task[t] EXCEPT !.pc = "pushed"]
        => /\ task'[t] \in Task /\ task'[t].pc = "pushed"
           /\ task'[t].tx = task[t].tx /\ task'[t].batch = task[t].batch
  BY <1>1 DEF Task
<1>5. \/ /\ Len(pushed) >= BatchSize
         /\ buffer' = <<>>
         /\ task'[t].pc = "flushing" /\ task'[t].batch = pushed
      \/ /\ Len(pushed) < BatchSize
         /\ buffer' = pushed
         /\ task'[t].pc = "pushed" /\ task'[t].batch = <<>>
  BY <1>1, <1>2, <1>4, <1>4a, <1>4b, EngineAssumption
<1>6. task'[t] \in Task /\ task'[t].tx = task[t].tx
  BY <1>4, <1>4a, <1>4b
<1>7. TypeOK'
  <2>1. task' \in [Tasks -> Task]
    BY <1>6, <1>3 DEF IInv, TypeOK, Push
  <2>2. buffer' \in Seq(Transactions)
    <3>1. <<>> \in Seq(Transactions)
      OBVIOUS
    <3> QED BY <1>2, <1>5, <3>1
  <2> QED BY <2>1, <2>2 DEF IInv, TypeOK, Push
<1>8. TasksOK'
  BY <1>1, <1>3, <1>5, <1>6 DEF IInv, TasksOK
<1>9. Holders' = Holders
  BY <1>1, <1>3, <1>5 DEF Holders
<1>10. PermitsConserved'
  BY <1>9, SameHolders DEF IInv, Push
<1>11. BatchesFull'
  <2>1. Len(buffer) < BatchSize
    BY DEF IInv, BatchesFull
  <2>2. Len(buffer') < BatchSize
    BY <1>5, EngineAssumption
  <2>3. task'[t].pc = "flushing" => Len(task'[t].batch) = BatchSize
    BY <1>2, <1>5, <2>1, EngineAssumption
  <2> QED BY <1>3, <2>2, <2>3 DEF IInv, BatchesFull
<1>12. ASSUME NEW x \in Transactions, x = task[t].tx PROVE Taken(x)'
  <2>1. Within(x, pushed)
    BY <1>2, <1>12
  <2>2. Within(x, buffer') \/ Within(x, task'[t].batch)
    BY <1>5, <2>1
  <2> QED BY <1>7, <2>2, TakenWherePrime
<1>13. ASSUME NEW x \in Transactions, Taken(x) PROVE Taken(x)'
  <2>1. \/ flushed[x] > 0 \/ Within(x, buffer)
        \/ \E k \in Tasks : Within(x, task[k].batch)
    BY <1>13, TakenWhere DEF IInv
  <2>2. Within(x, buffer) => Within(x, buffer') \/ Within(x, task'[t].batch)
    BY <1>2, <1>5
  <2>3. \A k \in Tasks : Within(x, task[k].batch) => Within(x, task'[k].batch)
    BY <1>1, <1>3, WithinEmpty
  <2>4. flushed' = flushed
    BY DEF Push
  <2> QED BY <1>7, <2>1, <2>2, <2>3, <2>4, TakenWherePrime
<1>14. PushedIsTaken'
  <2>1. ASSUME NEW k \in Tasks, NEW x \in Transactions,
               task'[k].tx = x, task'[k].pc \in {"flushing", "pushed"}
        PROVE  Taken(x)'
    <3>1. CASE k = t
      BY <1>6, <1>12, <2>1, <3>1
    <3>2. CASE k # t
      <4>1. Taken(x)
        BY <1>3, <2>1, <3>2 DEF IInv, PushedIsTaken
      <4> QED BY <1>13, <4>1
    <3> QED BY <3>1, <3>2
  <2> QED BY <2>1 DEF PushedIsTaken
<1>15. CachedIsTaken'
  BY <1>13 DEF IInv, TypeOK, CachedIsTaken, Push
<1> QED BY <1>7, <1>8, <1>10, <1>11, <1>14, <1>15 DEF IInv

LEMMA FlushBatchKeeps == ASSUME IInv, NEW t \in Tasks, FlushBatch(t) PROVE IInv'
<1>1. /\ task[t] \in Task /\ task[t].pc = "flushing"
      /\ task[t].batch \in Seq(Transactions)
      /\ task' = [task EXCEPT ![t] = Moved(task[t], "pushed", <<>>)]
  BY DEF IInv, TypeOK, FlushBatch, Task
<1>2. /\ task'[t] \in Task /\ task'[t].pc = "pushed"
      /\ task'[t].batch = <<>> /\ task'[t].tx = task[t].tx
  <2>1. task'[t] = Moved(task[t], "pushed", <<>>)
    BY <1>1 DEF IInv, TypeOK
  <2>2. <<>> \in Seq(Transactions)
    OBVIOUS
  <2> QED BY <1>1, <2>1, <2>2 DEF Moved, Task
<1>3. \A k \in Tasks \ {t} : task'[k] = task[k]
  BY <1>1 DEF IInv, TypeOK
<1>4. ASSUME NEW x \in Transactions
      PROVE  /\ Times(x, task[t].batch) \in Nat
             /\ Times(x, task[t].batch) > 0 <=> Within(x, task[t].batch)
             /\ flushed[x] \in Nat
             /\ flushed'[x] = flushed[x] + Times(x, task[t].batch)
  BY <1>1, TimesWithin DEF IInv, TypeOK, FlushBatch
<1>5. TypeOK'
  <2>1. task' \in [Tasks -> Task]
    BY <1>1, <1>2 DEF IInv, TypeOK
  <2>2. flushed' \in [Transactions -> Nat]
    BY <1>4 DEF FlushBatch
  <2> QED BY <2>1, <2>2 DEF IInv, TypeOK, FlushBatch
<1>6. TasksOK'
  BY <1>1, <1>2, <1>3 DEF IInv, TasksOK
<1>7. Holders' = Holders
  BY <1>1, <1>2, <1>3 DEF Holders
<1>8. PermitsConserved'
  BY <1>7, SameHolders DEF IInv, FlushBatch
<1>9. BatchesFull'
  BY <1>2, <1>3 DEF IInv, BatchesFull, FlushBatch
<1>10. ASSUME NEW x \in Transactions, Taken(x) PROVE Taken(x)'
  <2>1. \/ flushed[x] > 0 \/ Within(x, buffer)
        \/ \E k \in Tasks : Within(x, task[k].batch)
    BY <1>10, TakenWhere DEF IInv
  <2>2. flushed[x] > 0 \/ Within(x, task[t].batch) => flushed'[x] > 0
    BY <1>4
  <2>3. \A k \in Tasks \ {t} : Within(x, task[k].batch) => Within(x, task'[k].batch)
    BY <1>3
  <2>4. buffer' = buffer
    BY DEF FlushBatch
  <2> QED BY <1>5, <2>1, <2>2, <2>3, <2>4, TakenWherePrime
<1>11. PushedIsTaken'
  <2>1. ASSUME NEW k \in Tasks, NEW x \in Transactions,
               task'[k].tx = x, task'[k].pc \in {"flushing", "pushed"}
        PROVE  Taken(x)'
    <3>1. task[k].pc \in {"flushing", "pushed"} /\ task[k].tx = x
      BY <1>1, <1>2, <1>3, <2>1
    <3>2. Taken(x)
      BY <3>1 DEF IInv, PushedIsTaken
    <3> QED BY <1>10, <3>2
  <2> QED BY <2>1 DEF PushedIsTaken
<1>12. CachedIsTaken'
  BY <1>10 DEF IInv, TypeOK, CachedIsTaken, FlushBatch
<1> QED BY <1>5, <1>6, <1>8, <1>9, <1>11, <1>12 DEF IInv

LEMMA FinishKeeps == ASSUME IInv, NEW t \in Tasks, Finish(t) PROVE IInv'
<1>1. /\ task[t].pc = "pushed" /\ task[t].batch = <<>>
      /\ task[t].tx \in Transactions
      /\ task' = [task EXCEPT ![t] = FreeTask]
  BY DEF IInv, TypeOK, TasksOK, Finish
<1>2. FreeTask \in Task /\ FreeTask.pc = "free" /\ FreeTask.batch = <<>>
  <2>1. <<>> \in Seq(Transactions)
    OBVIOUS
  <2> QED BY <2>1 DEF FreeTask, Task
<1>3. task'[t] = FreeTask /\ \A k \in Tasks \ {t} : task'[k] = task[k]
  BY <1>1 DEF IInv, TypeOK
<1>4. t \in Holders /\ Holders' = Holders \ {t}
  BY <1>1, <1>2, <1>3 DEF Holders
<1>5. permits \in Nat /\ permits' = permits + 1
  BY EngineAssumption DEF IInv, TypeOK, Finish
<1>6. PermitsConserved' /\ permits' <= MaxPermits
  BY <1>4, <1>5, HolderLeaves DEF IInv
<1>7. TypeOK'
  <2>1. task' \in [Tasks -> Task]
    BY <1>1, <1>2 DEF IInv, TypeOK
  <2>2. permits' \in 0 .. MaxPermits
    BY <1>5, <1>6, EngineAssumption
  <2> QED BY <1>1, <2>1, <2>2 DEF IInv, TypeOK, Finish
<1>8. TasksOK'
  BY <1>2, <1>3 DEF IInv, TasksOK
<1>9. BatchesFull'
  BY <1>2, <1>3 DEF IInv, BatchesFull, Finish
<1>10. \A k \in Tasks : task'[k].batch = task[k].batch
  BY <1>1, <1>2, <1>3
<1>11. \A x : Taken(x)' <=> Taken(x)
  BY <1>10 DEF Taken, Times, Finish
<1>12. PushedIsTaken'
  BY <1>2, <1>3, <1>11 DEF IInv, PushedIsTaken
<1>13. CachedIsTaken'
  <2>1. Taken(task[t].tx)
    BY <1>1 DEF IInv, PushedIsTaken
  <2>2. \A x \in cache \cup {task[t].tx} : Taken(x)
    BY <2>1 DEF IInv, CachedIsTaken
  <2>3. \A x \in cache' : Taken(x)'
    BY <1>11, <2>2 DEF Finish
  <2> QED BY <2>3 DEF CachedIsTaken
<1> QED BY <1>6, <1>7, <1>8, <1>9, <1>12, <1>13 DEF IInv

-----------------------------------------------------------------------------
(* The theorems *)

LEMMA NextIInv == IInv /\ [Next]_vars => IInv'
<1> SUFFICES ASSUME IInv, [Next]_vars PROVE IInv'
  OBVIOUS
<1>1. ASSUME NEW x \in Transactions, Produce(x) PROVE IInv'
  BY <1>1, ProduceKeeps
<1>2. ASSUME NEW x \in Transactions, EvictExpired(x) PROVE IInv'
  BY <1>2, EvictExpiredKeeps
<1>3. ASSUME NEW t \in Tasks, Consume(t) PROVE IInv'
  BY <1>3, ConsumeKeeps
<1>4. ASSUME NEW t \in Tasks, TaskStep(t) PROVE IInv'
  BY <1>4, CheckCacheKeeps, AcquirePermitKeeps, PushKeeps, FlushBatchKeeps, FinishKeeps
     DEF TaskStep
<1>5. CASE Crash
  BY <1>5, CrashKeeps
<1>6. CASE UNCHANGED vars
  BY <1>6, StutterIInv
<1> QED BY <1>1, <1>2, <1>3, <1>4, <1>5, <1>6 DEF Next

\* The invariant that the properties below are parts of.
THEOREM EngineInvariant == Spec => []IInv
BY InitIInv, NextIInv, PTL DEF Spec

\* Tasks, buffer, cache and counters keep their types: a task has a transaction from its
\* spawn (tokio::spawn in main) on.
THEOREM EngineTypeOK == Spec => []TypeOK
<1>1. IInv => TypeOK
  BY DEF IInv
<1> QED BY <1>1, EngineInvariant, PTL

\* No interleaving of tasks and no crash loses or invents a permit of the semaphore that
\* process_transaction acquires.
THEOREM PermitsAreConserved == Spec => []PermitsConserved
<1>1. IInv => PermitsConserved
  BY DEF IInv
<1> QED BY <1>1, EngineInvariant, PTL

\* GraphWriter.push hands flush_batch whole batches only.
THEOREM BatchesAreFull == Spec => []BatchesFull
<1>1. IInv => BatchesFull
  BY DEF IInv
<1> QED BY <1>1, EngineInvariant, PTL

\* A message that the idempotency cache answers, and the consumer drops, is one whose
\* write the graph writer has.
THEOREM CachedWritesAreTaken == Spec => []CachedIsTaken
<1>1. IInv => CachedIsTaken
  BY DEF IInv
<1> QED BY <1>1, EngineInvariant, PTL
=============================================================================
