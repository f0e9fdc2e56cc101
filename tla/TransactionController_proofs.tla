--------------------- MODULE TransactionController_proofs ---------------------
(***************************************************************************)
(* Proofs about TransactionController for any processes, requests, scores, *)
(* cache limits and breaker thresholds: types, the justification of an     *)
(* open breaker, and what the idempotency cache promises to retries.       *)
(***************************************************************************)
EXTENDS TransactionController, FiniteSetTheorems, TLAPS

-----------------------------------------------------------------------------
(* Records *)

LEMMA DecisionTyped ==
    ASSUME NEW tx, NEW s, NEW available
    PROVE  MakeDecision(tx, s, available) \in Decisions
BY DEF MakeDecision, Decisions

LEMMA BreakerTyped ==
    ASSUME NEW c \in Circuit
    PROVE  /\ RecordSuccess(c) \in Circuit /\ RecordFailure(c) \in Circuit
           /\ RecordSuccess(c).failure_count = 0 /\ RecordSuccess(c).neo4j_healthy = TRUE
           /\ RecordFailure(c).failure_count = c.failure_count + 1
           /\ c.failure_count + 1 >= threshold => RecordFailure(c).neo4j_healthy = FALSE
           /\ c.failure_count + 1 < threshold =>
                 RecordFailure(c).neo4j_healthy = c.neo4j_healthy
           /\ c.waited <= RecoveryTimeout =>
                 [c EXCEPT !.waited = @ + 1] \in Circuit
<1>1. RecordSuccess(c) \in Circuit /\ RecordSuccess(c).failure_count = 0
      /\ RecordSuccess(c).neo4j_healthy = TRUE
  BY DEF RecordSuccess, Circuit
<1>2. c.waited <= RecoveryTimeout => [c EXCEPT !.waited = @ + 1] \in Circuit
  BY ControllerAssumption DEF Circuit
<1>3. c.failure_count \in Nat /\ c.neo4j_healthy \in BOOLEAN /\ threshold \in Nat
  BY ControllerAssumption DEF Circuit
<1>4. CASE c.failure_count + 1 >= threshold
  <2>1. RecordFailure(c) = [neo4j_healthy |-> FALSE, failure_count |-> c.failure_count + 1,
                            waited |-> 0]
    BY <1>4 DEF RecordFailure
  <2>2. RecordFailure(c) \in Circuit
    BY <1>3, <2>1, ControllerAssumption DEF Circuit
  <2>3. /\ RecordFailure(c).failure_count = c.failure_count + 1
        /\ RecordFailure(c).neo4j_healthy = FALSE
    BY <2>1
  <2> QED BY <1>1, <1>2, <1>3, <1>4, <2>2, <2>3
<1>5. CASE ~(c.failure_count + 1 >= threshold)
  <2>1. RecordFailure(c) = [c EXCEPT !.failure_count = c.failure_count + 1]
    BY <1>5 DEF RecordFailure
  <2>2. c.failure_count + 1 \in Nat
    BY DEF Circuit
  <2>3. RecordFailure(c) \in Circuit
    BY <2>1, <2>2 DEF Circuit
  <2>4. /\ RecordFailure(c).failure_count = c.failure_count + 1
        /\ RecordFailure(c).neo4j_healthy = c.neo4j_healthy
    BY <2>1 DEF Circuit
  <2> QED BY <1>1, <1>2, <1>3, <1>5, <2>3, <2>4
<1> QED BY <1>4, <1>5

-----------------------------------------------------------------------------
(* The cache *)

Entry == [tx : Transactions, decision : Decisions]

Holds(s, tx) == \E i \in DOMAIN s : s[i].tx = tx

Distinct(s) == \A i, j \in DOMAIN s : s[i].tx = s[j].tx => i = j

\* The dictionary after one write, before the eviction.
Written(s, tx, decision) ==
    IF {i \in DOMAIN s : s[i].tx = tx} # {}
    THEN [i \in DOMAIN s |-> IF s[i].tx = tx THEN [tx |-> tx, decision |-> decision] ELSE s[i]]
    ELSE Evict(Append(s, [tx |-> tx, decision |-> decision]))

\* A write keeps the newest entry, the keys distinct and the length within the limit;
\* only an append to a full cache loses keys.
LEMMA WrittenSound ==
    ASSUME NEW s \in Seq(Entry), Len(s) <= CacheLimit, Distinct(s),
           NEW tx \in Transactions, NEW d \in Decisions
    PROVE  LET w == Written(s, tx, d)
           IN /\ w \in Seq(Entry) /\ Len(w) <= CacheLimit /\ Distinct(w)
              /\ \E i \in DOMAIN w : w[i] = [tx |-> tx, decision |-> d]
              /\ \A i \in DOMAIN w : w[i].tx = tx \/ Holds(s, w[i].tx)
              /\ \/ \A i \in DOMAIN s : Holds(w, s[i].tx)
                 \/ Len(s) = CacheLimit /\ ~Holds(s, tx)
<1> DEFINE e == [tx |-> tx, decision |-> d]
           w == Written(s, tx, d)
           a == Append(s, e)
<1>0. CacheLimit \in Nat /\ Evicted \in 1 .. CacheLimit /\ Len(s) \in Nat
      /\ DOMAIN s = 1 .. Len(s) /\ e \in Entry /\ e.tx = tx
  BY ControllerAssumption DEF Entry
<1>1. CASE Holds(s, tx)
  <2>1. w = [i \in DOMAIN s |-> IF s[i].tx = tx THEN e ELSE s[i]]
    BY <1>1 DEF Written, Holds
  <2> HIDE DEF w, e
  <2>2. w \in Seq(Entry) /\ Len(w) = Len(s) /\ DOMAIN w = DOMAIN s
    BY <1>0, <2>1
  <2>3. \A i \in DOMAIN s : w[i].tx = s[i].tx
    BY <1>0, <2>1
  <2>4. Distinct(w)
    BY <2>2, <2>3 DEF Distinct
  <2>5. \E i \in DOMAIN w : w[i] = e
    BY <1>1, <2>1, <2>2 DEF Holds
  <2>6. \A i \in DOMAIN w : Holds(s, w[i].tx) /\ Holds(w, s[i].tx)
    BY <2>2, <2>3 DEF Holds
  <2> QED BY <2>2, <2>4, <2>5, <2>6 DEF w, e
<1>2. CASE ~Holds(s, tx)
  <2>1. w = Evict(a)
    BY <1>2 DEF Written, Holds
  <2> HIDE DEF w, e
  <2>2. /\ a \in Seq(Entry) /\ Len(a) = Len(s) + 1 /\ DOMAIN a = 1 .. Len(s) + 1
        /\ a[Len(s) + 1] = e /\ \A i \in 1 .. Len(s) : a[i] = s[i]
    BY <1>0
  <2> HIDE DEF a
  <2>3. Distinct(a)
    <3> SUFFICES ASSUME NEW i \in 1 .. Len(s) + 1, NEW j \in 1 .. Len(s) + 1, a[i].tx = a[j].tx
                 PROVE  i = j
      BY <2>2 DEF Distinct
    <3>1. CASE i \in 1 .. Len(s) /\ j \in 1 .. Len(s)
      BY <1>0, <2>2, <3>1 DEF Distinct
    <3>2. CASE i = Len(s) + 1 /\ j \in 1 .. Len(s)
      BY <1>0, <1>2, <2>2, <3>2 DEF Holds
    <3>3. CASE i \in 1 .. Len(s) /\ j = Len(s) + 1
      BY <1>0, <1>2, <2>2, <3>3 DEF Holds
    <3>4. CASE i = Len(s) + 1 /\ j = Len(s) + 1
      BY <3>4
    <3> QED BY <1>0, <3>1, <3>2, <3>3, <3>4
  <2>4. CASE Len(a) <= CacheLimit
    <3>1. w = a
      BY <1>0, <2>1, <2>2, <2>4 DEF Evict
    <3>2. \A i \in DOMAIN a : a[i].tx = tx \/ Holds(s, a[i].tx)
      BY <1>0, <2>2 DEF Holds
    <3>3. \A i \in DOMAIN s : Holds(a, s[i].tx)
      BY <1>0, <2>2 DEF Holds
    <3>4. Len(s) + 1 \in DOMAIN a
      BY <1>0, <2>2
    <3> QED BY <2>2, <2>3, <2>4, <3>1, <3>2, <3>3, <3>4 DEF w, e
  <2>5. CASE ~(Len(a) <= CacheLimit)
    <3>1. Len(s) = CacheLimit /\ Len(a) = CacheLimit + 1
      BY <1>0, <2>2, <2>5
    <3>2. w = SubSeq(a, Evicted + 1, CacheLimit + 1)
      BY <1>0, <2>1, <3>1 DEF Evict
    <3>3. /\ w \in Seq(Entry) /\ Len(w) = CacheLimit + 1 - Evicted
          /\ DOMAIN w = 1 .. CacheLimit + 1 - Evicted
          /\ \A i \in DOMAIN w : w[i] = a[i + Evicted] /\ i + Evicted \in DOMAIN a
      BY <1>0, <2>2, <3>1, <3>2
    <3>4. Distinct(w)
      <4> SUFFICES ASSUME NEW i \in DOMAIN w, NEW j \in DOMAIN w, w[i].tx = w[j].tx
                   PROVE  i = j
        BY DEF Distinct
      <4>1. i + Evicted = j + Evicted
        BY <2>3, <3>3 DEF Distinct
      <4> QED BY <1>0, <3>3, <4>1
    <3>5. CacheLimit + 1 - Evicted \in DOMAIN w /\ w[CacheLimit + 1 - Evicted] = e
      <4>1. CacheLimit + 1 - Evicted \in DOMAIN w
        BY <1>0, <3>3
      <4>2. CacheLimit + 1 - Evicted + Evicted = Len(s) + 1
        BY <1>0, <3>1
      <4> QED BY <2>2, <3>3, <4>1, <4>2
    <3>6. \A i \in DOMAIN w : w[i].tx = tx \/ Holds(s, w[i].tx)
      <4>1. \A i \in DOMAIN a : a[i].tx = tx \/ Holds(s, a[i].tx)
        BY <1>0, <2>2 DEF Holds
      <4> QED BY <3>3, <4>1
    <3>7. Len(w) <= CacheLimit
      BY <1>0, <3>3
    <3> QED BY <1>2, <3>1, <3>3, <3>4, <3>5, <3>6, <3>7 DEF w, e
  <2> QED BY <2>4, <2>5
<1> QED BY <1>1, <1>2

-----------------------------------------------------------------------------
(* The inductive invariant *)

RequestOK(r) ==
    /\ request[r].pc \in {"received", "graphed"} =>
          request[r].process \in Processes /\ request[r].tx \in Transactions
    /\ request[r].scored => request[r].pc = "answered"

\* What a scored request answered is what its models and its transaction call for.
Matrixed(r) ==
    request[r].scored =>
        /\ request[r].process \in Processes /\ request[r].tx \in Transactions
        /\ request[r].decision = MakeDecision(request[r].tx,
               score[request[r].process][request[r].tx], request[r].available)

\* The transactions process p has scored and answered.
Done(p) == {request[q].tx : q \in ScoredAt(p)}

\* More transactions were answered than the cache holds.
Overflown(p) == \E txs \in SUBSET Done(p) : Cardinality(txs) = CacheLimit + 1

CacheOK(p) ==
    /\ Distinct(cache[p])
    /\ \A i \in DOMAIN cache[p] : cache[p][i].tx \in Done(p)
    /\ (\A tx \in Done(p) : Holds(cache[p], tx)) \/ Overflown(p)

IInv ==
    /\ TypeOK
    /\ DOMAIN cache = Processes
    /\ \A r \in Requests : RequestOK(r)
    /\ \A p \in Processes : CacheOK(p)
    /\ OpenJustified

LEMMA InitIInv == Init => IInv
<1> SUFFICES ASSUME Init PROVE IInv
  OBVIOUS
<1>1. TypeOK
  <2>1. request \in [Requests -> Request]
    BY DEF Init, Request
  <2>2. circuit \in [Processes -> Circuit]
    BY ControllerAssumption DEF Init, Circuit
  <2>3. \A p \in Processes : cache[p] \in Seq([tx : Transactions, decision : Decisions])
                            /\ Len(cache[p]) <= CacheLimit
    BY ControllerAssumption DEF Init
  <2> QED BY <2>1, <2>2, <2>3 DEF Init, TypeOK
<1>2. \A r \in Requests : RequestOK(r) /\ ~request[r].scored
  BY DEF Init, RequestOK
<1>3. ASSUME NEW p \in Processes PROVE CacheOK(p)
  <2>1. cache[p] = <<>>
    BY DEF Init
  <2>2. Done(p) = {}
    BY <1>2 DEF Done, ScoredAt
  <2> QED BY <2>1, <2>2 DEF CacheOK, Distinct
<1>4. OpenJustified
  BY ControllerAssumption DEF Init, OpenJustified
<1>5. DOMAIN cache = Processes
  BY DEF Init
<1> QED BY <1>1, <1>2, <1>3, <1>4, <1>5 DEF IInv

\* Steps that score nothing leave the promises of the caches alone.
LEMMA NothingScored ==
    ASSUME IInv, cache' = cache, \A q \in Requests : request'[q].scored = request[q].scored,
           \A q \in Requests : request[q].scored =>
              request'[q].tx = request[q].tx /\ request'[q].process = request[q].process
    PROVE  \A p \in Processes : CacheOK(p)'
<1> SUFFICES ASSUME NEW p \in Processes PROVE CacheOK(p)'
  OBVIOUS
<1>1. ScoredAt(p)' = ScoredAt(p)
  BY DEF ScoredAt
<1>2. Done(p)' = Done(p)
  <2>1. Done(p)' = {request'[q].tx : q \in ScoredAt(p)}
    BY <1>1 DEF Done
  <2>2. \A q \in ScoredAt(p) : request'[q].tx = request[q].tx
    BY DEF ScoredAt
  <2> QED BY <2>1, <2>2 DEF Done
<1>3. CacheOK(p)
  BY DEF IInv
<1>4. Overflown(p)' = Overflown(p)
  BY <1>2 DEF Overflown
<1> QED BY <1>2, <1>3, <1>4 DEF CacheOK

LEMMA ReceiveKeeps ==
    ASSUME IInv, NEW r \in Requests, NEW p \in Processes, NEW tx \in Transactions,
           Receive(r, p, tx)
    PROVE  IInv'
<1>1. /\ request[r] \in Request /\ ~request[r].scored
      /\ \A q \in Requests : q # r => request'[q] = request[q]
  BY DEF IInv, TypeOK, Receive, Hit, Miss, RequestOK, Request
<1>k. PICK k \in Request : k = request[r]
  BY <1>1
<1>2. /\ request'[r] \in Request /\ request'[r].scored = request[r].scored
      /\ request'[r].pc = "received" => request'[r].process = p /\ request'[r].tx = tx
      /\ request'[r].pc \in {"received", "answered"}
  <2>1. CASE Miss(r, p, tx)
    <3>1. request'[r] = [k EXCEPT !.pc = "received", !.process = p, !.tx = tx]
      BY <1>k, <2>1 DEF Miss, IInv, TypeOK
    <3> QED BY <1>k, <3>1, DecisionTyped DEF Request
  <2>2. CASE Hit(r, p, tx)
    <3>1. PICK d \in Decisions :
              request'[r] = [k EXCEPT !.pc = "answered", !.process = p, !.tx = tx, !.decision = d]
      <4>1. PICK i \in CacheEntries(p, tx) : request' = [request EXCEPT ![r] =
                [@ EXCEPT !.pc = "answered", !.process = p, !.tx = tx,
                          !.decision = cache[p][i].decision]]
        BY <2>2 DEF Hit
      <4>2. cache[p] \in Seq(Entry) /\ i \in DOMAIN cache[p]
        BY <4>1 DEF IInv, TypeOK, CacheEntries, Entry
      <4>3. cache[p][i] \in Entry
        BY <4>2
      <4>4. cache[p][i].decision \in Decisions
        BY <4>3 DEF Entry
      <4> QED BY <1>k, <4>1, <4>4 DEF IInv, TypeOK
    <3> QED BY <1>k, <3>1 DEF Request
  <2> QED BY <2>1, <2>2 DEF Receive
<1>3. request' \in [Requests -> Request]
  BY <1>1, <1>2 DEF IInv, TypeOK, Receive, Hit, Miss
<1>4. TypeOK' /\ OpenJustified' /\ (DOMAIN cache = Processes)'
  BY <1>3 DEF IInv, TypeOK, OpenJustified, Receive
<1>5. \A q \in Requests : RequestOK(q)'
  BY <1>1, <1>2 DEF IInv, RequestOK
<1>6. \A q \in Processes : CacheOK(q)'
  BY <1>1, <1>2, NothingScored DEF Receive
<1> QED BY <1>4, <1>5, <1>6 DEF IInv

\* The graph model has answered, or not.
LEMMA GraphDoneKeeps ==
    ASSUME IInv, NEW r \in Requests, NEW available \in BOOLEAN, GraphDone(r, available),
           request[r].pc = "received", UNCHANGED <<score, cache>>,
           circuit' \in [Processes -> Circuit], OpenJustified'
    PROVE  IInv'
<1>1. /\ request[r] \in Request /\ ~request[r].scored
      /\ request[r].process \in Processes /\ request[r].tx \in Transactions
      /\ \A q \in Requests : q # r => request'[q] = request[q]
  BY DEF IInv, TypeOK, GraphDone, RequestOK, Request
<1>k. PICK k \in Request : k = request[r]
  BY <1>1
<1>m. PICK m \in SUBSET Models : m = IF available THEN {"graph"} ELSE {}
  BY DEF Models
<1>2. request'[r] = [k EXCEPT !.pc = "graphed", !.available = m]
  BY <1>k, <1>m DEF GraphDone, IInv, TypeOK
<1>3. /\ request'[r] \in Request /\ request'[r].scored = k.scored
      /\ request'[r].process = k.process /\ request'[r].tx = k.tx
  BY <1>2 DEF Request
<1>4. request' \in [Requests -> Request]
  BY <1>1, <1>3 DEF IInv, TypeOK, GraphDone
<1>5. TypeOK' /\ (DOMAIN cache = Processes)'
  BY <1>4 DEF IInv, TypeOK
<1>6. \A q \in Requests : RequestOK(q)'
  BY <1>1, <1>3, <1>k DEF IInv, RequestOK
<1>7. \A q \in Processes : CacheOK(q)'
  BY <1>1, <1>3, <1>k, NothingScored
<1> QED BY <1>5, <1>6, <1>7 DEF IInv

LEMMA SkipGraphKeeps == ASSUME IInv, NEW r \in Requests, SkipGraph(r) PROVE IInv'
BY GraphDoneKeeps DEF SkipGraph, IInv, TypeOK, OpenJustified

LEMMA ScoreGraphKeeps == ASSUME IInv, NEW r \in Requests, ScoreGraph(r) PROVE IInv'
<1>1. PICK p \in Processes : p = request[r].process
  BY DEF IInv, RequestOK, ScoreGraph
<1>2. circuit[p] \in Circuit
  BY DEF IInv, TypeOK
<1>3. PICK c \in Circuit : c = circuit[p]
  BY <1>2
<1>4. c.failure_count \in Nat /\ threshold \in Nat \ {0}
      /\ (~c.neo4j_healthy <=> c.failure_count >= threshold)
  BY <1>3, ControllerAssumption DEF Circuit, IInv, OpenJustified
<1>5. CASE /\ GraphDone(r, TRUE)
           /\ circuit' = [circuit EXCEPT ![p] = RecordSuccess(@)]
  <2>1. circuit' = [circuit EXCEPT ![p] = RecordSuccess(c)]
    BY <1>3, <1>5
  <2>2. /\ RecordSuccess(c) \in Circuit /\ RecordSuccess(c).failure_count = 0
        /\ RecordSuccess(c).neo4j_healthy = TRUE
    BY BreakerTyped
  <2>3. circuit' \in [Processes -> Circuit]
    BY <2>1, <2>2 DEF IInv, TypeOK
  <2>4. OpenJustified'
    BY <1>4, <2>1, <2>2 DEF IInv, TypeOK, OpenJustified
  <2> QED BY <1>5, <2>3, <2>4, GraphDoneKeeps DEF ScoreGraph
<1>6. CASE /\ GraphDone(r, FALSE)
           /\ circuit' = [circuit EXCEPT ![p] = RecordFailure(@)]
  <2>1. circuit' = [circuit EXCEPT ![p] = RecordFailure(c)]
    BY <1>3, <1>6
  <2>2. /\ RecordFailure(c) \in Circuit
        /\ RecordFailure(c).failure_count = c.failure_count + 1
        /\ c.failure_count + 1 >= threshold => RecordFailure(c).neo4j_healthy = FALSE
        /\ c.failure_count + 1 < threshold => RecordFailure(c).neo4j_healthy = c.neo4j_healthy
    BY BreakerTyped
  <2>3. circuit' \in [Processes -> Circuit]
    BY <2>1, <2>2 DEF IInv, TypeOK
  <2>4. ~RecordFailure(c).neo4j_healthy <=> RecordFailure(c).failure_count >= threshold
    BY <1>4, <2>2
  <2>5. OpenJustified'
    BY <2>1, <2>4 DEF IInv, TypeOK, OpenJustified
  <2> QED BY <1>6, <2>3, <2>5, GraphDoneKeeps DEF ScoreGraph
<1> QED BY <1>1, <1>5, <1>6 DEF ScoreGraph

\* The keys of a full cache and one key more are CacheLimit + 1 transactions.
LEMMA FullAndOne ==
    ASSUME NEW s \in Seq(Entry), Len(s) = CacheLimit, Distinct(s), NEW tx, ~Holds(s, tx)
    PROVE  Cardinality({s[i].tx : i \in DOMAIN s} \cup {tx}) = CacheLimit + 1
<1> DEFINE keys == {s[i].tx : i \in 1 .. CacheLimit}
           f == [i \in 1 .. CacheLimit |-> s[i].tx]
<1>1. CacheLimit \in Nat /\ DOMAIN s = 1 .. CacheLimit
  BY ControllerAssumption
<1>2. f \in Bijection(1 .. CacheLimit, keys)
  <2>1. f \in [1 .. CacheLimit -> keys]
    OBVIOUS
  <2>2. \A i, j \in 1 .. CacheLimit : f[i] = f[j] => i = j
    BY <1>1 DEF Distinct
  <2>3. \A t \in keys : \E i \in 1 .. CacheLimit : f[i] = t
    OBVIOUS
  <2> HIDE DEF f, keys
  <2> QED BY <2>1, <2>2, <2>3 DEF Bijection, Injection, Surjection, IsInjective
<1>3. ExistsBijection(1 .. CacheLimit, keys)
  BY <1>2 DEF ExistsBijection
<1>4. IsFiniteSet(keys) /\ Cardinality(keys) = CacheLimit
  BY <1>1, <1>3, FS_CountingElements, FS_NatBijection
<1>5. tx \notin keys
  BY <1>1 DEF Holds
<1> HIDE DEF keys
<1>6. Cardinality(keys \cup {tx}) = CacheLimit + 1
  BY <1>4, <1>5, FS_AddElement
<1> QED BY <1>1, <1>6 DEF keys

LEMMA ScoredDone ==
    ASSUME IInv, NEW r \in Requests, Respond(r), NEW p \in Processes
    PROVE  IF p = request[r].process THEN Done(p)' = Done(p) \cup {request[r].tx}
                                     ELSE Done(p)' = Done(p)
<1>1. /\ request[r] \in Request /\ ~request[r].scored
      /\ \A q \in Requests : q # r => request'[q] = request[q]
  BY DEF IInv, TypeOK, Respond, RequestOK, Request
<1>k. PICK k \in Request : k = request[r]
  BY <1>1
<1>2. PICK available, d : request' = [request EXCEPT ![r] =
          [@ EXCEPT !.pc = "answered", !.available = available, !.scored = TRUE,
                    !.decision = d]]
  BY DEF Respond
<1>3. request'[r] = [k EXCEPT !.pc = "answered", !.available = available, !.scored = TRUE,
                              !.decision = d]
  BY <1>k, <1>2 DEF IInv, TypeOK
<1>4. request'[r].scored = TRUE /\ request'[r].tx = k.tx /\ request'[r].process = k.process
  BY <1>3 DEF Request
<1>5. CASE p = request[r].process
  <2>1. ScoredAt(p)' = ScoredAt(p) \cup {r}
    BY <1>1, <1>4, <1>5, <1>k DEF ScoredAt
  <2>2. \A q \in ScoredAt(p) : request'[q].tx = request[q].tx
    BY <1>1 DEF ScoredAt
  <2>3. Done(p)' = {request'[q].tx : q \in ScoredAt(p) \cup {r}}
    BY <2>1 DEF Done
  <2> QED BY <1>4, <1>5, <1>k, <2>2, <2>3 DEF Done
<1>6. CASE p # request[r].process
  <2>1. ScoredAt(p)' = ScoredAt(p)
    BY <1>1, <1>4, <1>6, <1>k DEF ScoredAt
  <2>2. \A q \in ScoredAt(p) : request'[q].tx = request[q].tx
    BY <1>1 DEF ScoredAt
  <2>3. Done(p)' = {request'[q].tx : q \in ScoredAt(p)}
    BY <2>1 DEF Done
  <2> QED BY <1>6, <2>2, <2>3 DEF Done
<1> QED BY <1>5, <1>6

\* What Respond writes.
LEMMA RespondWrites ==
    ASSUME IInv, NEW r \in Requests, Respond(r)
    PROVE  \E d \in Decisions, available \in SUBSET Models :
              LET p == request[r].process
                  tx == request[r].tx
              IN /\ p \in Processes /\ tx \in Transactions
                 /\ cache' = [cache EXCEPT ![p] = Written(cache[p], tx, d)]
                 /\ request'[r] = [request[r] EXCEPT !.pc = "answered", !.available = available,
                                                     !.scored = TRUE, !.decision = d]
                 /\ request'[r].decision = d
                 /\ request'[r] \in Request
                 /\ request'[r].pc = "answered"
                 /\ request' = [request EXCEPT ![r] = request'[r]]
<1>0. request[r] \in Request /\ request[r].process \in Processes
      /\ request[r].tx \in Transactions /\ request \in [Requests -> Request]
  BY DEF IInv, TypeOK, RequestOK, Respond
<1>p. PICK p \in Processes : p = request[r].process
  BY <1>0
<1>t. PICK tx \in Transactions : tx = request[r].tx
  BY <1>0
<1>k. PICK k \in Request : k = request[r]
  BY <1>0
<1>1. PICK others \in SUBSET {"xgboost", "biometric"} :
          LET available == request[r].available \cup others
              decision == MakeDecision(tx, score[p][tx], available)
          IN /\ request' = [request EXCEPT ![r] =
                    [@ EXCEPT !.pc = "answered", !.available = available, !.scored = TRUE,
                              !.decision = decision]]
             /\ CacheResult(p, tx, decision)
  BY <1>p, <1>t DEF Respond
<1>a. PICK available \in SUBSET Models : available = request[r].available \cup others
  BY <1>k DEF Request, Models
<1>2. PICK d \in Decisions : d = MakeDecision(tx, score[p][tx], available)
  BY DecisionTyped
<1>3. request' = [request EXCEPT ![r] =
          [k EXCEPT !.pc = "answered", !.available = available, !.scored = TRUE,
                    !.decision = d]]
  BY <1>1, <1>2, <1>a, <1>k
<1>4. CacheResult(p, tx, d)
  BY <1>1, <1>2, <1>a
<1>5. cache' = [cache EXCEPT ![p] = Written(cache[p], tx, d)]
  BY <1>4 DEF CacheResult, CacheEntries, Written
<1>6. request'[r] = [k EXCEPT !.pc = "answered", !.available = available, !.scored = TRUE,
                              !.decision = d]
  BY <1>0, <1>3
<1>7. request'[r] \in Request /\ request'[r].decision = d /\ request'[r].pc = "answered"
  BY <1>6 DEF Request
<1>8. request' = [request EXCEPT ![r] = request'[r]]
  BY <1>3, <1>6
<1> QED BY <1>5, <1>6, <1>7, <1>8, <1>p, <1>t, <1>k

LEMMA RespondKeeps == ASSUME IInv, NEW r \in Requests, Respond(r) PROVE IInv'
<1>1. PICK d \in Decisions, available \in SUBSET Models :
          LET p == request[r].process
              tx == request[r].tx
          IN /\ p \in Processes /\ tx \in Transactions
             /\ cache' = [cache EXCEPT ![p] = Written(cache[p], tx, d)]
             /\ request'[r] \in Request
             /\ request'[r].pc = "answered"
             /\ request' = [request EXCEPT ![r] = request'[r]]
  BY RespondWrites
<1>p. PICK p \in Processes : p = request[r].process
  BY <1>1
<1>t. PICK tx \in Transactions : tx = request[r].tx
  BY <1>1
<1>w. PICK w : w = Written(cache[p], tx, d)
  OBVIOUS
<1>2. cache' = [cache EXCEPT ![p] = w]
  BY <1>1, <1>p, <1>t, <1>w
<1>3. cache[p] \in Seq(Entry) /\ Len(cache[p]) <= CacheLimit /\ CacheOK(p)
      /\ Distinct(cache[p])
  BY DEF IInv, TypeOK, CacheOK, Entry
<1>4. /\ w \in Seq(Entry) /\ Len(w) <= CacheLimit /\ Distinct(w)
      /\ \E i \in DOMAIN w : w[i].tx = tx
      /\ \A i \in DOMAIN w : w[i].tx = tx \/ Holds(cache[p], w[i].tx)
      /\ \/ \A i \in DOMAIN cache[p] : Holds(w, cache[p][i].tx)
         \/ Len(cache[p]) = CacheLimit /\ ~Holds(cache[p], tx)
  BY <1>3, <1>w, WrittenSound
<1>5. DOMAIN cache = Processes /\ cache'[p] = w /\ DOMAIN cache' = Processes
      /\ \A q \in Processes : q # p => cache'[q] = cache[q]
  BY <1>2 DEF IInv
<1>6. TypeOK' /\ OpenJustified' /\ (DOMAIN cache = Processes)'
  <2>1. request' \in [Requests -> Request]
    BY <1>1 DEF IInv, TypeOK
  <2>2. UNCHANGED <<score, circuit>>
    BY DEF Respond
  <2>3. \A q \in Processes : cache'[q] \in Seq(Entry) /\ Len(cache'[q]) <= CacheLimit
    BY <1>4, <1>5 DEF IInv, TypeOK, Entry
  <2> QED BY <1>5, <2>1, <2>2, <2>3 DEF IInv, TypeOK, OpenJustified, Entry
<1>7. ASSUME NEW q \in Requests PROVE RequestOK(q)'
  <2>1. CASE q = r
    BY <1>1, <2>1 DEF IInv, TypeOK, RequestOK
  <2>2. CASE q # r
    <3>1. request'[q] = request[q]
      BY <1>1, <2>2 DEF IInv, TypeOK
    <3> QED BY <3>1 DEF IInv, RequestOK
  <2> QED BY <2>1, <2>2
<1>8. ASSUME NEW q \in Processes, q # p PROVE CacheOK(q)'
  <2>1. cache'[q] = cache[q] /\ CacheOK(q)
    BY <1>5, <1>8 DEF IInv
  <2>2. Done(q)' = Done(q)
    BY <1>8, <1>p, ScoredDone
  <2>3. Overflown(q)' = Overflown(q)
    BY <2>2 DEF Overflown
  <2> QED BY <2>1, <2>2, <2>3 DEF CacheOK
<1>9. CacheOK(p)'
  <2>1. Done(p)' = Done(p) \cup {tx}
    BY <1>p, <1>t, ScoredDone
  <2>2. \A i \in DOMAIN cache[p] : cache[p][i].tx \in Done(p)
    BY <1>3 DEF CacheOK
  <2>3. \A i \in DOMAIN w : w[i].tx \in Done(p)'
    BY <1>4, <2>1, <2>2 DEF Holds
  <2>4. (\A t \in Done(p)' : Holds(w, t)) \/ Overflown(p)'
    <3>1. CASE Overflown(p)
      <4>1. PICK txs \in SUBSET Done(p) : Cardinality(txs) = CacheLimit + 1
        BY <3>1 DEF Overflown
      <4>2. txs \in SUBSET Done(p)'
        BY <2>1
      <4> QED BY <4>1, <4>2 DEF Overflown
    <3>2. CASE /\ \A t \in Done(p) : Holds(cache[p], t)
               /\ \A i \in DOMAIN cache[p] : Holds(w, cache[p][i].tx)
      BY <1>4, <2>1, <3>2 DEF Holds
    <3>3. CASE Len(cache[p]) = CacheLimit /\ ~Holds(cache[p], tx)
      <4>1. Cardinality({cache[p][i].tx : i \in DOMAIN cache[p]} \cup {tx}) = CacheLimit + 1
        BY <1>3, <3>3, FullAndOne
      <4>2. {cache[p][i].tx : i \in DOMAIN cache[p]} \cup {tx} \in SUBSET Done(p)'
        BY <2>1, <2>2
      <4> QED BY <4>1, <4>2 DEF Overflown
    <3> QED BY <1>3, <1>4, <3>1, <3>2, <3>3 DEF CacheOK
  <2> QED BY <1>4, <1>5, <2>3, <2>4 DEF CacheOK
<1> QED BY <1>6, <1>7, <1>8, <1>9 DEF IInv

LEMMA TickKeeps == ASSUME IInv, Tick PROVE IInv'
<1>1. ASSUME NEW p \in Processes
      PROVE  /\ circuit'[p] \in Circuit
             /\ circuit'[p].neo4j_healthy = circuit[p].neo4j_healthy
             /\ circuit'[p].failure_count = circuit[p].failure_count
  <2>1. PICK c \in Circuit : c = circuit[p]
    BY DEF IInv, TypeOK
  <2>2. circuit'[p] = [c EXCEPT !.waited = IF c.waited <= RecoveryTimeout THEN c.waited + 1
                                                                      ELSE c.waited]
    BY <2>1 DEF Tick, Circuit
  <2> QED BY <2>1, <2>2, ControllerAssumption DEF Circuit
<1>2. circuit' \in [Processes -> Circuit]
  BY <1>1 DEF Tick
<1>3. TypeOK' /\ OpenJustified' /\ (DOMAIN cache = Processes)'
  BY <1>1, <1>2 DEF IInv, TypeOK, OpenJustified, Tick
<1>4. \A q \in Requests : RequestOK(q)'
  BY DEF IInv, RequestOK, Tick
<1>5. \A q \in Processes : CacheOK(q)'
  BY NothingScored DEF Tick
<1> QED BY <1>3, <1>4, <1>5 DEF IInv

LEMMA StutterKeeps == ASSUME IInv, UNCHANGED vars PROVE IInv'
<1>1. \A q \in Processes : CacheOK(q)'
  BY NothingScored DEF vars
<1>2. \A q \in Requests : RequestOK(q)'
  BY DEF IInv, RequestOK, vars
<1> QED BY <1>1, <1>2 DEF IInv, TypeOK, OpenJustified, vars

LEMMA NextIInv == IInv /\ [Next]_vars => IInv'
BY ReceiveKeeps, SkipGraphKeeps, ScoreGraphKeeps, RespondKeeps, TickKeeps, StutterKeeps
   DEF Next

\* The controller keeps its inductive invariant.
THEOREM ControllerInvariant == Spec => []IInv
BY InitIInv, NextIInv, PTL DEF Spec

\* The records of the controller have their types and no cache exceeds its limit.
THEOREM ControllerTypeOK == Spec => []TypeOK
<1>1. IInv => TypeOK
  BY DEF IInv
<1> QED BY <1>1, ControllerInvariant, PTL

\* A breaker is unhealthy exactly when its failures since the last success have reached
\* the threshold.
THEOREM BreakerJustified == Spec => []OpenJustified
<1>1. IInv => OpenJustified
  BY DEF IInv
<1> QED BY <1>1, ControllerInvariant, PTL

-----------------------------------------------------------------------------
(* The two promises of the cache *)

\* A request that comes in is answered from the cache or not in it; one that is answered
\* after the graph model has been asked is answered by Respond.
LEMMA StepCached ==
    ASSUME IInv, [Next]_vars, NEW r \in Requests, request[r].pc = "graphed",
           request'[r].pc = "answered"
    PROVE  \E i \in DOMAIN cache'[request[r].process] :
              cache'[request[r].process][i]
                  = [tx |-> request[r].tx, decision |-> request'[r].decision]
<1>0. request \in [Requests -> Request]
  BY DEF IInv, TypeOK
<1>1. CASE Respond(r)
  <2>1. PICK d \in Decisions, available \in SUBSET Models :
            LET p == request[r].process
                tx == request[r].tx
            IN /\ p \in Processes /\ tx \in Transactions
               /\ cache' = [cache EXCEPT ![p] = Written(cache[p], tx, d)]
               /\ request'[r].decision = d
    BY <1>1, RespondWrites
  <2>p. PICK p \in Processes : p = request[r].process
    BY <2>1
  <2>t. PICK tx \in Transactions : tx = request[r].tx
    BY <2>1
  <2>w. PICK w : w = Written(cache[p], tx, d)
    OBVIOUS
  <2>2. cache[p] \in Seq(Entry) /\ Len(cache[p]) <= CacheLimit /\ Distinct(cache[p])
    BY DEF IInv, TypeOK, CacheOK, Entry
  <2>3. \E i \in DOMAIN w : w[i] = [tx |-> tx, decision |-> d]
    BY <2>2, <2>w, WrittenSound
  <2>4. cache'[p] = w
    BY <2>1, <2>p, <2>t, <2>w DEF IInv
  <2> QED BY <2>1, <2>3, <2>4, <2>p, <2>t
<1>2. ASSUME NEW q \in Requests, q # r, \/ \E p \in Processes, tx \in Transactions : Receive(q, p, tx)
                                        \/ SkipGraph(q) \/ ScoreGraph(q) \/ Respond(q)
      PROVE  FALSE
  BY <1>0, <1>2 DEF Receive, Hit, Miss, SkipGraph, ScoreGraph, GraphDone, Respond
<1>3. \A p \in Processes, tx \in Transactions : ~Receive(r, p, tx)
  BY DEF Receive
<1>4. ~SkipGraph(r) /\ ~ScoreGraph(r)
  BY DEF SkipGraph, ScoreGraph
<1>5. ~Tick /\ ~UNCHANGED vars
  BY DEF Tick, vars
<1> QED BY <1>1, <1>2, <1>3, <1>4, <1>5 DEF Next

\* The answer given last for a transaction is in the cache of its process, whatever the
\* eviction has dropped.
THEOREM AnswersStayCached == Spec => AnswerCached
<1>1. IInv /\ [Next]_vars =>
         [\A r \in Requests : request[r].pc = "graphed" /\ request'[r].pc = "answered"
          => \E i \in DOMAIN cache'[request[r].process] :
                cache'[request[r].process][i]
                    = [tx |-> request[r].tx, decision |-> request'[r].decision]]_vars
  BY StepCached
<1> QED BY <1>1, ControllerInvariant, PTL DEF Spec, AnswerCached

LEMMA StepRecognised ==
    ASSUME IInv, [Next]_vars, NEW r \in Requests, request[r].pc = "idle",
           request'[r].pc = "received", request'[r].tx \in Done(request'[r].process)
    PROVE  Overflown(request'[r].process)
<1>0. request \in [Requests -> Request]
  BY DEF IInv, TypeOK
<1>1. ASSUME NEW p \in Processes, NEW tx \in Transactions, Receive(r, p, tx)
      PROVE  Overflown(request'[r].process)
  <2>1. CASE Miss(r, p, tx)
    <3>k. PICK k \in Request : k = request[r]
      BY <1>0
    <3>1. request'[r] = [k EXCEPT !.pc = "received", !.process = p, !.tx = tx]
      BY <1>0, <2>1, <3>k DEF Miss
    <3>2. request'[r].process = p /\ request'[r].tx = tx
      BY <3>1 DEF Request
    <3>3. ~Holds(cache[p], tx)
      BY <2>1 DEF Miss, CacheEntries, Holds
    <3> QED BY <3>2, <3>3 DEF IInv, CacheOK
  <2>2. CASE Hit(r, p, tx)
    <3>k. PICK k \in Request : k = request[r]
      BY <1>0
    <3>1. PICK d : request'[r] = [k EXCEPT !.pc = "answered", !.process = p, !.tx = tx,
                                           !.decision = d]
      BY <1>0, <2>2, <3>k DEF Hit
    <3>2. request'[r].pc = "answered"
      BY <3>1 DEF Request
    <3> QED BY <3>2
  <2> QED BY <1>1, <2>1, <2>2 DEF Receive
<1>2. ASSUME NEW q \in Requests, q # r, \/ \E p \in Processes, tx \in Transactions : Receive(q, p, tx)
                                        \/ SkipGraph(q) \/ ScoreGraph(q) \/ Respond(q)
      PROVE  FALSE
  BY <1>0, <1>2 DEF Receive, Hit, Miss, SkipGraph, ScoreGraph, GraphDone, Respond
<1>3. ~SkipGraph(r) /\ ~ScoreGraph(r) /\ ~Respond(r)
  BY DEF SkipGraph, ScoreGraph, Respond
<1>4. ~Tick /\ ~UNCHANGED vars
  BY DEF Tick, vars
<1> QED BY <1>1, <1>2, <1>3, <1>4 DEF Next

\* A retry of an answered transaction is scored again only when its process has answered
\* more transactions than its cache holds.
THEOREM RetriesAreRecognised == Spec => RetryRecognised
<1>1. IInv /\ [Next]_vars =>
         [\A r \in Requests :
            request[r].pc = "idle" /\ request'[r].pc = "received"
            => LET p == request'[r].process
                   done == {request[q].tx : q \in ScoredAt(p)}
               IN request'[r].tx \in done => \E txs \in SUBSET done :
                      Cardinality(txs) = CacheLimit + 1]_vars
  BY StepRecognised DEF Done, Overflown
<1> QED BY <1>1, ControllerInvariant, PTL DEF Spec, RetryRecognised
-----------------------------------------------------------------------------
(* Approvals *)

Backed == \A r \in Requests : Matrixed(r)

\* An average of at most 45 has a score of at most 45 in it, and without models the risk
\* counts as 50.
LEMMA ApprovalNeedsModel ==
    ASSUME NEW tx, NEW s \in ScoreTriples, NEW available \in SUBSET Models,
           MakeDecision(tx, s, available) = "APPROVE"
    PROVE  tx \notin HighValue /\ \E m \in available : s[m] <= 45
<1> DEFINE sum == IF available = {} THEN 50 ELSE WeightedSum(s, available)
           weight == IF available = {} THEN 1 ELSE TotalWeight(available)
<1>1. s.graph \in 0 .. 100 /\ s.xgboost \in 0 .. 100 /\ s.biometric \in 0 .. 100
  BY ControllerAssumption
<1>c. /\ Counted("graph", available) \in {0, 45} /\ Counted("xgboost", available) \in {0, 35}
      /\ Counted("biometric", available) \in {0, 20}
  BY DEF Counted, Weight
<1>s. PICK g \in Int, x \in Int, b \in Int :
          /\ g = s.graph * Counted("graph", available)
          /\ x = s.xgboost * Counted("xgboost", available)
          /\ b = s.biometric * Counted("biometric", available)
  <2>1. \A y \in 0 .. 100 : y * 0 \in Int /\ y * 45 \in Int /\ y * 35 \in Int /\ y * 20 \in Int
    OBVIOUS
  <2>2. s.graph * Counted("graph", available) \in Int
    BY <1>1, <1>c, <2>1
  <2>3. s.xgboost * Counted("xgboost", available) \in Int
    BY <1>1, <1>c, <2>1
  <2>4. s.biometric * Counted("biometric", available) \in Int
    BY <1>1, <1>c, <2>1
  <2> QED BY <2>2, <2>3, <2>4
<1>w. WeightedSum(s, available) = g + x + b
  BY <1>s DEF WeightedSum
<1>2. sum <= 45 * weight /\ tx \notin HighValue
  <2>1. sum \in Int /\ weight \in Int
    BY <1>c, <1>w DEF TotalWeight
  <2>2. ~(sum > 75 * weight)
    BY DEF MakeDecision
  <2>3. ~(sum > 45 * weight \/ tx \in HighValue)
    BY <2>1, <2>2 DEF MakeDecision
  <2> QED BY <2>1, <2>3
<1>3. available # {}
  BY <1>2
<1>4. WeightedSum(s, available) <= 45 * TotalWeight(available)
  BY <1>2, <1>3
<1>5. SUFFICES ASSUME \A m \in available : ~(s[m] <= 45) PROVE FALSE
  BY <1>2
<1>6. /\ "graph" \in available => s.graph >= 46
      /\ "xgboost" \in available => s.xgboost >= 46
      /\ "biometric" \in available => s.biometric >= 46
  BY <1>1, <1>5
<1>7. "graph" \in available \/ "xgboost" \in available \/ "biometric" \in available
  BY <1>3 DEF Models
<1>8. /\ s.graph * Counted("graph", available) >= 45 * Counted("graph", available)
      /\ "graph" \in available =>
            s.graph * Counted("graph", available) > 45 * Counted("graph", available)
  BY <1>1, <1>6 DEF Counted, Weight
<1>9. /\ s.xgboost * Counted("xgboost", available) >= 45 * Counted("xgboost", available)
      /\ "xgboost" \in available =>
            s.xgboost * Counted("xgboost", available) > 45 * Counted("xgboost", available)
  BY <1>1, <1>6 DEF Counted, Weight
<1>10. /\ s.biometric * Counted("biometric", available) >= 45 * Counted("biometric", available)
       /\ "biometric" \in available =>
            s.biometric * Counted("biometric", available) > 45 * Counted("biometric", available)
  BY <1>1, <1>6 DEF Counted, Weight
<1> QED
  <2>1. /\ g >= 45 * Counted("graph", available) /\ x >= 45 * Counted("xgboost", available)
        /\ b >= 45 * Counted("biometric", available)
        /\ \/ g > 45 * Counted("graph", available) \/ x > 45 * Counted("xgboost", available)
           \/ b > 45 * Counted("biometric", available)
    BY <1>7, <1>8, <1>9, <1>10, <1>s
  <2>2. g + x + b <= 45 * (Counted("graph", available) + Counted("xgboost", available)
                             + Counted("biometric", available))
    BY <1>4, <1>w DEF TotalWeight
  <2> QED BY <1>c, <2>1, <2>2

\* A step keeps the scored answers it does not write and writes what the matrix says.
LEMMA StepBacked == ASSUME IInv, Backed, [Next]_vars PROVE Backed'
<1>0. request \in [Requests -> Request] /\ \A q \in Requests : RequestOK(q)
  BY DEF IInv, TypeOK
<1>1. score' = score
  BY DEF Next, vars, Receive, SkipGraph, ScoreGraph, Respond, Tick
<1> SUFFICES ASSUME NEW r \in Requests PROVE Matrixed(r)'
  BY DEF Backed
<1>2. CASE request'[r] = request[r]
  BY <1>1, <1>2 DEF Backed, Matrixed
<1>k. PICK k \in Request : k = request[r]
  BY <1>0
<1>3. CASE Respond(r)
  <2>p. PICK p \in Processes : p = k.process
    BY <1>0, <1>3, <1>k DEF Respond, RequestOK
  <2>t. PICK tx \in Transactions : tx = k.tx
    BY <1>0, <1>3, <1>k DEF Respond, RequestOK
  <2>1. PICK available, d : /\ d = MakeDecision(tx, score[p][tx], available)
                            /\ request' = [request EXCEPT ![r] =
                                  [@ EXCEPT !.pc = "answered", !.available = available,
                                            !.scored = TRUE, !.decision = d]]
    BY <1>3, <1>k, <2>p, <2>t DEF Respond
  <2>2. request'[r] = [k EXCEPT !.pc = "answered", !.available = available,
                                !.scored = TRUE, !.decision = d]
    BY <1>0, <1>k, <2>1
  <2>3. request'[r].process = p /\ request'[r].tx = tx /\ request'[r].available = available
        /\ request'[r].decision = d
    BY <2>2, <2>p, <2>t DEF Request
  <2> QED BY <1>1, <2>1, <2>3 DEF Matrixed
<1>4. ASSUME NEW p \in Processes, NEW tx \in Transactions, Receive(r, p, tx) PROVE Matrixed(r)'
  <2>1. ~k.scored
    BY <1>0, <1>4, <1>k DEF Receive, RequestOK
  <2>2. \E d : \/ request'[r] = [k EXCEPT !.pc = "received", !.process = p, !.tx = tx]
               \/ request'[r] = [k EXCEPT !.pc = "answered", !.process = p, !.tx = tx,
                                          !.decision = d]
    BY <1>0, <1>4, <1>k DEF Receive, Hit, Miss
  <2>3. request'[r].scored = k.scored
    BY <2>2 DEF Request
  <2> QED BY <2>1, <2>3 DEF Matrixed
<1>5. CASE SkipGraph(r) \/ ScoreGraph(r)
  <2>1. ~k.scored
    BY <1>0, <1>5, <1>k DEF SkipGraph, ScoreGraph, RequestOK
  <2>2. \E m : request'[r] = [k EXCEPT !.pc = "graphed", !.available = m]
    BY <1>0, <1>5, <1>k DEF SkipGraph, ScoreGraph, GraphDone
  <2>3. request'[r].scored = k.scored
    BY <2>2 DEF Request
  <2> QED BY <2>1, <2>3 DEF Matrixed
<1>6. ASSUME NEW q \in Requests, q # r,
             \/ \E p \in Processes, tx \in Transactions : Receive(q, p, tx)
             \/ SkipGraph(q) \/ ScoreGraph(q) \/ Respond(q)
      PROVE  request'[r] = request[r]
  BY <1>0, <1>6 DEF Receive, Hit, Miss, SkipGraph, ScoreGraph, GraphDone, Respond
<1>7. CASE Tick \/ UNCHANGED vars
  BY <1>2, <1>7 DEF Tick, vars
<1> QED BY <1>2, <1>3, <1>4, <1>5, <1>6, <1>7 DEF Next

\* Whatever models are missing, an approval has one behind it that called the risk low,
\* and no high-value transaction is approved.
THEOREM ApprovalsAreBacked == Spec => []ApprovalBacked
<1>1. Init => Backed
  BY DEF Init, Backed, Matrixed
<1>2. IInv /\ Backed => ApprovalBacked
  <2> SUFFICES ASSUME IInv, Backed, NEW r \in Requests, request[r].scored,
                      request[r].decision = "APPROVE"
               PROVE  /\ request[r].tx \notin HighValue
                      /\ \E m \in request[r].available :
                            score[request[r].process][request[r].tx][m] <= 45
    BY DEF ApprovalBacked
  <2>1. /\ request[r].process \in Processes /\ request[r].tx \in Transactions
        /\ request[r].decision = MakeDecision(request[r].tx,
              score[request[r].process][request[r].tx], request[r].available)
    BY DEF Backed, Matrixed
  <2>2. score[request[r].process][request[r].tx] \in ScoreTriples
        /\ request[r].available \in SUBSET Models
    BY <2>1 DEF IInv, TypeOK, Request
  <2> QED BY <2>1, <2>2, ApprovalNeedsModel
<1>3. IInv /\ Backed /\ [Next]_vars => Backed'
  BY StepBacked
<1> QED BY <1>1, <1>2, <1>3, ControllerInvariant, PTL DEF Spec
=============================================================================
