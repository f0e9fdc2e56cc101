------------------------- MODULE TransactionController -------------------------
(***************************************************************************)
(* The scoring endpoint POST /api/v1/core/score                            *)
(* (src/core_engine/transaction_controller.py): idempotency cache, three   *)
(* models, decision matrix and the circuit breaker of the graph model.     *)
(* A process runs one coroutine at a time; a request gives way between the *)
(* cache check and the scoring of the graph, and again while the other two *)
(* models sleep.  Cache and breaker are variables of the process, and a    *)
(* retry may reach another process.  The graph is scored without giving    *)
(* way: no driver is ever passed to the extractor, so it awaits nothing.   *)
(***************************************************************************)
EXTENDS Integers, Sequences, FiniteSets

CONSTANTS
    Processes,         \* workers of all replicas
    Requests,          \* calls of score_transaction
    Transactions,      \* transaction_id values
    HighValue,         \* the transactions above 10 000
    ScoreTriples,      \* what the three models may say, in hundredths
    CacheLimit,        \* entries before the eviction (10 000)
    Evicted,           \* entries one eviction drops (5 000)
    threshold,         \* failures that open the breaker (5)
    RecoveryTimeout    \* ticks the breaker stays open (30 s)

ASSUME ControllerAssumption ==
    /\ HighValue \subseteq Transactions
    /\ ScoreTriples \subseteq [graph : 0 .. 100, xgboost : 0 .. 100, biometric : 0 .. 100]
    /\ CacheLimit \in Nat /\ Evicted \in 1 .. CacheLimit
    /\ threshold \in Nat \ {0} /\ RecoveryTimeout \in Nat

Decisions == {"APPROVE", "DECLINE", "STEP_UP_AUTH"}
Models == {"graph", "xgboost", "biometric"}
None == "none"

VARIABLES
    score,      \* process -> transaction -> what its models say: the seed of the random
                \* scores is a string hash, which differs between replicas
    request,    \* request -> where it stands
    cache,      \* process -> _IDEMPOTENCY_CACHE, in insertion order
    circuit     \* process -> _circuit

vars == <<score, request, cache, circuit>>

Request == [pc : {"idle", "received", "graphed", "answered"},
            process : Processes \cup {None}, tx : Transactions \cup {None},
            available : SUBSET Models,    \* the models that answered
            scored : BOOLEAN,             \* answered after scoring, not by a hit
            decision : Decisions \cup {None}]
Circuit == [neo4j_healthy : BOOLEAN, failure_count : Nat,
            waited : 0 .. RecoveryTimeout + 1]     \* since last_check, saturating

TypeOK ==
    /\ score \in [Processes -> [Transactions -> ScoreTriples]]
    /\ request \in [Requests -> Request]
    /\ \A p \in Processes :
          /\ cache[p] \in Seq([tx : Transactions, decision : Decisions])
          /\ Len(cache[p]) <= CacheLimit
    /\ circuit \in [Processes -> Circuit]

Init ==
    /\ score \in [Processes -> [Transactions -> ScoreTriples]]
    /\ request = [r \in Requests |-> [pc |-> "idle", process |-> None, tx |-> None,
                    available |-> {}, scored |-> FALSE, decision |-> None]]
    /\ cache = [p \in Processes |-> <<>>]
    /\ circuit = [p \in Processes |->
                    [neo4j_healthy |-> TRUE, failure_count |-> 0, waited |-> 0]]

-----------------------------------------------------------------------------
(* _make_decision: the weighted average of the available scores, as a sum  *)
(* to be compared with a multiple of the sum of the weights.               *)

Weight == [graph |-> 45, xgboost |-> 35, biometric |-> 20]

Counted(m, available) == IF m \in available THEN Weight[m] ELSE 0

TotalWeight(available) ==
    Counted("graph", available) + Counted("xgboost", available) + Counted("biometric", available)

WeightedSum(s, available) ==
    s.graph * Counted("graph", available) + s.xgboost * Counted("xgboost", available)
        + s.biometric * Counted("biometric", available)

\* Variant for mutation: without models the risk is zero.
MakeDecisionTrusting(tx, s, available) ==
    LET sum == WeightedSum(s, available)
        weight == TotalWeight(available)
    IN CASE sum > 75 * weight -> "DECLINE"
         [] sum <= 75 * weight /\ (sum > 45 * weight \/ tx \in HighValue) -> "STEP_UP_AUTH"
         [] OTHER -> "APPROVE"

\* Without any model the combined score is 0.5.
MakeDecision(tx, s, available) ==
    LET sum == IF available = {} THEN 50 ELSE WeightedSum(s, available)
        weight == IF available = {} THEN 1 ELSE TotalWeight(available)
    IN CASE sum > 75 * weight -> "DECLINE"
         [] sum <= 75 * weight /\ (sum > 45 * weight \/ tx \in HighValue) -> "STEP_UP_AUTH"
         [] OTHER -> "APPROVE"

-----------------------------------------------------------------------------
(* The cache and the breaker *)

CacheEntries(p, tx) == {i \in DOMAIN cache[p] : cache[p][i].tx = tx}

\* Variant for mutation: the eviction comes when the cache is full.
EvictEarly(entries) ==
    IF Len(entries) >= CacheLimit THEN SubSeq(entries, Evicted + 1, Len(entries))
                                  ELSE entries

\* Variant for mutation: the eviction drops the newest entries.
EvictNewest(entries) ==
    IF Len(entries) > CacheLimit THEN SubSeq(entries, 1, Len(entries) - Evicted)
                                 ELSE entries

Evict(entries) ==
    IF Len(entries) > CacheLimit THEN SubSeq(entries, Evicted + 1, Len(entries))
                                 ELSE entries

\* Writing a key that is there replaces its value and keeps its place.
CacheResult(p, tx, decision) ==
    cache' = [cache EXCEPT ![p] =
        IF CacheEntries(p, tx) # {}
        THEN [i \in DOMAIN @ |-> IF @[i].tx = tx THEN [tx |-> tx, decision |-> decision]
                                                 ELSE @[i]]
        ELSE Evict(Append(@, [tx |-> tx, decision |-> decision]))]

RecordFailure(c) ==
    LET failures == c.failure_count + 1
    IN IF failures >= threshold
       THEN [neo4j_healthy |-> FALSE, failure_count |-> failures, waited |-> 0]
       ELSE [c EXCEPT !.failure_count = failures]

RecordSuccess(c) == [c EXCEPT !.failure_count = 0, !.neo4j_healthy = TRUE]

IsOpen(c) == ~c.neo4j_healthy /\ c.waited <= RecoveryTimeout

-----------------------------------------------------------------------------
(* score_transaction *)

Hit(r, p, tx) ==
    \E i \in CacheEntries(p, tx) :
        request' = [request EXCEPT ![r] =
            [@ EXCEPT !.pc = "answered", !.process = p, !.tx = tx,
                      !.decision = cache[p][i].decision]]

Miss(r, p, tx) ==
    /\ CacheEntries(p, tx) = {}
    /\ request' = [request EXCEPT ![r] =
          [@ EXCEPT !.pc = "received", !.process = p, !.tx = tx]]

Receive(r, p, tx) ==
    /\ request[r].pc = "idle"
    /\ Hit(r, p, tx) \/ Miss(r, p, tx)
    /\ UNCHANGED <<score, cache, circuit>>

GraphDone(r, available) ==
    request' = [request EXCEPT ![r] =
        [@ EXCEPT !.pc = "graphed", !.available = IF available THEN {"graph"} ELSE {}]]

\* _score_graph while the breaker is open.
SkipGraph(r) ==
    /\ request[r].pc = "received"
    /\ IsOpen(circuit[request[r].process])
    /\ GraphDone(r, FALSE)
    /\ UNCHANGED <<score, cache, circuit>>

\* _score_graph otherwise; its except clause catches whatever the extractor raises.
ScoreGraph(r) ==
    LET p == request[r].process
    IN /\ request[r].pc = "received"
       /\ ~IsOpen(circuit[p])
       /\ \/ /\ GraphDone(r, TRUE)
             /\ circuit' = [circuit EXCEPT ![p] = RecordSuccess(@)]
          \/ /\ GraphDone(r, FALSE)
             /\ circuit' = [circuit EXCEPT ![p] = RecordFailure(@)]
       /\ UNCHANGED <<score, cache>>

\* The other two models answer, or their except clauses do; decision, cache, response.
Respond(r) ==
    LET p == request[r].process
        tx == request[r].tx
    IN /\ request[r].pc = "graphed"
       /\ \E others \in SUBSET {"xgboost", "biometric"} :
             LET available == request[r].available \cup others
                 decision == MakeDecision(tx, score[p][tx], available)
             IN /\ request' = [request EXCEPT ![r] =
                       [@ EXCEPT !.pc = "answered", !.available = available, !.scored = TRUE,
                                 !.decision = decision]]
                /\ CacheResult(p, tx, decision)
       /\ UNCHANGED <<score, circuit>>

Tick ==
    /\ \E p \in Processes : circuit[p].waited <= RecoveryTimeout
    /\ circuit' = [p \in Processes |->
          [circuit[p] EXCEPT !.waited = IF @ <= RecoveryTimeout THEN @ + 1 ELSE @]]
    /\ UNCHANGED <<score, request, cache>>

Next ==
    \/ \E r \in Requests :
          \/ \E p \in Processes, tx \in Transactions : Receive(r, p, tx)
          \/ SkipGraph(r)
          \/ ScoreGraph(r)
          \/ Respond(r)
    \/ Tick

Spec == Init /\ [][Next]_vars

-----------------------------------------------------------------------------
(* Properties *)

ScoredAt(p) == {r \in Requests : request[r].scored /\ request[r].process = p}

\* A retry that comes after its transaction was answered is recognised and not scored
\* again, unless its process has answered more transactions than the cache holds.
RetryRecognised ==
    [][\A r \in Requests :
          request[r].pc = "idle" /\ request'[r].pc = "received"
          => LET p == request'[r].process
                 done == {request[q].tx : q \in ScoredAt(p)}
             IN request'[r].tx \in done => \E txs \in SUBSET done :
                    Cardinality(txs) = CacheLimit + 1]_vars

\* The answer given last for a transaction survives its own insertion: whatever the
\* eviction drops, the next retry finds it.
AnswerCached ==
    [][\A r \in Requests :
          request[r].pc = "graphed" /\ request'[r].pc = "answered"
          => \E i \in DOMAIN cache'[request[r].process] :
                cache'[request[r].process][i]
                    = [tx |-> request[r].tx, decision |-> request'[r].decision]]_vars

\* Whatever models are missing, a transaction is approved only if one of them was there
\* and said that its risk is low, and a high-value transaction never.
ApprovalBacked ==
    \A r \in Requests :
        request[r].scored /\ request[r].decision = "APPROVE"
            => /\ request[r].tx \notin HighValue
               /\ \E m \in request[r].available :
                     score[request[r].process][request[r].tx][m] <= 45

\* The breaker is open only after threshold failures with no success since.
OpenJustified ==
    \A p \in Processes :
        ~circuit[p].neo4j_healthy <=> circuit[p].failure_count >= threshold
=============================================================================
