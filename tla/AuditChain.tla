------------------------------ MODULE AuditChain ------------------------------
(***************************************************************************)
(* The hash chain of one investigation in the audit store                  *)
(* (src/soar/audit_store.py, MongoDB branch).  A writer is a web worker    *)
(* inside log_action: it takes a timestamp, reads the hash of the last     *)
(* link, inserts the action and then the link, with nothing atomic over    *)
(* the four.  Workers may overlap, and may die between any two steps.      *)
(* Chains of different investigations share nothing, so one is enough.     *)
(* The hash of a record is as good as its identity: action ids are unique. *)
(***************************************************************************)
EXTENDS Naturals, FiniteSets

CONSTANTS
    Writers,     \* web workers that may log actions of the investigation
    MaxSkew,     \* how far a worker's clock may lag behind the fastest clock
    MaxCalls,    \* bound: calls of log_action
    MaxTicks     \* bound: idle clock ticks

ASSUME AuditAssumption ==
    /\ MaxSkew \in Nat
    /\ MaxCalls \in Nat
    /\ MaxTicks \in Nat

GENESIS == 0

VARIABLES
    actions,     \* agent_actions: ids of the recorded actions
    chain,       \* audit_chain: links [id, prev, timestamp]
    writer,      \* what each worker holds while it is in log_action
    now,         \* the fastest clock
    calls,       \* calls of log_action so far: the last id given out
    ticks,       \* idle ticks so far
    disturbed    \* history: some call began while another was under way, or on a
                 \* worker whose clock lagged

vars == <<actions, chain, writer, now, calls, ticks, disturbed>>

Ids == 1 .. MaxCalls
Link == [id : Ids, prev : Ids \cup {GENESIS}, timestamp : Nat]
Idle == [pc |-> "idle", id |-> GENESIS, prev |-> GENESIS, timestamp |-> 0]

TypeOK ==
    /\ actions \subseteq Ids
    /\ chain \subseteq Link
    /\ writer \in [Writers -> [pc : {"idle", "stamped", "read", "inserted"},
                               id : Ids \cup {GENESIS}, prev : Ids \cup {GENESIS},
                               timestamp : Nat]]
    /\ now \in Nat
    /\ calls \in 0 .. MaxCalls
    /\ ticks \in 0 .. MaxTicks
    /\ disturbed \in BOOLEAN

Init ==
    /\ actions = {}
    /\ chain = {}
    /\ writer = [w \in Writers |-> Idle]
    /\ now = 0
    /\ calls = 0
    /\ ticks = 0
    /\ disturbed = FALSE

-----------------------------------------------------------------------------
(* log_action *)

At(w, pc) == writer[w].pc = pc

\* The call begins: a fresh action id and the worker's own clock.
Stamp(w) ==
    /\ At(w, "idle")
    /\ calls < MaxCalls
    /\ calls' = calls + 1
    /\ \E t \in 0 .. now :
          /\ now <= t + MaxSkew
          /\ writer' = [writer EXCEPT ![w] =
                [pc |-> "stamped", id |-> calls', prev |-> GENESIS, timestamp |-> t]]
          /\ disturbed' = (disturbed \/ t # now \/ \E v \in Writers : ~At(v, "idle"))
    /\ UNCHANGED <<actions, chain, now, ticks>>

\* The links a descending sort by timestamp may return first.
Newest == {l \in chain : \A m \in chain : m.timestamp <= l.timestamp}

\* Variant for mutation: the sort is ascending.
LastHashesAscending ==
    IF chain = {} THEN {GENESIS}
    ELSE {l.id : l \in {k \in chain : \A m \in chain : k.timestamp <= m.timestamp}}

\* Variant for mutation: the last hash is taken from agent_actions.
LastHashesOfActions ==
    IF actions = {} THEN {GENESIS} ELSE {a \in actions : \A b \in actions : b <= a}

\* _get_last_hash: the hashes it may return.
LastHashes == IF chain = {} THEN {GENESIS} ELSE {l.id : l \in Newest}

ReadLastHash(w) ==
    /\ At(w, "stamped")
    /\ \E h \in LastHashes : writer' = [writer EXCEPT ![w].prev = h, ![w].pc = "read"]
    /\ UNCHANGED <<actions, chain, now, calls, ticks, disturbed>>

InsertAction(w) ==
    /\ At(w, "read")
    /\ actions' = actions \cup {writer[w].id}
    /\ writer' = [writer EXCEPT ![w].pc = "inserted"]
    /\ UNCHANGED <<chain, now, calls, ticks, disturbed>>

\* The last insert; the call returns.  The database round trips of a call take
\* longer than the clock's resolution, so a later call sees a later time.
InsertLink(w) ==
    /\ At(w, "inserted")
    /\ chain' = chain \cup {[id |-> writer[w].id, prev |-> writer[w].prev,
                             timestamp |-> writer[w].timestamp]}
    /\ writer' = [writer EXCEPT ![w] = Idle]
    /\ now' = now + 1
    /\ UNCHANGED <<actions, calls, ticks, disturbed>>

\* The worker dies or the database call raises: the rest of the call is lost, and
\* the worker (or its replacement) serves other requests.
Abort(w) ==
    /\ ~At(w, "idle")
    /\ writer' = [writer EXCEPT ![w] = Idle]
    /\ UNCHANGED <<actions, chain, now, calls, ticks, disturbed>>

Tick ==
    /\ ticks < MaxTicks
    /\ ticks' = ticks + 1
    /\ now' = now + 1
    /\ UNCHANGED <<actions, chain, writer, calls, disturbed>>

Next ==
    \/ \E w \in Writers :
          Stamp(w) \/ ReadLastHash(w) \/ InsertAction(w) \/ InsertLink(w) \/ Abort(w)
    \/ Tick

Spec == Init /\ [][Next]_vars

-----------------------------------------------------------------------------
(* verify_chain *)

\* l may come right after m in a sort by timestamp (ties in any order).
MayFollow(m, l) ==
    /\ m # l
    /\ m.timestamp <= l.timestamp
    /\ \A k \in chain : ~(m.timestamp < k.timestamp /\ k.timestamp < l.timestamp)

\* verify_chain reports valid, whatever order the database gives to ties.
Valid == \A m, l \in chain : MayFollow(m, l) => l.prev = m.id

-----------------------------------------------------------------------------
(* Properties *)

\* "Hash chain linking (prev_hash) for ordering integrity": an untampered chain
\* verifies.  True as long as no two calls of log_action overlapped and each read a
\* clock that did not lag, crashes included: an aborted call leaves the chain alone.
SerialChainValid == ~disturbed => Valid

\* The chain has no hole even under overlap: a link names a link that is on file.
NoDanglingLink == \A l \in chain : l.prev # GENESIS => \E m \in chain : m.id = l.prev

\* A link is never older than its action: whoever reads the chain finds the record
\* each link stands for, whenever the writer died.
LinkHasAction == \A l \in chain : l.id \in actions

\* The same without the proviso: what verify_chain's callers rely on.
AlwaysValid == Valid
=============================================================================
