-------------------------- MODULE AuditChain_proofs --------------------------
(***************************************************************************)
(* Proofs about AuditChain for any number of workers, calls and ticks: the *)
(* chain never dangles nor runs ahead of its actions, and with clocks that *)
(* agree it verifies until two calls of log_action overlap.                *)
(***************************************************************************)
EXTENDS AuditChain, TLAPS

Busy(w) == writer[w].pc # "idle"

-----------------------------------------------------------------------------
(* Types, and the ids of the calls under way *)

CallInv ==
    /\ TypeOK
    /\ \A w \in Writers : Busy(w) => writer[w].id \in Ids

LEMMA CallInit == Init => CallInv
<1> SUFFICES ASSUME Init PROVE CallInv
  OBVIOUS
<1>1. Idle \in [pc : {"idle", "stamped", "read", "inserted"}, id : Ids \cup {GENESIS},
                prev : Ids \cup {GENESIS}, timestamp : Nat]
  BY DEF Idle
<1>2. 0 \in 0 .. MaxCalls /\ 0 \in 0 .. MaxTicks
  BY AuditAssumption
<1> QED BY <1>1, <1>2 DEF Init, CallInv, TypeOK, Busy, Idle

LEMMA CallNext == CallInv /\ [Next]_vars => CallInv'
<1> SUFFICES ASSUME CallInv, [Next]_vars PROVE CallInv'
  OBVIOUS
<1> USE AuditAssumption
<1>t. TypeOK
  BY DEF CallInv
<1>1. CASE UNCHANGED vars
  BY <1>1 DEF vars, CallInv, TypeOK, Busy
<1>2. ASSUME NEW w \in Writers, Stamp(w) PROVE CallInv'
  <2>1. calls' = calls + 1 /\ calls' \in Ids /\ calls' \in 0 .. MaxCalls
    BY <1>2 DEF Stamp, CallInv, TypeOK, Ids
  <2>2. PICK t \in 0 .. now :
            writer' = [writer EXCEPT ![w] =
                [pc |-> "stamped", id |-> calls', prev |-> GENESIS, timestamp |-> t]]
    BY <1>2 DEF Stamp
  <2>3. t \in Nat
    BY <2>2 DEF CallInv, TypeOK
  <2>4. disturbed' \in BOOLEAN
    BY <1>2 DEF Stamp
  <2> QED BY <1>2, <2>1, <2>2, <2>3, <2>4 DEF Stamp, CallInv, TypeOK, Busy
<1>3. ASSUME NEW w \in Writers, ReadLastHash(w) PROVE CallInv'
  <2>1. PICK h \in LastHashes : writer' = [writer EXCEPT ![w].prev = h, ![w].pc = "read"]
    BY <1>3 DEF ReadLastHash
  <2>2. h \in Ids \cup {GENESIS}
    BY <1>t, <2>1 DEF LastHashes, Newest, TypeOK, Link
  <2> QED BY <1>3, <2>1, <2>2 DEF ReadLastHash, At, CallInv, TypeOK, Busy
<1>4. ASSUME NEW w \in Writers, InsertAction(w) PROVE CallInv'
  <2>1. writer[w].id \in Ids
    BY <1>4 DEF InsertAction, At, CallInv, Busy
  <2> QED BY <1>4, <2>1 DEF InsertAction, At, CallInv, TypeOK, Busy
<1>5. ASSUME NEW w \in Writers, InsertLink(w) PROVE CallInv'
  <2>1. [id |-> writer[w].id, prev |-> writer[w].prev, timestamp |-> writer[w].timestamp]
            \in Link
    BY <1>5 DEF InsertLink, At, CallInv, TypeOK, Busy, Link
  <2> QED BY <1>5, <2>1 DEF InsertLink, CallInv, TypeOK, Busy, Idle
<1>6. ASSUME NEW w \in Writers, Abort(w) PROVE CallInv'
  BY <1>6 DEF Abort, CallInv, TypeOK, Busy, Idle
<1>7. CASE Tick
  BY <1>7 DEF Tick, CallInv, TypeOK, Busy
<1> QED BY <1>1, <1>2, <1>3, <1>4, <1>5, <1>6, <1>7 DEF Next

\* Ids, hashes, clocks and control points stay in their types.
THEOREM TypeCorrect == Spec => []TypeOK
<1>1. CallInv => TypeOK
  BY DEF CallInv
<1> QED BY <1>1, CallInit, CallNext, PTL DEF Spec

-----------------------------------------------------------------------------
(* The chain never dangles and never runs ahead of its actions *)

OnFile(h) == h = GENESIS \/ \E m \in chain : m.id = h

SoundInv ==
    /\ CallInv
    /\ NoDanglingLink
    /\ LinkHasAction
    /\ \A w \in Writers : OnFile(writer[w].prev)
    /\ \A w \in Writers : At(w, "inserted") => writer[w].id \in actions

LEMMA SoundNext == SoundInv /\ [Next]_vars => SoundInv'
<1> SUFFICES ASSUME SoundInv, [Next]_vars PROVE SoundInv'
  OBVIOUS
<1>t. CallInv' /\ TypeOK
  BY CallNext DEF SoundInv, CallInv
<1>0. ASSUME chain' = chain, actions \subseteq actions',
             \A w \in Writers : OnFile(writer[w].prev) => OnFile(writer'[w].prev),
             \A w \in Writers : writer'[w].pc = "inserted" => writer'[w].id \in actions'
      PROVE  SoundInv'
  BY <1>t, <1>0 DEF SoundInv, NoDanglingLink, LinkHasAction, OnFile, At
<1>1. CASE UNCHANGED vars
  BY <1>0, <1>1 DEF vars, SoundInv, At
<1>2. ASSUME NEW w \in Writers, Stamp(w) PROVE SoundInv'
  <2>1. PICK t : writer' = [writer EXCEPT ![w] =
                [pc |-> "stamped", id |-> calls', prev |-> GENESIS, timestamp |-> t]]
    BY <1>2 DEF Stamp
  <2>2. \A v \in Writers : v # w => writer'[v] = writer[v]
    BY <1>t, <2>1 DEF TypeOK
  <2>3. writer'[w].pc = "stamped" /\ writer'[w].prev = GENESIS
    BY <1>t, <2>1 DEF TypeOK
  <2>4. chain' = chain /\ actions' = actions
    BY <1>2 DEF Stamp
  <2> QED BY <1>0, <2>2, <2>3, <2>4 DEF SoundInv, At, OnFile
<1>3. ASSUME NEW w \in Writers, ReadLastHash(w) PROVE SoundInv'
  <2>1. PICK h \in LastHashes : writer' = [writer EXCEPT ![w].prev = h, ![w].pc = "read"]
    BY <1>3 DEF ReadLastHash
  <2>2. OnFile(h)
    BY <2>1 DEF LastHashes, Newest, OnFile
  <2>3. \A v \in Writers : v # w => writer'[v] = writer[v]
    BY <1>t, <2>1 DEF TypeOK
  <2>4. writer'[w].pc = "read" /\ writer'[w].prev = h
    BY <1>t, <2>1 DEF TypeOK
  <2>5. chain' = chain /\ actions' = actions
    BY <1>3 DEF ReadLastHash
  <2> QED BY <1>0, <2>2, <2>3, <2>4, <2>5 DEF SoundInv, At
<1>4. ASSUME NEW w \in Writers, InsertAction(w) PROVE SoundInv'
  <2>1. writer' = [writer EXCEPT ![w].pc = "inserted"] /\ chain' = chain
        /\ actions' = actions \cup {writer[w].id}
    BY <1>4 DEF InsertAction
  <2>2. \A v \in Writers : writer'[v].prev = writer[v].prev /\ writer'[v].id = writer[v].id
    BY <1>t, <2>1 DEF TypeOK
  <2>3. \A v \in Writers : v # w => writer'[v].pc = writer[v].pc
    BY <1>t, <2>1 DEF TypeOK
  <2> QED BY <1>0, <2>1, <2>2, <2>3 DEF SoundInv, At
<1>5. ASSUME NEW w \in Writers, InsertLink(w) PROVE SoundInv'
  <2> DEFINE n == [id |-> writer[w].id, prev |-> writer[w].prev,
                   timestamp |-> writer[w].timestamp]
  <2>1. chain' = chain \cup {n} /\ actions' = actions /\ writer' = [writer EXCEPT ![w] = Idle]
        /\ writer[w].pc = "inserted"
    BY <1>5 DEF InsertLink, At
  <2>2. \A v \in Writers : writer'[v] = Idle \/ writer'[v] = writer[v]
    BY <1>t, <2>1 DEF TypeOK
  <2>3. Idle.pc = "idle" /\ Idle.prev = GENESIS
    BY DEF Idle
  <2>4. n.id \in actions /\ (n.prev = GENESIS \/ \E m \in chain : m.id = n.prev)
    BY <2>1 DEF SoundInv, At, OnFile
  <2>5. NoDanglingLink' /\ LinkHasAction'
    BY <2>1, <2>4 DEF SoundInv, NoDanglingLink, LinkHasAction
  <2>6. \A v \in Writers : OnFile(writer[v].prev)'
    BY <2>1, <2>2, <2>3 DEF SoundInv, OnFile
  <2>7. \A v \in Writers : writer'[v].pc = "inserted" => writer'[v].id \in actions'
    BY <2>1, <2>2, <2>3 DEF SoundInv, At
  <2> QED BY <1>t, <2>5, <2>6, <2>7 DEF SoundInv, At, OnFile
<1>6. ASSUME NEW w \in Writers, Abort(w) PROVE SoundInv'
  <2>1. \A v \in Writers : writer'[v] = Idle \/ writer'[v] = writer[v]
    BY <1>t, <1>6 DEF Abort, TypeOK
  <2>2. chain' = chain /\ actions' = actions
    BY <1>6 DEF Abort
  <2> QED BY <1>0, <2>1, <2>2 DEF SoundInv, At, OnFile, Idle
<1>7. CASE Tick
  BY <1>0, <1>7 DEF Tick, SoundInv, At
<1> QED BY <1>1, <1>2, <1>3, <1>4, <1>5, <1>6, <1>7 DEF Next

LEMMA SoundInit == Init => SoundInv
BY CallInit DEF Init, SoundInv, NoDanglingLink, LinkHasAction, OnFile, At, Idle

\* However the calls of log_action overlap and abort and whatever the clocks say, every
\* link names a link on file or GENESIS, and every link has its action.
THEOREM ChainSound == Spec => [](NoDanglingLink /\ LinkHasAction)
<1>1. SoundInv => NoDanglingLink /\ LinkHasAction
  BY DEF SoundInv
<1> QED BY <1>1, SoundInit, SoundNext, PTL DEF Spec

-----------------------------------------------------------------------------
(* While no two calls have overlapped and the clocks agree, the chain verifies *)

\* The only call under way, if any, is younger than every link; from its read on it
\* holds the hash of the newest link.
Extends(w) ==
    /\ \A l \in chain : l.timestamp < writer[w].timestamp
    /\ writer[w].timestamp <= now
    /\ writer[w].pc \in {"read", "inserted"} =>
          \A l \in Newest : writer[w].prev = l.id

Serial ==
    /\ \A v, w \in Writers : Busy(v) /\ Busy(w) => v = w
    /\ \A l \in chain : l.timestamp < now
    /\ \A l, m \in chain : l.timestamp = m.timestamp => l = m
    /\ \A w \in Writers : Busy(w) => Extends(w)
    /\ Valid

SerialInv ==
    /\ CallInv
    /\ ~disturbed => Serial

\* Steps that leave the chain alone.
LEMMA SerialKept ==
    ASSUME SerialInv, ~disturbed, chain' = chain, now <= now', now' \in Nat,
           \A v, w \in Writers : Busy(v)' /\ Busy(w)' => v = w,
           \A w \in Writers : Busy(w)' => Extends(w)'
    PROVE  Serial'
<1>1. chain \subseteq Link /\ now \in Nat
  BY DEF SerialInv, CallInv, TypeOK
<1>2. \A l \in chain : l.timestamp \in Nat
  BY <1>1 DEF Link
<1>3. \A l \in chain' : l.timestamp < now'
  BY <1>1, <1>2 DEF SerialInv, Serial
<1>4. Valid'
  BY DEF SerialInv, Serial, Valid, MayFollow
<1>5. \A l, m \in chain' : l.timestamp = m.timestamp => l = m
  BY DEF SerialInv, Serial
<1> QED BY <1>3, <1>4, <1>5 DEF Serial

\* The newest link is the only one that may precede a link younger than all.
LEMMA Appended ==
    ASSUME TypeOK, Serial, NEW n \in Link, chain' = chain \cup {n},
           \A l \in chain : l.timestamp < n.timestamp,
           \A l \in Newest : n.prev = l.id
    PROVE  /\ Valid'
           /\ \A l, m \in chain' : l.timestamp = m.timestamp => l = m
<1>1. n.timestamp \in Nat /\ \A l \in chain : l.timestamp \in Nat
  BY DEF Link, TypeOK
<1>2. ASSUME NEW m \in chain', NEW l \in chain', MayFollow(m, l)' PROVE l.prev = m.id
  <2>1. CASE m \in chain /\ l \in chain
    BY <1>2, <2>1 DEF MayFollow, Serial, Valid
  <2>2. CASE m \in chain /\ l = n
    <3>1. ASSUME NEW k \in chain PROVE k.timestamp <= m.timestamp
      BY <1>1, <1>2, <2>2 DEF MayFollow
    <3>2. m \in Newest
      BY <2>2, <3>1 DEF Newest
    <3> QED BY <2>2, <3>2
  <2>3. CASE m = n /\ l \in chain
    BY <1>1, <1>2, <2>3 DEF MayFollow
  <2>4. CASE m = n /\ l = n
    BY <1>2, <2>4 DEF MayFollow
  <2> QED BY <2>1, <2>2, <2>3, <2>4
<1>3. Valid'
  BY <1>2 DEF Valid
<1>4. \A l, m \in chain' : l.timestamp = m.timestamp => l = m
  BY <1>1 DEF Serial
<1> QED BY <1>3, <1>4

LEMMA SerialNext == SerialInv /\ [Next]_vars => SerialInv'
<1> SUFFICES ASSUME SerialInv, [Next]_vars, ~disturbed' PROVE Serial'
  BY CallNext DEF SerialInv
<1>t. TypeOK /\ now \in Nat
  BY DEF SerialInv, CallInv, TypeOK
<1>n. \A l \in chain : l.timestamp \in Nat
  BY <1>t DEF TypeOK, Link
<1>1. CASE UNCHANGED vars
  BY <1>t, <1>1, SerialKept DEF vars, SerialInv, Serial, Busy, Extends, Newest
<1>2. ASSUME NEW w \in Writers, Stamp(w) PROVE Serial'
  <2>1. PICK t \in 0 .. now :
            /\ disturbed' = (disturbed \/ t # now \/ \E v \in Writers : ~At(v, "idle"))
            /\ writer' = [writer EXCEPT ![w] =
                  [pc |-> "stamped", id |-> calls', prev |-> GENESIS, timestamp |-> t]]
    BY <1>2 DEF Stamp
  <2>2. t = now
    BY <2>1
  <2>3. ~disturbed /\ (\A v \in Writers : ~Busy(v)) /\ chain' = chain /\ now' = now
    BY <1>2, <2>1 DEF Stamp, At, Busy
  <2>4. \A v \in Writers : v # w => writer'[v] = writer[v]
    BY <1>t, <2>1 DEF TypeOK
  <2>5. writer'[w].pc = "stamped" /\ writer'[w].timestamp = now
    BY <1>t, <2>1, <2>2 DEF TypeOK
  <2>6. \A l \in chain : l.timestamp < now
    BY <2>3 DEF SerialInv, Serial
  <2>7. \A u, v \in Writers : Busy(u)' /\ Busy(v)' => u = v
    BY <2>3, <2>4 DEF Busy
  <2>8. \A v \in Writers : Busy(v)' => Extends(v)'
    BY <1>t, <2>3, <2>4, <2>5, <2>6 DEF Busy, Extends
  <2> QED BY <1>t, <2>3, <2>7, <2>8, SerialKept
<1>3. ASSUME NEW w \in Writers, ReadLastHash(w) PROVE Serial'
  <2>1. PICK h \in LastHashes : writer' = [writer EXCEPT ![w].prev = h, ![w].pc = "read"]
    BY <1>3 DEF ReadLastHash
  <2>2. ~disturbed /\ Serial /\ Busy(w) /\ chain' = chain /\ now' = now
    BY <1>3 DEF ReadLastHash, SerialInv, At, Busy
  <2>3. \A v \in Writers : v # w => writer'[v] = writer[v]
    BY <1>t, <2>1 DEF TypeOK
  <2>4. writer'[w].prev = h /\ writer'[w].timestamp = writer[w].timestamp
    BY <1>t, <2>1 DEF TypeOK
  <2>5. \A l \in Newest : h = l.id
    <3>1. \A l, m \in Newest : l.timestamp = m.timestamp
      BY <1>n DEF Newest
    <3>2. \A l, m \in Newest : l = m
      BY <2>2, <3>1 DEF Serial, Newest
    <3> QED BY <2>1, <3>2 DEF LastHashes, Newest
  <2>6. Newest' = Newest
    BY <2>2 DEF Newest
  <2>7. \A u, v \in Writers : Busy(u)' /\ Busy(v)' => u = v
    BY <2>2, <2>3 DEF Busy, Serial
  <2>8. \A v \in Writers : Busy(v)' => Extends(v)'
    BY <2>2, <2>3, <2>4, <2>5, <2>6 DEF Busy, Extends, Serial
  <2> QED BY <1>t, <2>2, <2>7, <2>8, SerialKept
<1>4. ASSUME NEW w \in Writers, InsertAction(w) PROVE Serial'
  <2>1. ~disturbed /\ Serial /\ Busy(w) /\ writer[w].pc = "read" /\ chain' = chain /\ now' = now
        /\ writer' = [writer EXCEPT ![w].pc = "inserted"]
    BY <1>4 DEF InsertAction, SerialInv, At, Busy
  <2>2. \A v \in Writers : v # w => writer'[v] = writer[v]
    BY <1>t, <2>1 DEF TypeOK
  <2>3. writer'[w].prev = writer[w].prev /\ writer'[w].timestamp = writer[w].timestamp
    BY <1>t, <2>1 DEF TypeOK
  <2>4. Newest' = Newest
    BY <2>1 DEF Newest
  <2>5. \A u, v \in Writers : Busy(u)' /\ Busy(v)' => u = v
    BY <2>1, <2>2 DEF Busy, Serial
  <2>6. \A v \in Writers : Busy(v)' => Extends(v)'
    BY <2>1, <2>2, <2>3, <2>4 DEF Busy, Extends, Serial
  <2> QED BY <1>t, <2>1, <2>5, <2>6, SerialKept
<1>5. ASSUME NEW w \in Writers, InsertLink(w) PROVE Serial'
  <2> DEFINE n == [id |-> writer[w].id, prev |-> writer[w].prev,
                   timestamp |-> writer[w].timestamp]
  <2>1. /\ ~disturbed /\ Serial /\ Busy(w) /\ writer[w].pc = "inserted"
        /\ chain' = chain \cup {n} /\ now' = now + 1 /\ writer' = [writer EXCEPT ![w] = Idle]
    BY <1>5 DEF InsertLink, SerialInv, At, Busy
  <2>2. n \in Link
    BY <2>1 DEF SerialInv, CallInv, TypeOK, Link
  <2>3. /\ \A l \in chain : l.timestamp < n.timestamp
        /\ n.timestamp <= now
        /\ \A l \in Newest : n.prev = l.id
    BY <2>1 DEF Serial, Extends
  <2>4. Valid' /\ \A l, m \in chain' : l.timestamp = m.timestamp => l = m
    BY <1>t, <2>1, <2>2, <2>3, Appended
  <2>5. \A v \in Writers : ~Busy(v)'
    <3>1. \A v \in Writers : v # w => ~Busy(v)
      BY <2>1 DEF Serial
    <3>2. writer'[w].pc = "idle" /\ \A v \in Writers : v # w => writer'[v] = writer[v]
      BY <1>t, <2>1 DEF TypeOK, Idle
    <3> QED BY <3>1, <3>2 DEF Busy
  <2>6. n.timestamp \in Nat
    BY <2>2 DEF Link
  <2>7. \A l \in chain' : l.timestamp < now'
    BY <1>t, <1>n, <2>1, <2>3, <2>6 DEF Serial
  <2> QED BY <2>4, <2>5, <2>7 DEF Serial
<1>6. ASSUME NEW w \in Writers, Abort(w) PROVE Serial'
  <2>1. ~disturbed /\ Serial /\ chain' = chain /\ now' = now /\ writer' = [writer EXCEPT ![w] = Idle]
    BY <1>6 DEF Abort, SerialInv
  <2>2. \A v \in Writers : Busy(v)' => writer'[v] = writer[v] /\ Busy(v)
    BY <1>t, <2>1 DEF TypeOK, Idle, Busy
  <2>3. Newest' = Newest
    BY <2>1 DEF Newest
  <2>4. \A u, v \in Writers : Busy(u)' /\ Busy(v)' => u = v
    BY <2>1, <2>2 DEF Serial
  <2>5. \A v \in Writers : Busy(v)' => Extends(v)'
    BY <2>1, <2>2, <2>3 DEF Extends, Serial
  <2> QED BY <1>t, <2>1, <2>4, <2>5, SerialKept
<1>7. CASE Tick
  <2>1. ~disturbed /\ Serial /\ chain' = chain /\ now' = now + 1 /\ writer' = writer
    BY <1>7 DEF Tick, SerialInv
  <2>2. \A u, v \in Writers : Busy(u)' /\ Busy(v)' => u = v
    BY <2>1 DEF Serial, Busy
  <2>3. \A v \in Writers : writer[v].timestamp \in Nat
    BY <1>t DEF TypeOK
  <2>4. \A v \in Writers : Busy(v)' => Extends(v)'
    BY <1>t, <2>1, <2>3 DEF Busy, Extends, Serial, Newest
  <2> QED BY <1>t, <2>1, <2>2, <2>4, SerialKept
<1> QED BY <1>1, <1>2, <1>3, <1>4, <1>5, <1>6, <1>7 DEF Next

LEMMA SerialInit == Init => SerialInv
BY CallInit DEF Init, SerialInv, Serial, Busy, Idle, Valid

\* verify_chain accepts the chain in every order the database may return it, until two calls
\* of log_action overlap or one reads a lagging clock: for any number of workers, calls and
\* aborted calls.
THEOREM SerialChainsVerify == Spec => []SerialChainValid
<1>1. SerialInv => SerialChainValid
  BY DEF SerialInv, Serial, SerialChainValid
<1>2. SerialInv /\ [Next]_vars => SerialInv'
  BY SerialNext
<1> QED BY <1>1, <1>2, SerialInit, PTL DEF Spec
=============================================================================
