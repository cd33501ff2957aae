-------------------------- MODULE IdempotencyProofs --------------------------
(***************************************************************************)
(* Safety of the idempotency store for any requests, keys, TTL and limit.  *)
(***************************************************************************)
EXTENDS Idempotency, FiniteSetTheorems, TLAPS

\* An entry in the map belongs to its key, and is finished or being produced.
EntriesOwned ==
  \A k \in Keys :
    entries[k] # None =>
      /\ KeyOf[entries[k]] = k
      /\ \/ entries[k] \in ready /\ outcome[entries[k]] = "ok"
         \/ entries[k] \notin ready /\ Producing(entries[k])

\* A finished entry's request has returned.
ReadyReturned == \A r \in ready : pc[r] = "returned"

\* Only requests with a key get beyond the first step.
KeyedSteps == \A r \in Requests : pc[r] \in PCs \ {"call", "returned"} => KeyOf[r] \in Keys

\* A replayed answer is a finished entry's: its outcome no longer changes.
AnswersReady == \A r \in Requests : answer[r] \notin {None, r} => answer[r] \in ready

\* finalizeEntry is called with what the producer returned.
OutcomeKnown == \A r \in Requests : pc[r] = "finalize" => outcome[r] # "none"

\* A waiting request waits for an entry.
WaitsOnEntry == \A r \in Requests : pc[r] = "wait" => waitOn[r] \in Requests

\* The inductive invariant for the entries.
IInv ==
  /\ TypeOK
  /\ EntriesOwned
  /\ ReadyReturned
  /\ KeyedSteps
  /\ AnswersReady
  /\ OutcomeKnown
  /\ WaitsOnEntry
  /\ ProducerOwnsEntry
  /\ WaitersHaveProducer
  /\ ReplaysAreSuccesses

-----------------------------------------------------------------------------
\* Garbage collection and eviction take ready entries only.
LEMMA GcKeepsUnfinished ==
  ASSUME TypeOK, NEW t \in Nat, NEW k \in Keys
  PROVE  /\ Gc(t) \in [Keys -> Requests \cup {None}]
         /\ Gc(t)[k] \in {None, entries[k]}
         /\ entries[k] \notin ready => Gc(t)[k] = entries[k]
  BY IdempotencyAssumption DEF TypeOK, Gc

\* The empty store satisfies the inductive invariant.
LEMMA InitInv == Init => IInv
  BY IdempotencyAssumption
  DEF Init, IInv, TypeOK, EntriesOwned, ReadyReturned, KeyedSteps, AnswersReady, OutcomeKnown,
      WaitsOnEntry, ProducerOwnsEntry, WaitersHaveProducer, ReplaysAreSuccesses, Producing, PCs

\* Every critical section of Do, and every step of a client or the clock,
\* preserves it.
LEMMA NextInv == IInv /\ [Next]_vars => IInv'
  <1> SUFFICES ASSUME IInv, [Next]_vars
               PROVE  IInv'
    OBVIOUS
  <1> USE IdempotencyAssumption
      DEF IInv, TypeOK, EntriesOwned, ReadyReturned, KeyedSteps, AnswersReady, OutcomeKnown,
          WaitsOnEntry, ProducerOwnsEntry, WaitersHaveProducer, ReplaysAreSuccesses, Producing, PCs, Goto
  <1>1. CASE Tick
    BY <1>1 DEF Tick
  <1>2. ASSUME NEW r \in Requests, RunWithoutKey(r)
        PROVE  IInv'
    BY <1>2 DEF RunWithoutKey
  <1>3. ASSUME NEW r \in Requests, ReadClock(r)
        PROVE  IInv'
    BY <1>3 DEF ReadClock
  <1>4. ASSUME NEW r \in Requests, Replay(r)
        PROVE  IInv'
    <2>1. KeyOf[r] \in Keys /\ clock[r] \in Nat
      BY <1>4 DEF Replay
    <2>2. Gc(clock[r])[KeyOf[r]] = entries[KeyOf[r]] /\ entries[KeyOf[r]] \in ready
      BY <1>4, <2>1, GcKeepsUnfinished DEF Replay
    <2> QED
      BY <1>4, <2>1, <2>2, GcKeepsUnfinished DEF Replay
  <1>5. ASSUME NEW r \in Requests, Wait(r)
        PROVE  IInv'
    <2>1. KeyOf[r] \in Keys /\ clock[r] \in Nat
      BY <1>5 DEF Wait
    <2>2. Gc(clock[r])[KeyOf[r]] = entries[KeyOf[r]] /\ entries[KeyOf[r]] \in Requests \ ready
      BY <1>5, <2>1, GcKeepsUnfinished DEF Wait
    <2> QED
      BY <1>5, <2>1, <2>2, GcKeepsUnfinished DEF Wait
  <1>6. ASSUME NEW r \in Requests, Create(r)
        PROVE  IInv'
    BY <1>6, GcKeepsUnfinished DEF Create, IsVictimSet, Evict, Evictable
  <1>7. ASSUME NEW r \in Requests, Produce(r)
        PROVE  IInv'
    BY <1>7 DEF Produce
  <1>8. ASSUME NEW r \in Requests, Finalize(r)
        PROVE  IInv'
    <2>1. KeyOf[r] \in Keys /\ entries[KeyOf[r]] = r /\ r \notin ready
      BY <1>8 DEF Finalize
    <2>2. CASE outcome[r] = "err"
      BY <1>8, <2>1, <2>2 DEF Finalize
    <2>3. CASE outcome[r] # "err"
      BY <1>8, <2>1, <2>3 DEF Finalize
    <2> QED
      BY <2>2, <2>3
  <1>9. ASSUME NEW r \in Requests, WakeUp(r) \/ Cancel(r)
        PROVE  IInv'
    BY <1>9 DEF WakeUp, Cancel
  <1>10. CASE UNCHANGED vars
    BY <1>10 DEF vars
  <1> QED
    BY <1>1, <1>2, <1>3, <1>4, <1>5, <1>6, <1>7, <1>8, <1>9, <1>10 DEF Next, Step

\* The inductive invariant holds throughout.
THEOREM StoreInvariant == Spec => []IInv
  BY InitInv, NextInv, PTL DEF Spec

\* The store's map, entries and requests keep their types.
THEOREM TypeCorrect == Spec => []TypeOK
  BY StoreInvariant, PTL DEF IInv

\* A producing request finds its own entry when it finalizes, so it always
\* closes the channel its duplicates wait on.
THEOREM ProducerAlwaysOwnsEntry == Spec => []ProducerOwnsEntry
  BY StoreInvariant, PTL DEF IInv

\* Two requests never produce for one key at the same time, whatever the TTL,
\* the limit and the evictions.
THEOREM MutualExclusion == Spec => []OneProducerPerKey
  <1>1. ProducerOwnsEntry => OneProducerPerKey
    BY DEF ProducerOwnsEntry, OneProducerPerKey
  <1> QED
    BY <1>1, ProducerAlwaysOwnsEntry, PTL

\* No request waits on an entry that nobody will finish.
THEOREM NoAbandonedWaiter == Spec => []WaitersHaveProducer
  BY StoreInvariant, PTL DEF IInv

\* A replay is always the successful response of a request with the same key.
THEOREM ReplaysCorrect == Spec => []ReplaysAreSuccesses
  BY StoreInvariant, PTL DEF IInv

-----------------------------------------------------------------------------
(* The doc comment of Do, for responses the limit does not evict.          *)

\* The time a request read is not in the future.
ClockBehind == \A r \in Requests : clock[r] <= now

\* A successful response that left the map was evicted or has expired.
SpentResponses ==
  \A r \in ready \ evicted :
    KeyOf[r] \in Keys /\ outcome[r] = "ok" => entries[KeyOf[r]] = r \/ expires[r] <= now

\* The inductive invariant for the clock.
TInv == ClockBehind /\ SpentResponses /\ OncePerTTL

\* What garbage collection at time t takes out of the map had expired at t.
LEMMA GcDropsExpired ==
  ASSUME IInv, NEW t \in Nat, NEW r \in ready, entries[KeyOf[r]] = r
  PROVE  KeyOf[r] \in Keys => Gc(t)[KeyOf[r]] = r \/ expires[r] <= t
  BY DEF IInv, TypeOK, Gc

\* Every step preserves the invariant that relates producers to expiry times.
LEMMA NextTimed == IInv /\ TInv /\ [Next]_vars => TInv'
  <1> SUFFICES ASSUME IInv, TInv, [Next]_vars
               PROVE  TInv'
    OBVIOUS
  <1> USE IdempotencyAssumption DEF IInv, TypeOK, TInv, ClockBehind, SpentResponses, OncePerTTL, Goto
  <1>1. CASE Tick
    BY <1>1 DEF Tick
  <1>2. ASSUME NEW r \in Requests, RunWithoutKey(r)
        PROVE  TInv'
    BY <1>2 DEF RunWithoutKey, ReadyReturned
  <1>3. ASSUME NEW r \in Requests, ReadClock(r)
        PROVE  TInv'
    BY <1>3 DEF ReadClock
  <1>4. ASSUME NEW r \in Requests, Replay(r) \/ Wait(r)
        PROVE  TInv'
    <2>1. clock[r] \in Nat /\ clock[r] <= now /\ now \in Nat
      OBVIOUS
    <2>2. entries' = Gc(clock[r]) /\ UNCHANGED <<now, ready, expires, clock, outcome, begun, evicted>>
      BY <1>4 DEF Replay, Wait
    <2>3. SpentResponses'
      BY <2>1, <2>2, GcDropsExpired
    <2>4. OncePerTTL'
      BY <1>4, <2>2 DEF Replay, Wait
    <2> QED
      BY <2>2, <2>3, <2>4
  <1>5. ASSUME NEW r \in Requests, Create(r)
        PROVE  TInv'
    <2>1. clock[r] \in Nat /\ clock[r] <= now /\ now \in Nat /\ KeyOf[r] \in Keys
      BY <1>5 DEF Create, KeyedSteps, PCs
    <2> DEFINE m == [Gc(clock[r]) EXCEPT ![KeyOf[r]] = r]
    <2>2. Gc(clock[r])[KeyOf[r]] = None
      BY <1>5 DEF Create
    <2>3. PICK V \in SUBSET Keys :
            /\ entries' = Evict(V, m)
            /\ evicted' = evicted \cup {m[k] : k \in V}
      BY <1>5 DEF Create
    <2>4. ASSUME NEW s \in ready \ evicted', KeyOf[s] \in Keys, outcome[s] = "ok"
          PROVE  entries'[KeyOf[s]] = s \/ expires[s] <= now
      <3>1. s \notin evicted /\ (entries[KeyOf[s]] = s \/ expires[s] <= now)
        BY <2>3, <2>4
      <3>2. CASE entries[KeyOf[s]] = s /\ KeyOf[s] # KeyOf[r] /\ ~(expires[s] <= now)
        <4>1. Gc(clock[r])[KeyOf[s]] = s
          BY <2>1, <2>4, <3>2, GcDropsExpired
        <4>2. m[KeyOf[s]] = s
          BY <2>1, <2>4, <3>2, <4>1, GcKeepsUnfinished
        <4>3. KeyOf[s] \notin V
          BY <2>3, <2>4, <4>2
        <4> QED
          BY <2>3, <2>4, <4>2, <4>3 DEF Evict
      <3>3. CASE entries[KeyOf[s]] = s /\ KeyOf[s] = KeyOf[r]
        <4>1. Gc(clock[r])[KeyOf[s]] # s
          BY <2>2, <2>4, <3>3
        <4>2. expires[s] <= clock[r] /\ expires[s] \in Nat
          BY <2>1, <2>4, <3>3, <4>1, GcDropsExpired
        <4> QED
          BY <2>1, <4>2
      <3> QED
        BY <3>1, <3>2, <3>3
    <2>5. r \notin ready
      BY <1>5 DEF Create, ReadyReturned
    <2>6. SpentResponses'
      BY <1>5, <2>4, <2>5 DEF Create
    <2>7. OncePerTTL'
      BY <1>5, <2>1, <2>2, <2>4, <2>5, GcDropsExpired DEF Create
    <2>8. ClockBehind'
      BY <1>5 DEF Create
    <2> QED
      BY <2>6, <2>7, <2>8
  <1>6. ASSUME NEW r \in Requests, Produce(r)
        PROVE  TInv'
    BY <1>6 DEF Produce, ReadyReturned
  <1>7. ASSUME NEW r \in Requests, Finalize(r)
        PROVE  TInv'
    <2>1. KeyOf[r] \in Keys /\ entries[KeyOf[r]] = r /\ r \notin ready
      BY <1>7 DEF Finalize, ProducerOwnsEntry, Producing, KeyedSteps, PCs
    <2>2. ready' = ready \cup {r} /\ UNCHANGED <<now, clock, outcome, begun, evicted>>
      BY <1>7, <2>1 DEF Finalize
    <2>3. \A s \in Requests : s # r => expires'[s] = expires[s]
      BY <1>7, <2>1 DEF Finalize
    <2>4. SpentResponses'
      BY <1>7, <2>1, <2>2, <2>3 DEF Finalize
    <2>5. \A s \in Requests : s # r /\ KeyOf[s] = KeyOf[r] => pc[s] \notin {"produce", "finalize"}
      BY <2>1 DEF ProducerOwnsEntry, Producing
    <2>6. OncePerTTL'
      BY <1>7, <2>1, <2>2, <2>3, <2>5 DEF Finalize
    <2> QED
      BY <2>2, <2>4, <2>6
  <1>8. ASSUME NEW r \in Requests, WakeUp(r) \/ Cancel(r)
        PROVE  TInv'
    BY <1>8 DEF WakeUp, Cancel
  <1>9. CASE UNCHANGED vars
    BY <1>9 DEF vars
  <1> QED
    BY <1>1, <1>2, <1>3, <1>4, <1>5, <1>6, <1>7, <1>8, <1>9 DEF Next, Step

\* Two successful producers of one key are a TTL apart unless the limit evicted
\* the first response, for any interleaving and any delay between reading the
\* clock and taking the lock.
THEOREM ProducedOncePerTTL == Spec => []OncePerTTL
  <1>1. Init => TInv
    BY DEF Init, TInv, ClockBehind, SpentResponses, OncePerTTL
  <1>2. IInv /\ TInv /\ [Next]_vars => TInv'
    BY NextTimed
  <1> QED
    BY <1>1, <1>2, StoreInvariant, PTL DEF Spec, TInv

-----------------------------------------------------------------------------
(* The limit on the keys.                                                  *)

\* Taking the victims out of the map leaves the other keys, and when there are as
\* many victims as the excess, it leaves MaxKeys.
LEMMA EvictionFits ==
  ASSUME NEW m \in [Keys -> Requests \cup {None}], ready \subseteq Requests,
         NEW V \in SUBSET Keys, IsVictimSet(V, m)
  PROVE  \/ Cardinality(Used(Evict(V, m))) <= MaxKeys
         \/ \A k \in Used(Evict(V, m)) : Evict(V, m)[k] \notin ready
  <1> DEFINE n == Cardinality(Used(m))
  <1>1. IsFiniteSet(Used(m)) /\ n \in Nat /\ MaxKeys \in Nat
    BY IdempotencyAssumption, FS_Subset, FS_CardinalityType DEF Used
  <1>2. V \subseteq Used(m)
    BY IdempotencyAssumption DEF IsVictimSet, Evictable, Used
  <1>3. Used(Evict(V, m)) = Used(m) \ V
    BY DEF Used, Evict
  <1>4. V = Used(m) \cap V
    BY <1>2
  <1>5. IsFiniteSet(V) /\ Cardinality(V) \in Nat /\ Cardinality(Used(m) \ V) = n - Cardinality(V)
    <2>1. IsFiniteSet(V)
      BY <1>1, <1>2, FS_Subset
    <2>2. Cardinality(V) \in Nat
      BY <2>1, FS_CardinalityType
    <2>3. Cardinality(Used(m) \ V) = n - Cardinality(Used(m) \cap V)
      BY <1>1, FS_Difference
    <2> QED
      BY <1>4, <2>1, <2>2, <2>3
  <1>6. CASE n - MaxKeys <= 0 /\ V = {}
    <2>1. Cardinality(V) = 0
      BY <1>6, FS_EmptySet
    <2> QED
      BY <1>1, <1>3, <1>5, <1>6, <2>1
  <1>7. CASE Cardinality(V) = n - MaxKeys
    BY <1>1, <1>3, <1>5, <1>7
  <1>8. CASE V = Evictable(m)
    BY <1>3, <1>8 DEF Used, Evict, Evictable
  <1> QED
    BY <1>6, <1>7, <1>8 DEF IsVictimSet

\* Garbage collection brings no key into the map.
LEMMA GcAddsNothing ==
  ASSUME TypeOK, NEW t
  PROVE  Used(Gc(t)) \subseteq Used(entries)
  BY DEF Used, Gc, TypeOK

\* prepareEntry, for any number of keys and any limit: a step that brings a key into
\* the map leaves it within maxKeys or with no finished entry in it.
THEOREM LimitIsRespected == Spec => InsertRespectsLimit
  <1> DEFINE Fits == \/ Used(entries') \subseteq Used(entries) \/ Cardinality(Used(entries')) <= MaxKeys
                     \/ \A k \in Used(entries') : entries'[k] \notin ready
  <1>1. IInv /\ [Next]_vars => [Fits]_vars
    <2> SUFFICES ASSUME IInv, Next
                 PROVE  Fits
      OBVIOUS
    <2>1. TypeOK
      BY DEF IInv
    <2>2. CASE entries' = entries
      BY <2>2 DEF Used
    <2>3. ASSUME NEW r \in Requests, Replay(r) \/ Wait(r)
          PROVE  Fits
      BY <2>1, <2>3, GcAddsNothing DEF Replay, Wait
    <2>4. ASSUME NEW r \in Requests, Create(r)
          PROVE  Fits
      <3> DEFINE m == [Gc(clock[r]) EXCEPT ![KeyOf[r]] = r]
      <3>1. PICK V \in SUBSET Keys : IsVictimSet(V, m) /\ entries' = Evict(V, m)
        BY <2>4 DEF Create
      <3>2. m \in [Keys -> Requests \cup {None}] /\ ready \subseteq Requests
        BY <2>1 DEF Gc, TypeOK
      <3> HIDE DEF m
      <3> QED
        BY <3>1, <3>2, EvictionFits
    <2>5. ASSUME NEW r \in Requests, Finalize(r)
          PROVE  Fits
      BY <2>1, <2>5, IdempotencyAssumption DEF Finalize, Used, TypeOK
    <2> QED
      BY <2>2, <2>3, <2>4, <2>5
      DEF Next, Step, Tick, RunWithoutKey, ReadClock, Produce, WakeUp, Cancel
  <1> QED
    BY <1>1, StoreInvariant, PTL DEF Spec, InsertRespectsLimit

-----------------------------------------------------------------------------
(* The refinement of SingleFlight.                                         *)

\* A request has no outcome before its producer has returned.
OutcomeLater ==
  \A r \in Requests : pc[r] \in {"call", "prepare", "wait", "produce"} => outcome[r] = "none"

\* Nothing but the producer's return gives a request an outcome.
LEMMA NextOutcome == IInv /\ OutcomeLater /\ [Next]_vars => OutcomeLater'
  <1> SUFFICES ASSUME TypeOK, OutcomeLater, [Next]_vars
               PROVE  OutcomeLater'
    BY DEF IInv
  <1> USE DEF OutcomeLater, TypeOK, Goto
  <1>1. ASSUME NEW r \in Requests, RunWithoutKey(r) \/ Produce(r)
        PROVE  OutcomeLater'
    BY <1>1 DEF RunWithoutKey, Produce
  <1>2. ASSUME NEW r \in Requests,
               ReadClock(r) \/ Replay(r) \/ Wait(r) \/ Create(r) \/ Finalize(r) \/ WakeUp(r) \/ Cancel(r)
        PROVE  OutcomeLater'
    BY <1>2 DEF ReadClock, Replay, Wait, Create, Finalize, WakeUp, Cancel
  <1>3. CASE Tick \/ UNCHANGED vars
    BY <1>3 DEF Tick, vars
  <1> QED
    BY <1>1, <1>2, <1>3 DEF Next, Step

\* A request that moves on is elsewhere, in Do and in the abstract; the others
\* are where they were.
LEMMA StageMoves ==
  ASSUME TypeOK, NEW r \in Requests, NEW l, Goto(r, l)
  PROVE  At' = [At EXCEPT ![r] = Stage(l)] /\ At[r] = Stage(pc[r])
  BY DEF Goto, At, TypeOK

\* Where the labels of Do are.
LEMMA Stages ==
  /\ Stage("call") = "calling" /\ Stage("prepare") = "calling" /\ Stage("wait") = "calling"
  /\ Stage("produce") = "producing" /\ Stage("finalize") = "producing"
  /\ Stage("returned") = "answered" /\ Stage("cancelled") = "gone"
  BY DEF Stage

\* Taking ready entries out of the map lets responses lapse and leaves running
\* producers their turn.
LEMMA ReadyOnlyLapse ==
  ASSUME TypeOK, UNCHANGED ready,
         NEW m \in [Keys -> Requests \cup {None}],
         \A k \in Keys : m[k] = entries[k] \/ (m[k] = None /\ entries[k] \in ready),
         entries' = m
  PROVE  Running' = Running /\ S!Lapse
  <1>1. None \notin ready
    BY IdempotencyAssumption DEF TypeOK
  <1>2. Running' = Running
    BY <1>1 DEF Running
  <1>3. S!Lapse
    BY <1>1 DEF S!Lapse, Current
  <1> QED
    BY <1>2, <1>3

\* Garbage collection takes ready entries only.
LEMMA GcReadyOnly ==
  ASSUME TypeOK, NEW t \in Nat
  PROVE  /\ Gc(t) \in [Keys -> Requests \cup {None}]
         /\ \A k \in Keys : Gc(t)[k] = entries[k] \/ (Gc(t)[k] = None /\ entries[k] \in ready)
  BY IdempotencyAssumption DEF TypeOK, Gc

\* Every step of Do is a step of SingleFlight or changes nothing of it.
LEMMA StepRefines == IInv /\ OutcomeLater /\ [Next]_vars => [S!Next]_(S!vars)
  <1> SUFFICES ASSUME IInv, OutcomeLater, [Next]_vars
               PROVE  [S!Next]_(S!vars)
    OBVIOUS
  <1>0. TypeOK /\ None \notin ready
    BY IdempotencyAssumption DEF IInv, TypeOK
  <1>1. ASSUME UNCHANGED <<entries, ready>> PROVE Running' = Running /\ Current' = Current
    BY <1>1 DEF Running, Current
  <1>2. CASE Tick \/ UNCHANGED vars
    BY <1>1, <1>2 DEF Tick, vars, S!vars, At
  <1>3. ASSUME NEW r \in Requests, RunWithoutKey(r) PROVE S!Alone(r)
    <2>1. At[r] = "calling" /\ At' = [At EXCEPT ![r] = "answered"]
      BY <1>0, <1>3, StageMoves, Stages DEF RunWithoutKey
    <2> QED
      BY <1>1, <1>3, <2>1 DEF RunWithoutKey, S!Alone, S!Answered
  <1>4. ASSUME NEW r \in Requests, ReadClock(r) \/ WakeUp(r) PROVE UNCHANGED S!vars
    <2>1. At' = [At EXCEPT ![r] = "calling"] /\ At[r] = "calling"
      BY <1>0, <1>4, StageMoves, Stages DEF ReadClock, WakeUp
    <2>2. At' = At
      BY <2>1 DEF At
    <2> QED
      BY <1>1, <1>4, <2>2 DEF ReadClock, WakeUp, S!vars
  <1>5. ASSUME NEW r \in Requests, pc[r] = "prepare"
        PROVE  /\ KeyOf[r] \in Keys /\ clock[r] \in Nat
               /\ Gc(clock[r]) \in [Keys -> Requests \cup {None}]
               /\ \A k \in Keys : \/ Gc(clock[r])[k] = entries[k]
                                  \/ Gc(clock[r])[k] = None /\ entries[k] \in ready
    <2>1. KeyOf[r] \in Keys /\ clock[r] \in Nat
      BY <1>5 DEF IInv, TypeOK, KeyedSteps, PCs
    <2> QED
      BY <1>0, <2>1, GcReadyOnly
  <1>6. ASSUME NEW r \in Requests, Replay(r) PROVE S!Replay(r)
    <2>1. At[r] = "calling" /\ At' = [At EXCEPT ![r] = "answered"]
      BY <1>0, <1>6, StageMoves, Stages DEF Replay
    <2>2. /\ pc[r] = "prepare" /\ entries' = Gc(clock[r]) /\ UNCHANGED <<ready, outcome>>
          /\ entries'[KeyOf[r]] \in ready
          /\ answer' = [answer EXCEPT ![r] = entries'[KeyOf[r]]]
      BY <1>6 DEF Replay
    <2>3. Running' = Running /\ S!Lapse
      BY <1>0, <1>5, <2>2, ReadyOnlyLapse
    <2>4. KeyOf[r] \in Keys /\ Current'[KeyOf[r]] = entries'[KeyOf[r]]
      BY <1>5, <2>2 DEF Current
    <2> QED
      BY <1>0, <2>1, <2>2, <2>3, <2>4 DEF S!Replay, S!Answered
  <1>7. ASSUME NEW r \in Requests, Wait(r) PROVE S!Forget
    <2>1. At' = [At EXCEPT ![r] = "calling"] /\ At[r] = "calling"
      BY <1>0, <1>7, StageMoves, Stages DEF Wait
    <2>2. At' = At
      BY <2>1 DEF At
    <2>3. pc[r] = "prepare" /\ entries' = Gc(clock[r]) /\ UNCHANGED <<ready, outcome, answer>>
      BY <1>7 DEF Wait
    <2>4. Running' = Running /\ S!Lapse
      BY <1>0, <1>5, <2>3, ReadyOnlyLapse
    <2> QED
      BY <2>2, <2>3, <2>4 DEF S!Forget
  <1>8. ASSUME NEW r \in Requests, Create(r) PROVE S!Begin(r)
    <2> DEFINE g == Gc(clock[r])
               m == [g EXCEPT ![KeyOf[r]] = r]
    <2>1. At[r] = "calling" /\ At' = [At EXCEPT ![r] = "producing"]
      BY <1>0, <1>8, StageMoves, Stages DEF Create
    <2>2. pc[r] = "prepare" /\ g[KeyOf[r]] = None /\ UNCHANGED <<ready, outcome, answer>>
      BY <1>8 DEF Create
    <2>3. /\ KeyOf[r] \in Keys /\ g \in [Keys -> Requests \cup {None}]
          /\ \A k \in Keys : g[k] = entries[k] \/ (g[k] = None /\ entries[k] \in ready)
      BY <1>5, <2>2
    <2>4. PICK V \in SUBSET Keys : V \subseteq Evictable(m) /\ entries' = Evict(V, m)
      BY <1>8 DEF Create, IsVictimSet
    <2>5. r \notin ready
      BY <2>2 DEF IInv, ReadyReturned
    <2> HIDE DEF g
    <2>6. m \in [Keys -> Requests \cup {None}] /\ m[KeyOf[r]] = r /\ \A k \in Keys : k # KeyOf[r] => m[k] = g[k]
      BY <2>3
    <2> HIDE DEF m
    <2>7. KeyOf[r] \notin V /\ \A k \in V : m[k] \in ready /\ k \in Keys
      BY <2>4, <2>5, <2>6 DEF Evictable
    <2>8. /\ entries'[KeyOf[r]] = r
          /\ \A k \in Keys : k # KeyOf[r] => entries'[k] = (IF k \in V THEN None ELSE g[k])
      BY <2>3, <2>4, <2>6, <2>7 DEF Evict
    <2>9. \A k \in Keys : k # KeyOf[r] =>
            entries'[k] = entries[k] \/ (entries'[k] = None /\ entries[k] \in ready)
      <3> SUFFICES ASSUME NEW k \in Keys, k # KeyOf[r]
                   PROVE  entries'[k] = entries[k] \/ (entries'[k] = None /\ entries[k] \in ready)
        OBVIOUS
      <3>1. k \in V => g[k] \in ready
        BY <2>6, <2>7
      <3> QED
        BY <1>0, <2>3, <2>8, <3>1
    <2>10. Running[KeyOf[r]] = None
      BY <2>2, <2>3 DEF Running
    <2>11. Running' = [Running EXCEPT ![KeyOf[r]] = r]
      <3>1. ready' = ready
        BY <2>2
      <3>2. Running'[KeyOf[r]] = r
        BY <2>3, <2>5, <2>8, <3>1 DEF Running
      <3>3. ASSUME NEW k \in Keys, k # KeyOf[r] PROVE Running'[k] = Running[k]
        <4>1. Running'[k] = (IF entries'[k] \in ready THEN None ELSE entries'[k])
          BY <3>1 DEF Running
        <4>2. Running[k] = (IF entries[k] \in ready THEN None ELSE entries[k])
          BY DEF Running
        <4> QED
          BY <1>0, <2>9, <3>3, <4>1, <4>2
      <3>4. /\ Running = [k \in Keys |-> Running[k]]
            /\ Running' = [k \in Keys |-> Running'[k]]
        BY DEF Running
      <3> QED
        BY <2>3, <3>2, <3>3, <3>4
    <2>12. S!Lapse /\ Current'[KeyOf[r]] = None
      BY <1>0, <2>2, <2>3, <2>5, <2>8, <2>9 DEF Current, S!Lapse
    <2> QED
      BY <2>1, <2>2, <2>3, <2>10, <2>11, <2>12 DEF S!Begin
  <1>9. ASSUME NEW r \in Requests, Produce(r) PROVE S!Produced(r)
    <2>1. At' = [At EXCEPT ![r] = "producing"] /\ At[r] = "producing"
      BY <1>0, <1>9, StageMoves, Stages DEF Produce
    <2>2. At' = At
      BY <2>1 DEF At
    <2>3. outcome[r] = "none"
      BY <1>9 DEF Produce, OutcomeLater
    <2> QED
      BY <1>1, <1>9, <2>1, <2>2, <2>3 DEF Produce, S!Produced
  <1>10. ASSUME NEW r \in Requests, Finalize(r) PROVE S!Settle(r)
    <2>1. At[r] = "producing" /\ At' = [At EXCEPT ![r] = "answered"]
      BY <1>0, <1>10, StageMoves, Stages DEF Finalize
    <2>2. KeyOf[r] \in Keys /\ entries[KeyOf[r]] = r /\ r \notin ready /\ outcome[r] \in {"ok", "err"}
      BY <1>10, IdempotencyAssumption
      DEF Finalize, IInv, TypeOK, ProducerOwnsEntry, Producing, KeyedSteps, PCs, OutcomeKnown
    <2>3. \A k \in Keys : k # KeyOf[r] => entries[k] # r
      BY <2>2, IdempotencyAssumption DEF IInv, EntriesOwned
    <2>4. /\ ready' = ready \cup {r} /\ UNCHANGED outcome /\ answer' = [answer EXCEPT ![r] = r]
          /\ entries' = IF outcome[r] = "err" THEN [entries EXCEPT ![KeyOf[r]] = None] ELSE entries
      BY <1>10, <2>2 DEF Finalize
    <2>5. Running[KeyOf[r]] = r
      BY <2>2 DEF Running
    <2>6. Running' = [Running EXCEPT ![KeyOf[r]] = None]
      BY <1>0, <2>2, <2>3, <2>4 DEF Running, TypeOK
    <2>7. outcome[r] = "ok" => Current' = [Current EXCEPT ![KeyOf[r]] = r]
      BY <1>0, <2>2, <2>3, <2>4 DEF Current, TypeOK
    <2>8. outcome[r] = "err" => Current' = Current
      BY <1>0, <2>2, <2>3, <2>4, IdempotencyAssumption DEF Current, TypeOK
    <2> QED
      BY <2>1, <2>2, <2>4, <2>5, <2>6, <2>7, <2>8 DEF S!Settle, S!Answered
  <1>11. ASSUME NEW r \in Requests, Cancel(r) PROVE S!GiveUp(r)
    <2>1. At[r] = "calling" /\ At' = [At EXCEPT ![r] = "gone"]
      BY <1>0, <1>11, StageMoves, Stages DEF Cancel
    <2> QED
      BY <1>1, <1>11, <2>1 DEF Cancel, S!GiveUp
  <1> QED
    BY <1>2, <1>3, <1>4, <1>6, <1>7, <1>8, <1>9, <1>10, <1>11 DEF Next, Step, S!Next

\* The empty store is an initial state of SingleFlight.
LEMMA InitRefines == Init => S!Init /\ OutcomeLater
  <1> SUFFICES ASSUME Init PROVE S!Init /\ OutcomeLater
    OBVIOUS
  <1>1. Running = [k \in Keys |-> None] /\ Current = [k \in Keys |-> None]
    BY DEF Init, Running, Current
  <1>2. At = [r \in Requests |-> "calling"]
    BY Stages DEF Init, At
  <1> QED
    BY <1>1, <1>2 DEF Init, S!Init, OutcomeLater

\* For any requests, keys, TTL and limit, Do with its map, channels, garbage
\* collection and eviction implements SingleFlight: a producer keeps its key's
\* turn until it has settled, a success is on offer at once, and a duplicate is
\* given what is on offer when it is answered.
THEOREM StoreImplementsSingleFlight == Spec => ImplementsSingleFlight
  <1>1. Spec => []OutcomeLater
    BY StoreInvariant, InitRefines, NextOutcome, PTL DEF Spec
  <1> QED
    BY <1>1, StoreInvariant, InitRefines, StepRefines, PTL DEF Spec, ImplementsSingleFlight, S!Spec
=============================================================================
