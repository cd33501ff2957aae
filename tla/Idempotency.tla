---------------------------- MODULE Idempotency ----------------------------
(***************************************************************************)
(* ha.IdempotencyStore: concurrent requests with the same key run the      *)
(* producer once and share its response until it expires.                  *)
(*   internal/ha/idempotency.go   Do, prepareEntry, waitForEntry,          *)
(*                                finalizeEntry, gcLocked,                 *)
(*                                enforceMaxKeysLocked                     *)
(* A request is one call of Do.  It creates at most one entry, which is    *)
(* named after it, and a response is named after the request that produced *)
(* it.  Time passes in steps of one; TTL counts them.                      *)
(***************************************************************************)
EXTENDS Integers, FiniteSets

CONSTANTS
  Requests, Keys,
  KeyOf,      \* [Requests -> Keys \cup {NoKey}]
  TTL,        \* IdempotencyStore.ttl
  MaxKeys,    \* IdempotencyStore.maxKeys
  MaxTime,    \* bound on the clock
  NoKey, None

ASSUME IdempotencyAssumption ==
  /\ KeyOf \in [Requests -> Keys \cup {NoKey}]
  /\ TTL \in Nat \ {0} /\ MaxKeys \in Nat \ {0} /\ MaxTime \in Nat
  /\ NoKey \notin Keys /\ None \notin Requests
  /\ IsFiniteSet(Keys)

VARIABLES
  now,      \* the clock
  entries,  \* IdempotencyStore.entries
  ready,    \* entries that are ready (their done channel is closed)
  created,  \* idempotencyEntry.createdAt
  expires,  \* idempotencyEntry.expiresAt
  pc,       \* where each request is
  clock,    \* the time a request read before it took the lock
  waitOn,   \* the entry whose done channel a request waits for
  outcome,  \* what a request's own producer returned
  answer,   \* whose response a request returned
  begun,    \* when a request's producer was let go (history)
  evicted   \* entries that enforceMaxKeysLocked took out (history)

vars == <<now, entries, ready, created, expires, pc, clock, waitOn, outcome, answer, begun, evicted>>

Goto(r, l) == pc' = [pc EXCEPT ![r] = l]

-----------------------------------------------------------------------------
(* The critical sections, as functions of the map.                         *)

\* Faulty variants of gcLocked: it takes unfinished entries too; it counts the
\* TTL from the entry's creation.
GcUnfinished(t) ==
  [k \in Keys |-> IF entries[k] # None /\ ~(t < expires[entries[k]]) THEN None ELSE entries[k]]
GcFromCreation(t) ==
  [k \in Keys |-> IF entries[k] \in ready /\ ~(t < created[entries[k]] + TTL) THEN None ELSE entries[k]]

\* gcLocked(t).
Gc(t) ==
  [k \in Keys |-> IF entries[k] \in ready /\ ~(t < expires[entries[k]]) THEN None ELSE entries[k]]

Used(m)       == {k \in Keys : m[k] # None}

\* Faulty variant: unfinished entries are evicted too.
EvictableAny(m) == Used(m)
Evictable(m)  == {k \in Keys : m[k] \in ready}

\* Faulty variant: the excess is counted as before the insertion.
IsVictimSetLate(V, m) ==
  LET excess == Cardinality(Used(m)) - 1 - MaxKeys
  IN  /\ V \subseteq Evictable(m)
      /\ \A v \in V, w \in Evictable(m) \ V : created[m[v]] <= created[m[w]]
      /\ \/ excess <= 0 /\ V = {}
         \/ excess > 0 /\ (Cardinality(V) = excess \/ (Cardinality(V) < excess /\ V = Evictable(m)))

\* enforceMaxKeysLocked: the keys V whose entries go, oldest ready first, until
\* the map fits or only unfinished entries are left.
IsVictimSet(V, m) ==
  LET excess == Cardinality(Used(m)) - MaxKeys
  IN  /\ V \subseteq Evictable(m)
      /\ \A v \in V, w \in Evictable(m) \ V : created[m[v]] <= created[m[w]]
      /\ \/ excess <= 0 /\ V = {}
         \/ excess > 0 /\ (Cardinality(V) = excess \/ (Cardinality(V) < excess /\ V = Evictable(m)))

Evict(V, m) == [k \in Keys |-> IF k \in V THEN None ELSE m[k]]

-----------------------------------------------------------------------------
\* runWithoutKey.
RunWithoutKey(r) ==
  /\ pc[r] = "call"
  /\ KeyOf[r] = NoKey
  /\ \E o \in {"ok", "err"} : outcome' = [outcome EXCEPT ![r] = o]
  /\ answer' = [answer EXCEPT ![r] = r]
  /\ Goto(r, "returned")
  /\ UNCHANGED <<now, entries, ready, created, expires, clock, waitOn, begun, evicted>>

\* prepareEntry reads the clock before it locks.
ReadClock(r) ==
  /\ pc[r] = "call"
  /\ KeyOf[r] # NoKey
  /\ clock' = [clock EXCEPT ![r] = now]
  /\ Goto(r, "prepare")
  /\ UNCHANGED <<now, entries, ready, created, expires, waitOn, outcome, answer, begun, evicted>>

\* The locked part: replay a ready entry, ...
Replay(r) ==
  LET e == Gc(clock[r])[KeyOf[r]]
  IN  /\ pc[r] = "prepare"
      /\ e \in ready
      /\ answer' = [answer EXCEPT ![r] = e]
      /\ Goto(r, "returned")
      /\ entries' = Gc(clock[r])
      /\ UNCHANGED <<now, ready, created, expires, clock, waitOn, outcome, begun, evicted>>

\* ... wait for an unfinished one, ...
Wait(r) ==
  LET e == Gc(clock[r])[KeyOf[r]]
  IN  /\ pc[r] = "prepare"
      /\ e # None /\ e \notin ready
      /\ waitOn' = [waitOn EXCEPT ![r] = e]
      /\ Goto(r, "wait")
      /\ entries' = Gc(clock[r])
      /\ UNCHANGED <<now, ready, created, expires, clock, outcome, answer, begun, evicted>>

\* ... or create one and evict others.
Create(r) ==
  LET m == [Gc(clock[r]) EXCEPT ![KeyOf[r]] = r]
  IN  /\ pc[r] = "prepare"
      /\ Gc(clock[r])[KeyOf[r]] = None
      /\ created' = [created EXCEPT ![r] = clock[r]]
      /\ expires' = [expires EXCEPT ![r] = clock[r] + TTL]
      /\ \E V \in SUBSET Keys :
           /\ IsVictimSet(V, m)
           /\ entries' = Evict(V, m)
           /\ evicted' = evicted \cup {m[k] : k \in V}
      /\ begun' = [begun EXCEPT ![r] = now]
      /\ Goto(r, "produce")
      /\ UNCHANGED <<now, ready, clock, waitOn, outcome, answer>>

\* The producer returns.
Produce(r) ==
  /\ pc[r] = "produce"
  /\ \E o \in {"ok", "err"} : outcome' = [outcome EXCEPT ![r] = o]
  /\ Goto(r, "finalize")
  /\ UNCHANGED <<now, entries, ready, created, expires, clock, waitOn, answer, begun, evicted>>

\* Faulty variant: a failed producer's entry is deleted but its done channel is
\* not closed.
FinalizeSilentOnError(r) ==
  /\ pc[r] = "finalize"
  /\ answer' = [answer EXCEPT ![r] = r]
  /\ Goto(r, "returned")
  /\ IF outcome[r] = "err"
     THEN /\ entries' = [entries EXCEPT ![KeyOf[r]] = None]
          /\ UNCHANGED <<ready, expires>>
     ELSE /\ ready' = ready \cup {r}
          /\ expires' = [expires EXCEPT ![r] = now + TTL]
          /\ UNCHANGED entries
  /\ UNCHANGED <<now, created, clock, waitOn, outcome, begun, evicted>>

\* Faulty variant: a failed producer's entry stays in the map.
FinalizeKeepsError(r) ==
  /\ pc[r] = "finalize"
  /\ answer' = [answer EXCEPT ![r] = r]
  /\ Goto(r, "returned")
  /\ ready' = ready \cup {r}
  /\ expires' = [expires EXCEPT ![r] = now + TTL]
  /\ UNCHANGED <<now, entries, created, clock, waitOn, outcome, begun, evicted>>

\* finalizeEntry, and Do returns the producer's own result.
Finalize(r) ==
  /\ pc[r] = "finalize"
  /\ answer' = [answer EXCEPT ![r] = r]
  /\ Goto(r, "returned")
  /\ IF entries[KeyOf[r]] # r
     THEN UNCHANGED <<entries, ready, expires>>
     ELSE /\ ready' = ready \cup {r}
          /\ IF outcome[r] = "err"
             THEN /\ entries' = [entries EXCEPT ![KeyOf[r]] = None]
                  /\ UNCHANGED expires
             ELSE /\ expires' = [expires EXCEPT ![r] = now + TTL]
                  /\ UNCHANGED entries
  /\ UNCHANGED <<now, created, clock, waitOn, outcome, begun, evicted>>

\* Faulty variant: the waiter returns what its entry holds instead of starting
\* over.
WakeUpAnswered(r) ==
  /\ pc[r] = "wait"
  /\ waitOn[r] \in ready
  /\ answer' = [answer EXCEPT ![r] = waitOn[r]]
  /\ Goto(r, "returned")
  /\ UNCHANGED <<now, entries, ready, created, expires, clock, waitOn, outcome, begun, evicted>>

\* waitForEntry: the entry's done channel is closed and Do starts over, or the
\* request's context is cancelled.
WakeUp(r) ==
  /\ pc[r] = "wait"
  /\ waitOn[r] \in ready
  /\ Goto(r, "call")
  /\ UNCHANGED <<now, entries, ready, created, expires, clock, waitOn, outcome, answer, begun, evicted>>

Cancel(r) ==
  /\ pc[r] = "wait"
  /\ Goto(r, "cancelled")
  /\ UNCHANGED <<now, entries, ready, created, expires, clock, waitOn, outcome, answer, begun, evicted>>

Tick ==
  /\ now < MaxTime
  /\ now' = now + 1
  /\ UNCHANGED <<entries, ready, created, expires, pc, clock, waitOn, outcome, answer, begun, evicted>>

-----------------------------------------------------------------------------
Init ==
  /\ now = 0
  /\ entries = [k \in Keys |-> None]
  /\ ready = {}
  /\ created = [r \in Requests |-> 0]
  /\ expires = [r \in Requests |-> 0]
  /\ pc = [r \in Requests |-> "call"]
  /\ clock = [r \in Requests |-> 0]
  /\ waitOn = [r \in Requests |-> None]
  /\ outcome = [r \in Requests |-> "none"]
  /\ answer = [r \in Requests |-> None]
  /\ begun = [r \in Requests |-> 0]
  /\ evicted = {}

\* What a request does without its client's or the clock's help.
Step(r) ==
  \/ RunWithoutKey(r) \/ ReadClock(r) \/ Replay(r) \/ Wait(r) \/ Create(r)
  \/ Produce(r) \/ Finalize(r) \/ WakeUp(r)

Next == Tick \/ \E r \in Requests : Step(r) \/ Cancel(r)

Spec == Init /\ [][Next]_vars

\* Producers return and the scheduler runs every request; no client has to
\* give up.
FairSpec == Spec /\ \A r \in Requests : WF_vars(Step(r))

-----------------------------------------------------------------------------
PCs == {"call", "prepare", "wait", "produce", "finalize", "returned", "cancelled"}

\* Types of the store and of its requests; times are never negative.
TypeOK ==
  /\ now \in Nat
  /\ entries \in [Keys -> Requests \cup {None}]
  /\ ready \subseteq Requests /\ evicted \subseteq Requests
  /\ created \in [Requests -> Nat] /\ expires \in [Requests -> Nat]
  /\ clock \in [Requests -> Nat] /\ begun \in [Requests -> Nat]
  /\ pc \in [Requests -> PCs]
  /\ waitOn \in [Requests -> Requests \cup {None}]
  /\ outcome \in [Requests -> {"none", "ok", "err"}]
  /\ answer \in [Requests -> Requests \cup {None}]

Producing(r) == pc[r] \in {"produce", "finalize"} /\ KeyOf[r] # NoKey

\* A request that runs its producer still owns its key's entry when it
\* finalizes it: neither garbage collection, eviction nor another request can
\* take an unfinished entry away, so the early return of finalizeEntry is
\* never taken and no waiter is left on a channel nobody closes.
ProducerOwnsEntry == \A r \in Requests : Producing(r) => entries[KeyOf[r]] = r /\ r \notin ready

\* At most one producer of a key runs at any time.
OneProducerPerKey ==
  \A r, s \in Requests : Producing(r) /\ Producing(s) /\ KeyOf[r] = KeyOf[s] => r = s

\* A waiting request waits for an entry of its own key whose channel is closed
\* or whose producer is still running.
WaitersHaveProducer ==
  \A r \in Requests :
    pc[r] = "wait" => /\ KeyOf[waitOn[r]] = KeyOf[r]
                      /\ waitOn[r] \in ready \/ Producing(waitOn[r])

\* Nobody is answered with an error another request's producer returned, or
\* with a response for another key.
ReplaysAreSuccesses ==
  \A r \in Requests :
    answer[r] \notin {None, r} => outcome[answer[r]] = "ok" /\ KeyOf[answer[r]] = KeyOf[r]

\* Every call of Do returns unless its producer never does.
EveryCallReturns == \A r \in Requests : <>(pc[r] \in {"returned", "cancelled"})

\* The doc comment of Do: it "executes producer once for a key and replays the
\* same response for duplicates within the configured TTL".  Two producers of
\* one key that succeed are a TTL apart, unless the limit evicted the response:
\* the second was not let go before the response of the first had expired.
OncePerTTL ==
  \A r, s \in Requests :
    /\ r # s /\ KeyOf[r] = KeyOf[s] /\ KeyOf[r] # NoKey
    /\ r \in ready \ evicted /\ outcome[r] = "ok" /\ pc[s] \in {"produce", "finalize"}
    => begun[s] >= expires[r]

\* The map outgrows MaxKeys only while every entry in it is unfinished: an
\* insertion leaves no response cached beyond the limit.
InsertRespectsLimit ==
  [][Used(entries') \subseteq Used(entries) \/ Cardinality(Used(entries')) <= MaxKeys
     \/ \A k \in Used(entries') : entries'[k] \notin ready]_vars

\* Which entries stand for a running producer and which for a response on offer.
Running == [k \in Keys |-> IF entries[k] \in ready THEN None ELSE entries[k]]
Current == [k \in Keys |-> IF entries[k] \in ready THEN entries[k] ELSE None]
Stage(l) == CASE l \in {"call", "prepare", "wait"} -> "calling"
              [] l \in {"produce", "finalize"} -> "producing"
              [] l = "returned" -> "answered"
              [] l = "cancelled" -> "gone"
At == [r \in Requests |-> Stage(pc[r])]

S == INSTANCE SingleFlight WITH running <- Running, current <- Current, at <- At

\* The map with its garbage collection and eviction, the channels and the loop
\* in Do implement SingleFlight: a producer keeps its turn until it has settled,
\* and everyone else is given what is on offer at that moment.
ImplementsSingleFlight == S!Spec
=============================================================================
