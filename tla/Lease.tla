------------------------------- MODULE Lease -------------------------------
(***************************************************************************)
(* Session leases: a viewer creates a session on one node and reattaches   *)
(* with its token, perhaps on another.                                     *)
(*   internal/ha/lease.go      Issue, Reattach, the two lease stores       *)
(*   internal/ha/retry.go      Retry                                       *)
(*   internal/api/session.go   createLiveSession, reattachLiveSession,     *)
(*                             ensureStreamReady                           *)
(* Nodes have clocks of their own; now is the store's time.  A second has  *)
(* Second ticks: a lease keeps them, a token only whole seconds, so that   *)
(* it may lose all of a second but the last tick.  A lease is named after  *)
(* the request that created it.  All creates with a key use the same       *)
(* Idempotency-Key; how IdempotencyStore.Do behaves within is              *)
(* Idempotency's subject.                                                  *)
(***************************************************************************)
EXTENDS Integers, FiniteSets

CONSTANTS
  Creates, Reattaches,   \* requests to the two endpoints
  Keyed,                 \* creates that carry the Idempotency-Key
  Nodes, Stores,
  Entry,      \* the nodes each request may be sent to
  StoreOf,    \* the store each node uses: one Redis, or its own memory
  Memory,     \* the stores that are a memoryLeaseStore
  Drift,      \* how far each node's clock is ahead of the store's time
  Second,     \* ticks of the clock in a second
  TTL, Skew,  \* LeaseService.ttl, LeaseService.skew
  IdemTTL,    \* IdempotencyStore.ttl
  MaxTime,    \* bound on the clock
  MaxDrift, None

ASSUME LeaseAssumption ==
  /\ Creates \cap Reattaches = {} /\ Keyed \subseteq Creates
  /\ Entry \in [Creates \cup Reattaches -> SUBSET Nodes]
  /\ StoreOf \in [Nodes -> Stores] /\ Memory \subseteq Stores
  /\ \A m, n \in Nodes : StoreOf[m] \in Memory /\ StoreOf[m] = StoreOf[n] => m = n
  /\ MaxDrift \in Nat /\ Drift \in [Nodes -> 0 .. MaxDrift]
  /\ Second \in Nat \ {0} /\ TTL \in Nat \ {0} /\ Skew \in Nat /\ IdemTTL \in Nat \ {0}
  /\ MaxTime \in Nat
  /\ None \notin Creates \cup Reattaches \cup Nodes
  /\ None \notin [exp : Int, until : Int, at : Int]

\* "Accept minor clock drift in distributed deployments": the skew allows for
\* the drift and for the second, short of a moment, that a token loses.
SkewCoversDrift == MaxDrift + Second <= Skew

VARIABLES
  now,       \* the store's time
  store,     \* the leases of each store
  cache,     \* the idempotency entry of each node: none, busy or a response
  tokens,    \* tokens that clients were given
  pc, node,  \* where each request is, and on which node
  at,        \* when the request read its clock
  tok,       \* the token a reattach presents or a create returns
  result,    \* the response
  decided,   \* when the request was accepted or turned away (history)
  regressed  \* tokens whose renewal a slower reattach has overwritten (history)

vars == <<now, store, cache, tokens, pc, node, at, tok, result, decided, regressed>>
reqVars == <<pc, node, at, tok, result, decided>>

Requests == Creates \cup Reattaches
Goto(r, l) == pc' = [pc EXCEPT ![r] = l]
Set(f, r, v) == [f EXCEPT ![r] = v]

\* time.Unix of a time: whole seconds.
Unix(t) == t - (t % Second)

Clock(r) == at[r] + Drift[node[r]]

\* signToken: the claims; "at" is when the clock was read.
Token(l, r) ==
  [lease |-> l, iat |-> Unix(Clock(r)), exp |-> Unix(Clock(r) + TTL), at |-> at[r], by |-> StoreOf[node[r]]]

\* gcLocked of node n's memory: the leases of m that have expired by its clock,
\* which ignores the skew, are deleted.
gcLocked(m, n) ==
  [l \in Creates |-> IF m[l] # None /\ now + Drift[n] > m[l].exp THEN None ELSE m[l]]

\* A Redis key is gone when its time to live is over.
RedisExpire(m, t) == [l \in Creates |-> IF m[l] # None /\ t >= m[l].until THEN None ELSE m[l]]

\* store.Save of the lease that r issues or renews; the memory store collects
\* afterwards, and may delete the lease it has just been given.
Save(l, r) ==
  LET s == StoreOf[node[r]]
      m == [store[s] EXCEPT ![l] = [exp |-> Clock(r) + TTL, until |-> now + TTL, at |-> at[r]]]
  IN  store' = [store EXCEPT ![s] = IF s \in Memory THEN gcLocked(m, node[r]) ELSE m]

\* store.Get sees what is left of the store; the memory store collects first.
Kept(r) ==
  LET s == StoreOf[node[r]]
  IN  IF s \in Memory THEN gcLocked(store[s], node[r]) ELSE store[s]

\* The response.
Return(r, res, t) ==
  /\ result' = Set(result, r, res)
  /\ decided' = Set(decided, r, t)
  /\ at' = Set(at, r, 0)
  /\ Goto(r, "returned")
\* It goes on.
Proceed(r, l) == Goto(r, l) /\ UNCHANGED <<result, decided>>

-----------------------------------------------------------------------------
(* createLiveSession.  ensureStreamReady asks MediaMTX until it has the    *)
(* stream, a few times at most (Retry).  It touches no state of the        *)
(* service: only its outcome matters, and the time passes in Tick.         *)

\* The stream is ready, or it is not after the last attempt, or the request was
\* cancelled between two.
ensureStreamReady(r) ==
  \/ Proceed(r, "do") /\ UNCHANGED at
  \/ Return(r, "unavailable", 0)

CreateBegin(r) ==
  /\ pc[r] = "idle"
  /\ \E n \in Entry[r] : node' = Set(node, r, n)
  /\ ensureStreamReady(r)
  /\ UNCHANGED <<now, store, cache, tokens, tok, regressed>>

\* Do replays the node's entry for the key ...
Replay(r) ==
  LET e == cache[node[r]]
  IN  /\ pc[r] = "do" /\ r \in Keyed
      /\ e.st = "ready" /\ now < e.expires
      /\ tok' = Set(tok, r, e.tok)
      /\ Return(r, "replayed", now)
      /\ UNCHANGED <<now, store, cache, tokens, node, regressed>>

\* ... or runs the producer, alone for the key; without a key it just runs.
Produce(r) ==
  /\ pc[r] = "do"
  /\ IF r \in Keyed
     THEN /\ cache[node[r]].st # "busy"
          /\ cache[node[r]].st = "ready" => ~(now < cache[node[r]].expires)
          /\ cache' = Set(cache, node[r], [st |-> "busy", tok |-> None, expires |-> 0])
     ELSE UNCHANGED cache
  /\ at' = Set(at, r, now)
  /\ Proceed(r, "issue")
  /\ UNCHANGED <<now, store, tokens, node, tok, regressed>>

\* Issue saves the lease and signs the token ...
Issue(r) ==
  /\ Save(r, r)
  /\ tok' = Set(tok, r, Token(r, r))
  /\ tokens' = tokens \cup {Token(r, r)}

\* ... and Do keeps the response.
issueSession(r) ==
  /\ pc[r] = "issue"
  /\ Issue(r)
  /\ cache' = IF r \in Keyed
              THEN Set(cache, node[r], [st |-> "ready", tok |-> Token(r, r), expires |-> now + IdemTTL])
              ELSE cache
  /\ Return(r, "created", 0)
  /\ UNCHANGED <<now, node, regressed>>

\* Redis fails to answer Save; Do forgets the entry.
IssueFails(r) ==
  /\ pc[r] = "issue"
  /\ StoreOf[node[r]] \notin Memory
  /\ cache' = IF r \in Keyed THEN Set(cache, node[r], [st |-> "none", tok |-> None, expires |-> 0]) ELSE cache
  /\ Return(r, "error", 0)
  /\ UNCHANGED <<now, store, tokens, node, tok, regressed>>

-----------------------------------------------------------------------------
(* reattachLiveSession.                                                    *)

\* Faulty variants of the comparison of a token's claims with the clock: no
\* allowance for drift; no upper bound.
ClaimsExpiredNoSkew(t, c) == c < t.iat \/ c > t.exp
ClaimsExpiredNever(t, c)  == c + Skew < t.iat
ClaimsExpired(t, c)       == c + Skew < t.iat \/ c > t.exp + Skew

\* A client presents a token to whatever node it is sent to; Reattach reads the
\* clock and checks the claims.
ReattachBegin(r) ==
  /\ pc[r] = "idle"
  /\ \E n \in Entry[r], t \in tokens :
       /\ node' = Set(node, r, n) /\ tok' = Set(tok, r, t)
       /\ IF ClaimsExpired(t, now + Drift[n])
          THEN Return(r, "expired", now)
          ELSE Proceed(r, "get") /\ at' = Set(at, r, now)
  /\ UNCHANGED <<now, store, cache, tokens, regressed>>

\* store.Get, and the checks of the lease against the time read before.  (The
\* stream and the viewer are compared too; they never change.)
GetLease(r) ==
  LET e == Kept(r)[tok[r].lease]
  IN  /\ pc[r] = "get"
      /\ store' = Set(store, StoreOf[node[r]], Kept(r))
      /\ IF e = None
         THEN Return(r, "missing", now)
         ELSE IF Clock(r) > e.exp + Skew
              THEN Return(r, "expired", at[r])
              ELSE Proceed(r, "renew") /\ UNCHANGED at
      /\ UNCHANGED <<now, cache, tokens, node, tok, regressed>>

\* Faulty variant: the renewed lease is not written back.
RenewUnsaved(r) ==
  /\ pc[r] = "renew"
  /\ tokens' = tokens \cup {Token(tok[r].lease, r)}
  /\ Return(r, "attached", at[r])
  /\ UNCHANGED <<now, store, cache, node, tok, regressed>>

\* store.Save of the renewed lease, computed from the time read before Get: it
\* overwrites whatever another reattach saved since, and what the tokens of a
\* later time were promised.  ensureStreamReady then decides which addresses the
\* response carries, the current ones or the last known.
Renew(r) ==
  LET l == tok[r].lease
  IN  /\ pc[r] = "renew"
      /\ Save(l, r)
      /\ regressed' = regressed \cup {t \in tokens : t.lease = l /\ t.at > at[r]}
      /\ tokens' = tokens \cup {Token(l, r)}
      /\ Return(r, "attached", at[r])
      /\ UNCHANGED <<now, cache, node, tok>>

\* Redis fails to answer Get or Save.
StoreFails(r) ==
  /\ pc[r] \in {"get", "renew"}
  /\ StoreOf[node[r]] \notin Memory
  /\ Return(r, "error", 0)
  /\ UNCHANGED <<now, store, cache, tokens, node, tok, regressed>>

Tick ==
  /\ now < MaxTime
  /\ now' = now + 1
  /\ store' = [s \in Stores |-> IF s \in Memory THEN store[s] ELSE RedisExpire(store[s], now')]
  /\ UNCHANGED <<cache, tokens, reqVars, regressed>>

-----------------------------------------------------------------------------
Init ==
  /\ now = 0
  /\ store = [s \in Stores |-> [l \in Creates |-> None]]
  /\ cache = [n \in Nodes |-> [st |-> "none", tok |-> None, expires |-> 0]]
  /\ tokens = {} /\ regressed = {}
  /\ pc = [r \in Requests |-> "idle"]
  /\ node = [r \in Requests |-> None]
  /\ at = [r \in Requests |-> 0]
  /\ tok = [r \in Requests |-> None]
  /\ result = [r \in Requests |-> "none"]
  /\ decided = [r \in Requests |-> 0]

Next ==
  \/ Tick
  \/ \E r \in Creates : CreateBegin(r) \/ Replay(r) \/ Produce(r) \/ issueSession(r) \/ IssueFails(r)
  \/ \E r \in Reattaches : ReattachBegin(r) \/ GetLease(r) \/ Renew(r) \/ StoreFails(r)

Spec == Init /\ [][Next]_vars

-----------------------------------------------------------------------------
\* A client that reattaches before its lease has run out is not turned away,
\* however the clocks drift within the skew, however store.Get, gcLocked and
\* the Redis time to live interleave, and whatever second its token was cut to.
\* No node finds it expired, and no node with the store of the lease misses it
\* (one with another store does: it fell back to memory when it started).  The
\* exception is the race of Reattach with itself: a reattach that read its
\* clock earlier and saves later takes back the time the other was promised.
NoFalseRejection ==
  SkewCoversDrift =>
    \A r \in Reattaches :
      /\ \/ result[r] = "expired"
         \/ result[r] = "missing" /\ tok[r].by = StoreOf[node[r]]
      /\ tok[r] \notin regressed
      => decided[r] >= tok[r].at + TTL

\* No token is accepted later than the skew and the drift allow, even if other
\* tokens of the lease keep it alive.
NoLateAcceptance ==
  \A r \in Reattaches :
    result[r] = "attached" => decided[r] <= tok[r].at + TTL + Skew + MaxDrift

\* gcLocked, with its node's clock and without the skew, and the Redis time to
\* live delete no lease early: as long as the time that a token was given has
\* not run out, its store has the lease, however many reattaches save it and in
\* whatever order, unless one that read its clock before the token was made has
\* taken that time back.
LeaseOutlivesToken ==
  \A t \in tokens \ regressed : now < t.at + TTL => store[t.by][t.lease] # None

\* The comment on createLiveSession: "Supports Idempotency-Key for retry-safe
\* client bootstrapping".  The session a retry is given can still be attached
\* to: its lease has not run out when the response is replayed.
ReplayIsUsable ==
  \A r \in Creates : result[r] = "replayed" => decided[r] < tok[r].at + TTL
=============================================================================
