---------------------------- MODULE LeaseProofs ----------------------------
(***************************************************************************)
(* What internal/ha/lease.go promises about a token, for any number of     *)
(* nodes, stores and requests, any time to live and skew, any resolution   *)
(* of the clock (Second), and any drift of the nodes' clocks up to         *)
(* MaxDrift.                                                               *)
(***************************************************************************)
EXTENDS Lease, TLAPS

\* What a store keeps of a lease, and the claims of a token.
LeaseRecord == [exp : Int, until : Int, at : Nat]
Claims      == [lease : Creates, iat : Int, exp : Int, at : Nat, by : Stores]
CacheEntry  == [st : {"none", "busy", "ready"}, tok : Claims \cup {None}, expires : Int]

\* Where a create, and a reattach, can be while it runs.
CreateSteps   == {"do", "issue"}
ReattachSteps == {"get", "renew"}

\* The types of the clock, the idempotency entries and the tokens.
DataTypes ==
  /\ now \in Nat
  /\ cache \in [Nodes -> CacheEntry]
  /\ tokens \in SUBSET Claims

\* The types of the requests.
RequestTypes ==
  /\ pc \in [Requests -> {"idle", "returned"} \cup CreateSteps \cup ReattachSteps]
  /\ node \in [Requests -> Nodes \cup {None}]
  /\ at \in [Requests -> Nat]
  /\ tok \in [Requests -> Claims \cup {None}]
  /\ result \in [Requests -> {"none", "created", "replayed", "unavailable", "error",
                              "expired", "missing", "attached"}]
  /\ decided \in [Requests -> Nat]

\* A token's claims lie within the drift of when its issuer read the clock; the
\* whole seconds of signToken cost up to a second.
ClaimsNearClock ==
  \A t \in tokens :
    /\ t.at <= now
    /\ t.iat <= t.at + MaxDrift
    /\ t.at + TTL - Second <= t.exp /\ t.exp <= t.at + TTL + MaxDrift

\* A lease in store s at time c lasts its full time from when its writer read the
\* clock; in a memory store by the clock of the one node that uses it.
Lasts(e, s, c) ==
  e # None =>
    /\ e.at <= c
    /\ e.at + TTL <= e.until
    /\ e.at + TTL <= e.exp
    /\ \A n \in Nodes : s \in Memory /\ StoreOf[n] = s => e.exp = e.at + TTL + Drift[n]

\* What the stores st keep at time c for the tokens tk: leases that last, each no
\* older than its tokens, and none missing that a token may still need.
StoresKeep(st, tk, c) ==
  /\ st \in [Stores -> [Creates -> LeaseRecord \cup {None}]]
  /\ \A s \in Stores, l \in Creates : Lasts(st[s][l], s, c)
  /\ \A t \in tk : st[t.by][t.lease] # None => st[t.by][t.lease].at >= t.at
  /\ \A t \in tk : c < t.at + TTL => st[t.by][t.lease] # None

\* A lease lives in one store: that of the node where it was created.
OneHome == \A t, u \in tokens : t.lease = u.lease => t.by = u.by
Homed(st) ==
  \A s \in Stores, l \in Creates : st[s][l] # None => \E t \in tokens : t.lease = l /\ t.by = s

StoreInv == StoresKeep(store, tokens \ regressed, now) /\ OneHome /\ Homed(store)

\* A create that has not issued its lease has no token out there.
Unissued ==
  \A r \in Creates : pc[r] \in {"idle"} \cup CreateSteps => \A t \in tokens : t.lease # r

\* Where a request is: on a node while it runs, answered only at the end.
Underway(r) ==
  /\ pc[r] \in CreateSteps => r \in Creates
  /\ pc[r] \in ReattachSteps => r \in Reattaches
  /\ pc[r] \in CreateSteps \cup ReattachSteps => node[r] \in Nodes
  /\ result[r] # "none" => pc[r] = "returned"
  /\ at[r] <= now

\* A reattach presents a token that was given out.  It gets past the check of the
\* claims only while they may still hold, and past Get only where the lease is.
LastMoment(r) == tok[r].at + TTL + Skew + MaxDrift
Presented(r) ==
  /\ pc[r] # "idle" => tok[r] \in tokens
  /\ pc[r] = "renew" => tok[r].by = StoreOf[node[r]]
  /\ pc[r] \in {"get", "renew"} => at[r] <= LastMoment(r)
  /\ result[r] = "attached" => decided[r] <= LastMoment(r)

\* One that was turned away came too late.
TurnedAway(r) ==
  \/ result[r] = "expired"
  \/ result[r] = "missing" /\ tok[r].by = StoreOf[node[r]]
Justified(r) ==
  SkewCoversDrift /\ TurnedAway(r) /\ tok[r] \notin regressed => decided[r] >= tok[r].at + TTL

RequestInv ==
  /\ \A r \in Requests : Underway(r)
  /\ \A r \in Reattaches : Presented(r) /\ Justified(r)

\* The inductive invariant.
LeaseInv == DataTypes /\ RequestTypes /\ ClaimsNearClock /\ StoreInv /\ Unissued /\ RequestInv

-----------------------------------------------------------------------------
(* The operators of the model.                                             *)

\* signToken's whole seconds lose less than a second.
LEMMA UnixBounds ==
  ASSUME NEW t \in Nat
  PROVE  Unix(t) \in Int /\ t - Second <= Unix(t) /\ Unix(t) <= t
<1>1. Second \in Nat \ {0}
  BY LeaseAssumption
<1>2. t % Second \in 0 .. (Second - 1)
  BY <1>1
<1> QED  BY <1>1, <1>2 DEF Unix

\* The claims that signToken writes into a token.
LEMMA TokenClaims ==
  ASSUME NEW l \in Creates, NEW r \in Requests, node[r] \in Nodes, at[r] \in Nat
  PROVE  /\ Token(l, r) \in Claims
         /\ Token(l, r).lease = l /\ Token(l, r).at = at[r]
         /\ Token(l, r).by = StoreOf[node[r]]
         /\ Token(l, r).iat <= at[r] + MaxDrift
         /\ at[r] + TTL - Second <= Token(l, r).exp
         /\ Token(l, r).exp <= at[r] + TTL + MaxDrift
<1>1. /\ Drift[node[r]] \in Nat /\ Drift[node[r]] <= MaxDrift /\ MaxDrift \in Nat
      /\ TTL \in Nat /\ Second \in Nat /\ StoreOf[node[r]] \in Stores
  BY LeaseAssumption
<1>2. /\ Clock(r) \in Nat /\ at[r] <= Clock(r) /\ Clock(r) <= at[r] + MaxDrift
  BY <1>1 DEF Clock
<1> DEFINE e == Clock(r) + TTL
<1>3. e \in Nat /\ at[r] + TTL <= e /\ e <= at[r] + TTL + MaxDrift
  BY <1>1, <1>2
<1>4. Token(l, r) = [lease |-> l, iat |-> Unix(Clock(r)), exp |-> Unix(e),
                     at |-> at[r], by |-> StoreOf[node[r]]]
  BY DEF Token
<1> HIDE DEF e
<1>5. /\ Unix(Clock(r)) \in Int /\ Unix(Clock(r)) <= Clock(r)
      /\ Unix(e) \in Int /\ e - Second <= Unix(e) /\ Unix(e) <= e
  BY <1>2, <1>3, UnixBounds
<1>6. Token(l, r) \in Claims
  BY <1>1, <1>4, <1>5 DEF Claims
<1> QED  BY <1>1, <1>2, <1>3, <1>4, <1>5, <1>6

\* What has been deleted, by gcLocked or by Redis, had run out: a store that has
\* only lost leases of which no token has time left keeps its promises.
LEMMA DeletionsKeep ==
  ASSUME NEW st, NEW su, NEW tk \in SUBSET Claims, NEW c \in Nat, NEW d \in Nat, c <= d,
         StoresKeep(st, tk, c),
         su \in [Stores -> [Creates -> LeaseRecord \cup {None}]],
         \A s \in Stores, l \in Creates :
           \/ su[s][l] = st[s][l]
           \/ su[s][l] = None /\ st[s][l] # None /\ d >= st[s][l].at + TTL
  PROVE  StoresKeep(su, tk, d)
<1>1. /\ st \in [Stores -> [Creates -> LeaseRecord \cup {None}]] /\ TTL \in Nat
      /\ \A s \in Stores, l \in Creates : st[s][l] # None => st[s][l].at \in Nat
  BY LeaseAssumption DEF StoresKeep, LeaseRecord
<1>2. ASSUME NEW s \in Stores, NEW l \in Creates  PROVE Lasts(su[s][l], s, d)
  <2>1. Lasts(st[s][l], s, c) /\ (su[s][l] = st[s][l] \/ su[s][l] = None)
    BY DEF StoresKeep
  <2>2. CASE su[s][l] = None
    BY <2>2 DEF Lasts
  <2>3. CASE su[s][l] = st[s][l] /\ st[s][l] # None
    BY <1>1, <2>1, <2>3 DEF Lasts
  <2> QED  BY <2>1, <2>2, <2>3
<1>3. ASSUME NEW t \in tk
      PROVE  /\ su[t.by][t.lease] # None => su[t.by][t.lease].at >= t.at
             /\ d < t.at + TTL => su[t.by][t.lease] # None
  <2>1. t.by \in Stores /\ t.lease \in Creates /\ t.at \in Nat
    BY DEF Claims
  <2> DEFINE e == st[t.by][t.lease]
             f == su[t.by][t.lease]
  <2>2. (e # None => e.at >= t.at /\ e.at \in Nat) /\ (c < t.at + TTL => e # None)
    BY <1>1, <2>1 DEF StoresKeep
  <2>3. f = e \/ (f = None /\ e # None /\ d >= e.at + TTL)
    BY <2>1
  <2> HIDE DEF e, f
  <2>4. (f # None => f.at >= t.at) /\ (d < t.at + TTL => f # None)
    BY <1>1, <2>1, <2>2, <2>3
  <2> QED  BY <2>4 DEF f
<1> QED  BY <1>2, <1>3 DEF StoresKeep

\* gcLocked returns what is left of the leases.
LEMMA GcType ==
  ASSUME NEW m \in [Creates -> LeaseRecord \cup {None}], NEW n \in Nodes
  PROVE  gcLocked(m, n) \in [Creates -> LeaseRecord \cup {None}]
  BY DEF gcLocked

\* gcLocked deletes by the clock of the memory's one node, which also stamped the
\* leases: what it deletes has run out.
LEMMA CollectionKeeps ==
  ASSUME NEW st, NEW tk \in SUBSET Claims, now \in Nat, StoresKeep(st, tk, now),
         NEW n \in Nodes, NEW w, w = StoreOf[n], w \in Memory,
         NEW su, su \in [Stores -> [Creates -> LeaseRecord \cup {None}]],
         su[w] = gcLocked(st[w], n), \A s \in Stores : s # w => su[s] = st[s]
  PROVE  /\ StoresKeep(su, tk, now)
         /\ \A s \in Stores, l \in Creates : su[s][l] = st[s][l] \/ su[s][l] = None
<1> DEFINE m == gcLocked(st[w], n)
<1>1. /\ st \in [Stores -> [Creates -> LeaseRecord \cup {None}]]
      /\ w \in Stores /\ Drift[n] \in Nat /\ TTL \in Nat
  BY LeaseAssumption DEF StoresKeep
<1>2. \A l \in Creates :
        m[l] = IF st[w][l] # None /\ now + Drift[n] > st[w][l].exp THEN None ELSE st[w][l]
  BY DEF gcLocked
<1>s. su[w] = m /\ \A s \in Stores : s # w => su[s] = st[s]
  OBVIOUS
<1> HIDE DEF m
<1>5. ASSUME NEW s \in Stores, NEW l \in Creates
      PROVE  \/ su[s][l] = st[s][l]
             \/ su[s][l] = None /\ st[s][l] # None /\ now >= st[s][l].at + TTL
  <2>1. CASE s # w
    BY <1>s, <2>1
  <2>2. CASE s = w /\ ~(st[w][l] # None /\ now + Drift[n] > st[w][l].exp)
    BY <1>s, <1>2, <2>2
  <2>3. CASE s = w /\ st[w][l] # None /\ now + Drift[n] > st[w][l].exp
    <3>1. su[s][l] = None
      BY <1>s, <1>2, <2>3
    <3>2. Lasts(st[w][l], w, now)
      BY <1>1 DEF StoresKeep
    <3>3. st[w][l].exp = st[w][l].at + TTL + Drift[n]
      BY <2>3, <3>2 DEF Lasts
    <3>4. st[w][l].at \in Nat
      BY <1>1, <2>3 DEF LeaseRecord
    <3>5. now >= st[w][l].at + TTL
      BY <1>1, <2>3, <3>3, <3>4
    <3> QED  BY <2>3, <3>1, <3>5
  <2> QED  BY <2>1, <2>2, <2>3
<1>6. StoresKeep(su, tk, now)
  BY <1>5, DeletionsKeep
<1> QED  BY <1>5, <1>6

\* Redis deletes a lease no earlier than its time to live after it was saved, and
\* its writer had read the clock before.
LEMMA ExpiryKeeps ==
  ASSUME DataTypes, StoreInv, Tick
  PROVE  /\ StoresKeep(store', tokens \ regressed, now')
         /\ \A s \in Stores, l \in Creates : store'[s][l] = store[s][l] \/ store'[s][l] = None
<1> DEFINE tk == tokens \ regressed
<1>1. /\ StoresKeep(store, tk, now) /\ tk \in SUBSET Claims /\ now \in Nat
      /\ store \in [Stores -> [Creates -> LeaseRecord \cup {None}]] /\ TTL \in Nat
  BY LeaseAssumption DEF StoreInv, StoresKeep, DataTypes
<1>2. now' = now + 1 /\ now' \in Nat /\ now <= now'
  BY <1>1 DEF Tick
<1>3. store' = [s \in Stores |-> IF s \in Memory THEN store[s] ELSE RedisExpire(store[s], now')]
  BY DEF Tick
<1>4. ASSUME NEW s \in Stores
      PROVE  store'[s] \in [Creates -> LeaseRecord \cup {None}]
  <2>1. store[s] \in [Creates -> LeaseRecord \cup {None}]
    BY <1>1
  <2>2. RedisExpire(store[s], now') \in [Creates -> LeaseRecord \cup {None}]
    BY <2>1 DEF RedisExpire
  <2> QED  BY <1>3, <2>1, <2>2
<1>5. store' \in [Stores -> [Creates -> LeaseRecord \cup {None}]]
  <2>1. store' = [s \in Stores |-> store'[s]]
    BY <1>3
  <2> QED  BY <1>4, <2>1
<1>6. ASSUME NEW s \in Stores, NEW l \in Creates
      PROVE  \/ store'[s][l] = store[s][l]
             \/ store'[s][l] = None /\ store[s][l] # None /\ now' >= store[s][l].at + TTL
  <2>1. CASE s \in Memory
    BY <1>3, <2>1
  <2>2. CASE s \notin Memory
    <3>1. store'[s][l] = IF store[s][l] # None /\ now' >= store[s][l].until THEN None ELSE store[s][l]
      BY <1>3, <2>2 DEF RedisExpire
    <3>2. CASE store[s][l] # None /\ now' >= store[s][l].until
      <4>1. store[s][l].at \in Nat /\ store[s][l].until \in Int
        BY <1>1, <3>2 DEF LeaseRecord
      <4>2. store[s][l].at + TTL <= store[s][l].until
        BY <1>1, <3>2 DEF StoresKeep, Lasts
      <4> QED  BY <1>1, <1>2, <3>1, <3>2, <4>1, <4>2
    <3> QED  BY <3>1, <3>2
  <2> QED  BY <2>1, <2>2
<1> HIDE DEF tk
<1>7. StoresKeep(store', tk, now')
  BY <1>1, <1>2, <1>5, <1>6, DeletionsKeep
<1> QED  BY <1>6, <1>7 DEF tk

\* store.Save: the lease that is put into store w is as good as its new token, and
\* as its older ones if none of them was made from a later clock.
LEMMA SaveKeeps ==
  ASSUME LeaseInv, NEW r \in Requests, NEW l \in Creates, node[r] \in Nodes, Save(l, r),
         NEW tk \in SUBSET Claims,
         \A t \in tk : t \in tokens \ regressed \/ t = Token(l, r),
         \A t \in tk : t.lease = l => t.at <= at[r]
  PROVE  /\ StoresKeep(store', tk, now)
         /\ \A s \in Stores, k \in Creates :
              store'[s][k] # None => store[s][k] # None \/ (s = StoreOf[node[r]] /\ k = l)
<1> DEFINE n  == node[r]
           w  == StoreOf[n]
           e  == [exp |-> Clock(r) + TTL, until |-> now + TTL, at |-> at[r]]
           st == [store EXCEPT ![w] = [store[w] EXCEPT ![l] = e]]
<1>1. /\ w \in Stores /\ Drift[n] \in Nat /\ TTL \in Nat /\ now \in Nat
      /\ at[r] \in Nat /\ at[r] <= now
      /\ store \in [Stores -> [Creates -> LeaseRecord \cup {None}]]
  BY LeaseAssumption DEF LeaseInv, StoreInv, StoresKeep, DataTypes, RequestTypes, RequestInv, Underway
<1>2. Clock(r) \in Nat /\ Clock(r) = at[r] + Drift[n]
  BY <1>1 DEF Clock
<1>3. e \in LeaseRecord /\ e.exp = Clock(r) + TTL /\ e.until = now + TTL /\ e.at = at[r]
  BY <1>1, <1>2 DEF LeaseRecord
<1>4. e # None
  <2>1. e \in [exp : Int, until : Int, at : Int]
    BY <1>1, <1>2
  <2> QED  BY <2>1, LeaseAssumption
<1>5. /\ w \notin Memory => store' = st
      /\ w \in Memory => store' = [store EXCEPT ![w] = gcLocked([store[w] EXCEPT ![l] = e], n)]
  BY DEF Save
<1> HIDE DEF e
<1>6. st \in [Stores -> [Creates -> LeaseRecord \cup {None}]]
  <2>1. store[w] \in [Creates -> LeaseRecord \cup {None}]
    BY <1>1
  <2>2. [store[w] EXCEPT ![l] = e] \in [Creates -> LeaseRecord \cup {None}]
    BY <1>3, <2>1
  <2> QED  BY <1>1, <2>2
<1>7. st[w] = [store[w] EXCEPT ![l] = e] /\ \A s \in Stores : s # w => st[s] = store[s]
  BY <1>1
<1>8. w \in Memory => store' = [st EXCEPT ![w] = gcLocked(st[w], n)]
  <2> SUFFICES ASSUME w \in Memory
               PROVE  store' = [st EXCEPT ![w] = gcLocked(st[w], n)]
    OBVIOUS
  <2> DEFINE g == gcLocked(st[w], n)
  <2>1. store' = [store EXCEPT ![w] = g]
    BY <1>5, <1>7
  <2> HIDE DEF g
  <2>2. [st EXCEPT ![w] = g] = [store EXCEPT ![w] = g]
    BY <1>1
  <2> QED  BY <2>1, <2>2 DEF g
<1>9. /\ st[w][l] = e
      /\ \A s \in Stores, k \in Creates : s # w \/ k # l => st[s][k] = store[s][k]
  BY <1>1, <1>7
<1> HIDE DEF n, w, st
<1>10. ASSUME NEW s \in Stores, NEW k \in Creates  PROVE Lasts(st[s][k], s, now)
  <2>1. CASE s = w /\ k = l
    <3>1. /\ e.at <= now /\ e.at + TTL <= e.until /\ e.at + TTL <= e.exp
          /\ e.exp = e.at + TTL + Drift[n]
      BY <1>1, <1>2, <1>3
    <3>2. \A m \in Nodes : s \in Memory /\ StoreOf[m] = s => m = n
      BY <2>1, LeaseAssumption DEF n, w
    <3> QED  BY <1>9, <2>1, <3>1, <3>2 DEF Lasts
  <2>2. CASE ~(s = w /\ k = l)
    <3>1. st[s][k] = store[s][k]
      BY <1>9, <2>2
    <3>2. Lasts(store[s][k], s, now)
      BY DEF LeaseInv, StoreInv, StoresKeep
    <3> QED  BY <3>1, <3>2
  <2> QED  BY <2>1, <2>2
<1>11. ASSUME NEW t \in tk
       PROVE  /\ st[t.by][t.lease] # None => st[t.by][t.lease].at >= t.at
              /\ now < t.at + TTL => st[t.by][t.lease] # None
  <2>1. t.by \in Stores /\ t.lease \in Creates /\ t.at \in Nat
    BY DEF Claims
  <2>2. CASE t.by = w /\ t.lease = l
    <3>1. st[t.by][t.lease] = e /\ t.at <= at[r]
      BY <1>9, <2>2
    <3> QED  BY <1>1, <1>3, <1>4, <2>1, <3>1
  <2>3. CASE ~(t.by = w /\ t.lease = l)
    <3>1. st[t.by][t.lease] = store[t.by][t.lease]
      BY <1>9, <2>1, <2>3
    <3>2. t # Token(l, r)
      BY <1>1, <2>3, TokenClaims DEF n, w
    <3>3. t \in tokens \ regressed
      BY <3>2
    <3> QED  BY <3>1, <3>3 DEF LeaseInv, StoreInv, StoresKeep
  <2> QED  BY <2>2, <2>3
<1>12. StoresKeep(st, tk, now)
  BY <1>6, <1>10, <1>11 DEF StoresKeep
<1>13. CASE w \notin Memory
  <2>1. store' = st
    BY <1>5, <1>13
  <2> QED  BY <1>9, <1>12, <2>1 DEF n, w
<1>14. CASE w \in Memory
  <2>1. n \in Nodes /\ w = StoreOf[n]
    BY DEF n, w
  <2>2. store' = [st EXCEPT ![w] = gcLocked(st[w], n)]
    BY <1>8, <1>14
  <2>s. store' \in [Stores -> [Creates -> LeaseRecord \cup {None}]]
    <3> DEFINE g == gcLocked(st[w], n)
    <3>1. st[w] \in [Creates -> LeaseRecord \cup {None}]
      BY <1>1, <1>6
    <3>2. g \in [Creates -> LeaseRecord \cup {None}]
      BY <2>1, <3>1, GcType
    <3>3. store' = [st EXCEPT ![w] = g]
      BY <2>2
    <3> HIDE DEF g
    <3> QED  BY <1>6, <3>2, <3>3
  <2>e. /\ store'[w] = gcLocked(st[w], n)
        /\ \A s \in Stores : s # w => store'[s] = st[s]
    BY <1>1, <1>6, <2>2
  <2>3. /\ StoresKeep(store', tk, now)
        /\ \A s \in Stores, k \in Creates : store'[s][k] = st[s][k] \/ store'[s][k] = None
    BY <1>1, <1>12, <1>14, <2>1, <2>s, <2>e, CollectionKeeps
  <2> QED  BY <1>9, <2>3 DEF n, w
<1> QED  BY <1>13, <1>14

-----------------------------------------------------------------------------
(* Steps of one request.                                                   *)

\* A step of request r leaves the other requests alone.
Others(r) ==
  \A x \in Requests \ {r} :
    /\ pc'[x] = pc[x] /\ node'[x] = node[x] /\ at'[x] = at[x] /\ tok'[x] = tok[x]
    /\ result'[x] = result[x] /\ decided'[x] = decided[x]

\* What is left to show of a step that touches neither the clock nor the tokens:
\* the types, the stores and the request that takes it.
RequestStep(r) ==
  /\ UNCHANGED <<now, tokens, regressed>>
  /\ StoreInv'
  /\ cache' \in [Nodes -> CacheEntry]
  /\ RequestTypes'
  /\ Others(r)
  /\ pc'[r] \in {"idle"} \cup CreateSteps => pc[r] \in {"idle"} \cup CreateSteps
  /\ Underway(r)'
  /\ r \in Reattaches => Presented(r)' /\ Justified(r)'

\* Requests are independent but for the stores and the tokens.
LEMMA OtherRequests ==
  ASSUME RequestInv, NEW r \in Requests, Others(r), now \in Nat, now' \in Nat, now <= now',
         RequestTypes,
         tokens \subseteq tokens', regressed \subseteq regressed',
         Underway(r)', r \in Reattaches => Presented(r)' /\ Justified(r)'
  PROVE  RequestInv'
<1>1. ASSUME NEW x \in Requests  PROVE Underway(x)'
  <2>1. CASE x = r
    BY <2>1
  <2>2. CASE x # r
    <3>1. Underway(x) /\ at[x] \in Nat
      BY DEF RequestInv, RequestTypes
    <3>2. pc'[x] = pc[x] /\ node'[x] = node[x] /\ at'[x] = at[x] /\ result'[x] = result[x]
      BY <2>2 DEF Others
    <3> QED  BY <3>1, <3>2 DEF Underway
  <2> QED  BY <2>1, <2>2
<1>2. ASSUME NEW x \in Reattaches  PROVE Presented(x)' /\ Justified(x)'
  <2>1. CASE x = r
    BY <2>1
  <2>2. CASE x # r
    <3>1. Presented(x) /\ Justified(x)
      BY DEF RequestInv
    <3>2. /\ pc'[x] = pc[x] /\ node'[x] = node[x] /\ at'[x] = at[x] /\ tok'[x] = tok[x]
          /\ result'[x] = result[x] /\ decided'[x] = decided[x]
      BY <2>2 DEF Others, Requests
    <3>3. Presented(x)'
      BY <3>1, <3>2 DEF Presented, LastMoment
    <3>4. Justified(x)'
      BY <3>1, <3>2 DEF Justified, TurnedAway
    <3> QED  BY <3>3, <3>4
  <2> QED  BY <2>1, <2>2
<1> QED  BY <1>1, <1>2 DEF RequestInv

\* A step of that kind keeps the invariant.
LEMMA RequestStepKeeps ==
  ASSUME LeaseInv, NEW r \in Requests, RequestStep(r)
  PROVE  LeaseInv'
<1>1. DataTypes' /\ RequestTypes'
  BY DEF LeaseInv, DataTypes, RequestStep
<1>2. ClaimsNearClock' /\ StoreInv'
  BY DEF LeaseInv, ClaimsNearClock, RequestStep
<1>3. Unissued'
  <2> SUFFICES ASSUME NEW c \in Creates, pc'[c] \in {"idle"} \cup CreateSteps, NEW t \in tokens
               PROVE  t.lease # c
    BY DEF Unissued, RequestStep
  <2>1. pc[c] \in {"idle"} \cup CreateSteps
    BY DEF RequestStep, Others, Requests
  <2> QED  BY <2>1 DEF LeaseInv, Unissued
<1>4. RequestInv'
  <2>1. now' = now /\ tokens' = tokens /\ regressed' = regressed /\ now \in Nat
    BY DEF RequestStep, LeaseInv, DataTypes
  <2>2. now <= now' /\ now' \in Nat
    BY <2>1
  <2> QED  BY <2>1, <2>2, OtherRequests DEF RequestStep, LeaseInv
<1> QED  BY <1>1, <1>2, <1>3, <1>4 DEF LeaseInv

\* The stores are as they were.
LEMMA SameStores ==
  ASSUME StoreInv, UNCHANGED <<now, store, tokens, regressed>>
  PROVE  StoreInv'
  BY DEF StoreInv, StoresKeep, OneHome, Homed

-----------------------------------------------------------------------------
(* createLiveSession.                                                      *)

\* createLiveSession up to the call of Issue, and when its Save fails.
LEMMA CreateStepsKeep ==
  ASSUME LeaseInv, NEW r \in Creates,
         CreateBegin(r) \/ Replay(r) \/ Produce(r) \/ IssueFails(r)
  PROVE  RequestStep(r)
<1>t. /\ r \in Requests /\ Underway(r) /\ r \notin Reattaches /\ StoreInv /\ RequestTypes
      /\ now \in Nat /\ cache \in [Nodes -> CacheEntry]
  BY LeaseAssumption DEF LeaseInv, RequestInv, Requests, DataTypes
<1>s. UNCHANGED <<now, store, tokens, regressed>> => StoreInv'
  BY <1>t, SameStores
<1>1. CASE CreateBegin(r)
  <2>1. UNCHANGED <<now, store, cache, tokens, tok, regressed>> /\ pc[r] = "idle"
    BY <1>1 DEF CreateBegin, ensureStreamReady
  <2>2. PICK n \in Nodes : node' = [node EXCEPT ![r] = n]
    BY <1>1, <1>t, LeaseAssumption DEF CreateBegin, ensureStreamReady, Set, Requests
  <2>3. node' \in [Requests -> Nodes \cup {None}] /\ node'[r] = n
    BY <1>t, <2>2 DEF RequestTypes
  <2>4. CASE Proceed(r, "do") /\ UNCHANGED at
    <3>1. /\ pc' = [pc EXCEPT ![r] = "do"] /\ UNCHANGED <<result, decided, at>>
      BY <2>4 DEF Proceed, Goto
    <3>2. RequestTypes' /\ Others(r)
      BY <1>t, <2>1, <2>2, <2>3, <3>1 DEF RequestTypes, Others, CreateSteps
    <3>3. pc'[r] = "do"
      BY <1>t, <3>1 DEF RequestTypes
    <3>4. Underway(r)'
      BY <1>t, <2>1, <2>3, <3>1, <3>3 DEF Underway, CreateSteps, ReattachSteps
    <3> QED  BY <1>t, <1>s, <2>1, <3>2, <3>4 DEF RequestStep
  <2>5. CASE Return(r, "unavailable", 0)
    <3>1. RequestTypes' /\ Others(r)
      BY <1>t, <2>1, <2>2, <2>3, <2>5 DEF RequestTypes, Others, Return, Set, Goto
    <3>2. pc'[r] = "returned" /\ at'[r] = 0
      BY <1>t, <2>5 DEF RequestTypes, Return, Set, Goto
    <3>3. Underway(r)'
      BY <1>t, <2>1, <3>2 DEF Underway, CreateSteps, ReattachSteps
    <3> QED  BY <1>t, <1>s, <2>1, <3>1, <3>3 DEF RequestStep
  <2> QED  BY <1>1, <2>4, <2>5 DEF CreateBegin, ensureStreamReady
<1>2. CASE Replay(r)
  <2>1. /\ UNCHANGED <<now, store, cache, tokens, node, regressed>>
        /\ pc[r] = "do" /\ tok' = [tok EXCEPT ![r] = cache[node[r]].tok]
        /\ Return(r, "replayed", now)
    BY <1>2 DEF Replay, Set
  <2>2. cache[node[r]].tok \in Claims \cup {None}
    BY <1>t, <2>1 DEF Underway, CreateSteps, CacheEntry
  <2>3. RequestTypes' /\ Others(r)
    BY <1>t, <2>1, <2>2 DEF RequestTypes, Others, Return, Set, Goto
  <2>4. pc'[r] = "returned" /\ at'[r] = 0
    BY <1>t, <2>1 DEF RequestTypes, Return, Set, Goto
  <2>5. Underway(r)'
    BY <1>t, <2>1, <2>4 DEF Underway, CreateSteps, ReattachSteps
  <2> QED  BY <1>t, <1>s, <2>1, <2>3, <2>4, <2>5 DEF RequestStep, CreateSteps
<1>3. CASE Produce(r)
  <2>1. /\ UNCHANGED <<now, store, tokens, node, tok, regressed, result, decided>>
        /\ pc[r] = "do" /\ at' = [at EXCEPT ![r] = now] /\ pc' = [pc EXCEPT ![r] = "issue"]
    BY <1>3 DEF Produce, Proceed, Goto, Set
  <2>2. cache' \in [Nodes -> CacheEntry]
    <3>1. CASE r \in Keyed
      <4>1. cache' = [cache EXCEPT ![node[r]] = [st |-> "busy", tok |-> None, expires |-> 0]]
        BY <1>3, <3>1 DEF Produce, Set
      <4>2. [st |-> "busy", tok |-> None, expires |-> 0] \in CacheEntry
        BY DEF CacheEntry
      <4> QED  BY <1>t, <4>1, <4>2
    <3>2. CASE r \notin Keyed
      BY <1>t, <1>3, <3>2 DEF Produce
    <3> QED  BY <3>1, <3>2
  <2>3. RequestTypes' /\ Others(r)
    BY <1>t, <2>1 DEF RequestTypes, Others, CreateSteps
  <2>4. pc'[r] = "issue" /\ at'[r] = now /\ node'[r] = node[r]
    BY <1>t, <2>1 DEF RequestTypes
  <2>5. Underway(r)'
    BY <1>t, <2>1, <2>4 DEF Underway, CreateSteps, ReattachSteps
  <2> QED  BY <1>t, <1>s, <2>1, <2>2, <2>3, <2>5 DEF RequestStep, CreateSteps
<1>4. CASE IssueFails(r)
  <2>1. UNCHANGED <<now, store, tokens, node, tok, regressed>> /\ Return(r, "error", 0)
    BY <1>4 DEF IssueFails
  <2>2. cache' \in [Nodes -> CacheEntry]
    <3>1. [st |-> "none", tok |-> None, expires |-> 0] \in CacheEntry
      BY DEF CacheEntry
    <3>2. cache' = cache \/ cache' = [cache EXCEPT ![node[r]] = [st |-> "none", tok |-> None, expires |-> 0]]
      BY <1>4 DEF IssueFails, Set
    <3> QED  BY <1>t, <3>1, <3>2
  <2>3. RequestTypes' /\ Others(r)
    BY <1>t, <2>1 DEF RequestTypes, Others, Return, Set, Goto
  <2>4. pc'[r] = "returned" /\ at'[r] = 0
    BY <1>t, <2>1 DEF RequestTypes, Return, Set, Goto
  <2>5. Underway(r)'
    BY <1>t, <2>1, <2>4 DEF Underway, CreateSteps, ReattachSteps
  <2> QED  BY <1>t, <1>s, <2>1, <2>2, <2>3, <2>4, <2>5 DEF RequestStep, CreateSteps
<1> QED  BY <1>1, <1>2, <1>3, <1>4

-----------------------------------------------------------------------------
(* reattachLiveSession.                                                    *)

\* The comparison of the claims with the clock of the node: a token that passes
\* is not long out of date, and with a skew that covers the drift and a second
\* one that fails has run out.
LEMMA ClaimsCheck ==
  ASSUME LeaseInv, NEW t \in tokens, NEW n \in Nodes
  PROVE  /\ ~ClaimsExpired(t, now + Drift[n]) => now <= t.at + TTL + Skew + MaxDrift
         /\ SkewCoversDrift /\ ClaimsExpired(t, now + Drift[n]) => now >= t.at + TTL
<1>1. t.iat \in Int /\ t.exp \in Int /\ t.at \in Nat /\ now \in Nat
  BY DEF LeaseInv, DataTypes, Claims
<1>2. /\ t.at <= now /\ t.iat <= t.at + MaxDrift
      /\ t.at + TTL - Second <= t.exp /\ t.exp <= t.at + TTL + MaxDrift
  BY DEF LeaseInv, ClaimsNearClock
<1>3. /\ Drift[n] \in Nat /\ Drift[n] <= MaxDrift /\ MaxDrift \in Nat
      /\ TTL \in Nat /\ Skew \in Nat /\ Second \in Nat
  BY LeaseAssumption
<1> QED  BY <1>1, <1>2, <1>3 DEF ClaimsExpired, SkewCoversDrift

\* ReattachBegin presents a token and checks its claims.
LEMMA ReattachBeginKeeps ==
  ASSUME LeaseInv, NEW r \in Reattaches, ReattachBegin(r)
  PROVE  RequestStep(r)
<1>t. /\ r \in Requests /\ Underway(r) /\ r \notin Creates /\ StoreInv /\ RequestTypes
      /\ now \in Nat /\ cache \in [Nodes -> CacheEntry]
  BY LeaseAssumption DEF LeaseInv, RequestInv, Requests, DataTypes
<1>1. UNCHANGED <<now, store, cache, tokens, regressed>> /\ pc[r] = "idle"
  BY DEF ReattachBegin
<1>s. StoreInv'
  BY <1>t, <1>1, SameStores
<1>2. PICK n \in Nodes, t \in tokens :
        /\ node' = [node EXCEPT ![r] = n] /\ tok' = [tok EXCEPT ![r] = t]
        /\ IF ClaimsExpired(t, now + Drift[n])
           THEN Return(r, "expired", now)
           ELSE Proceed(r, "get") /\ at' = [at EXCEPT ![r] = now]
  BY <1>t, LeaseAssumption DEF ReattachBegin, Set, Requests
<1>3. t \in Claims
  BY DEF LeaseInv, DataTypes
<1>4. /\ node' \in [Requests -> Nodes \cup {None}] /\ tok' \in [Requests -> Claims \cup {None}]
      /\ node'[r] = n /\ tok'[r] = t
  BY <1>t, <1>2, <1>3 DEF RequestTypes
<1>5. CASE ClaimsExpired(t, now + Drift[n])
  <2>1. Return(r, "expired", now)
    BY <1>2, <1>5
  <2>2. RequestTypes' /\ Others(r)
    BY <1>t, <1>2, <1>4, <2>1 DEF RequestTypes, Others, Return, Set, Goto
  <2>3. pc'[r] = "returned" /\ result'[r] = "expired" /\ decided'[r] = now /\ at'[r] = 0
    BY <1>t, <2>1 DEF RequestTypes, Return, Set, Goto
  <2>4. Underway(r)'
    BY <1>t, <1>1, <2>3 DEF Underway, CreateSteps, ReattachSteps
  <2>5. Presented(r)'
    BY <1>1, <1>4, <2>3 DEF Presented
  <2>6. SkewCoversDrift => now >= t.at + TTL
    BY <1>5, ClaimsCheck
  <2>7. Justified(r)'
    BY <1>4, <2>3, <2>6 DEF Justified
  <2> QED  BY <1>t, <1>s, <1>1, <2>2, <2>3, <2>4, <2>5, <2>7 DEF RequestStep, CreateSteps
<1>6. CASE ~ClaimsExpired(t, now + Drift[n])
  <2>1. /\ pc' = [pc EXCEPT ![r] = "get"] /\ at' = [at EXCEPT ![r] = now]
        /\ UNCHANGED <<result, decided>>
    BY <1>2, <1>6 DEF Proceed, Goto
  <2>2. RequestTypes' /\ Others(r)
    BY <1>t, <1>2, <1>4, <2>1 DEF RequestTypes, Others, ReattachSteps
  <2>3. pc'[r] = "get" /\ at'[r] = now /\ result'[r] = "none"
    BY <1>t, <1>1, <2>1 DEF RequestTypes, Underway
  <2>4. Underway(r)'
    BY <1>t, <1>1, <1>4, <2>3 DEF Underway, CreateSteps, ReattachSteps
  <2>5. now <= t.at + TTL + Skew + MaxDrift
    BY <1>6, ClaimsCheck
  <2>6. Presented(r)' /\ Justified(r)'
    BY <1>1, <1>4, <2>3, <2>5 DEF Presented, Justified, TurnedAway, LastMoment
  <2> QED  BY <1>t, <1>s, <1>1, <2>2, <2>3, <2>4, <2>6 DEF RequestStep, CreateSteps
<1> QED  BY <1>5, <1>6

\* store.Get: what it leaves in the store still serves the tokens.
LEMMA GetKeeps ==
  ASSUME LeaseInv, NEW r \in Reattaches, GetLease(r)
  PROVE  /\ StoreInv'
         /\ store'[StoreOf[node[r]]] = Kept(r)
<1> DEFINE n  == node[r]
           w  == StoreOf[n]
           tk == tokens \ regressed
<1>1. UNCHANGED <<now, tokens, regressed>> /\ pc[r] = "get" /\ store' = [store EXCEPT ![w] = Kept(r)]
  BY DEF GetLease, Set
<1>2. Underway(r)
  BY DEF LeaseInv, RequestInv, Requests
<1>3. n \in Nodes
  BY <1>1, <1>2 DEF Underway, ReattachSteps
<1>4. /\ w \in Stores /\ now \in Nat /\ StoresKeep(store, tk, now) /\ tk \in SUBSET Claims
      /\ store \in [Stores -> [Creates -> LeaseRecord \cup {None}]]
  BY <1>3, LeaseAssumption DEF LeaseInv, StoreInv, StoresKeep, DataTypes
<1>5. Kept(r) = IF w \in Memory THEN gcLocked(store[w], n) ELSE store[w]
  BY DEF Kept
<1> HIDE DEF n, w, tk
<1>6. store'[w] = Kept(r) /\ \A s \in Stores : s # w => store'[s] = store[s]
  BY <1>1, <1>4
<1>7. /\ StoresKeep(store', tk, now)
      /\ \A s \in Stores, l \in Creates : store'[s][l] = store[s][l] \/ store'[s][l] = None
  <2>1. CASE w \in Memory
    <3> DEFINE g == gcLocked(store[w], n)
    <3>1. store[w] \in [Creates -> LeaseRecord \cup {None}]
      BY <1>4
    <3>2. g \in [Creates -> LeaseRecord \cup {None}]
      BY <1>3, <3>1, GcType
    <3>3. store' = [store EXCEPT ![w] = g] /\ store'[w] = g
      BY <1>1, <1>5, <1>6, <2>1
    <3> HIDE DEF g
    <3>4. store' \in [Stores -> [Creates -> LeaseRecord \cup {None}]]
      BY <1>4, <3>2, <3>3
    <3>5. store'[w] = gcLocked(store[w], n)
      BY <3>3 DEF g
    <3>6. w = StoreOf[n]
      BY DEF w
    <3> QED  BY <1>3, <1>4, <1>6, <2>1, <3>4, <3>5, <3>6, CollectionKeeps
  <2>2. CASE w \notin Memory
    <3>1. store' = store
      BY <1>1, <1>4, <1>5, <2>2
    <3> QED  BY <1>4, <3>1
  <2> QED  BY <2>1, <2>2
<1>8. StoresKeep(store', tokens' \ regressed', now') /\ OneHome' /\ Homed(store)
  BY <1>1, <1>7 DEF LeaseInv, StoreInv, OneHome, tk
<1>9. Homed(store)'
  BY <1>1, <1>7, <1>8 DEF Homed
<1> QED  BY <1>6, <1>8, <1>9 DEF StoreInv, n, w

\* A lease that Get does not find, or finds expired, has run out for every token
\* of it, unless a slower reattach has overwritten it; one that is found is in
\* the store of its tokens.
LEMMA LeaseCheck ==
  ASSUME LeaseInv, NEW r \in Reattaches, GetLease(r),
         NEW e, e = Kept(r)[tok[r].lease]
  PROVE  /\ e # None => tok[r].by = StoreOf[node[r]]
         /\ e = None /\ tok[r].by = StoreOf[node[r]] /\ tok[r] \notin regressed
              => now >= tok[r].at + TTL
         /\ e # None /\ SkewCoversDrift /\ Clock(r) > e.exp + Skew /\ tok[r] \notin regressed
              => at[r] >= tok[r].at + TTL
<1> DEFINE l == tok[r].lease
           n == node[r]
           w == StoreOf[n]
<1>1. StoreInv' /\ store'[w] = Kept(r) /\ tokens' = tokens /\ regressed' = regressed /\ now' = now
  BY GetKeeps DEF GetLease
<1>2. /\ r \in Requests /\ Underway(r) /\ Presented(r) /\ pc[r] = "get" /\ now \in Nat /\ at[r] \in Nat
  BY DEF LeaseInv, RequestInv, Requests, GetLease, DataTypes, RequestTypes
<1>3. n \in Nodes /\ tok[r] \in tokens
  BY <1>2 DEF Underway, Presented, ReattachSteps
<1>4. w \in Stores /\ l \in Creates /\ tok[r].at \in Nat
  BY <1>3, LeaseAssumption DEF LeaseInv, DataTypes, Claims
<1>5. e = store'[w][l]
  BY <1>1
<1>6. StoresKeep(store', tokens \ regressed, now) /\ OneHome
      /\ \A s \in Stores, k \in Creates : store'[s][k] # None => \E t \in tokens : t.lease = k /\ t.by = s
  BY <1>1 DEF StoreInv, Homed, OneHome
<1>7. e # None => tok[r].by = w
  BY <1>3, <1>4, <1>5, <1>6 DEF OneHome
<1>8. ASSUME e = None, tok[r].by = w, tok[r] \notin regressed
      PROVE  now >= tok[r].at + TTL
  <2>1. TTL \in Nat
    BY LeaseAssumption
  <2>2. ~(now < tok[r].at + TTL)
    BY <1>3, <1>5, <1>6, <1>8 DEF StoresKeep
  <2> QED  BY <1>2, <1>4, <2>1, <2>2
<1>9. ASSUME e # None, SkewCoversDrift, Clock(r) > e.exp + Skew, tok[r] \notin regressed
      PROVE  at[r] >= tok[r].at + TTL
  <2>1. e \in LeaseRecord /\ Lasts(e, w, now)
    BY <1>4, <1>5, <1>6, <1>9 DEF StoresKeep
  <2>2. e.at \in Nat /\ e.exp \in Int /\ e.at + TTL <= e.exp
    BY <1>9, <2>1 DEF LeaseRecord, Lasts
  <2>3. e.at >= tok[r].at
    BY <1>3, <1>5, <1>6, <1>7, <1>9 DEF StoresKeep
  <2>4. /\ Drift[n] \in Nat /\ Drift[n] <= MaxDrift /\ MaxDrift \in Nat
        /\ TTL \in Nat /\ Skew \in Nat /\ Second \in Nat
    BY <1>3, LeaseAssumption
  <2>5. Clock(r) = at[r] + Drift[n] /\ MaxDrift + Second <= Skew
    BY <1>9 DEF Clock, SkewCoversDrift
  <2> HIDE DEF n
  <2> QED  BY <1>2, <1>4, <1>9, <2>2, <2>3, <2>4, <2>5
<1> QED  BY <1>7, <1>8, <1>9

\* The lookup of the lease, and a store that fails.
LEMMA ReattachStepsKeep ==
  ASSUME LeaseInv, NEW r \in Reattaches, GetLease(r) \/ StoreFails(r)
  PROVE  RequestStep(r)
<1>t. /\ r \in Requests /\ Underway(r) /\ Presented(r) /\ r \notin Creates /\ StoreInv
      /\ RequestTypes /\ now \in Nat /\ cache \in [Nodes -> CacheEntry]
  BY LeaseAssumption DEF LeaseInv, RequestInv, Requests, DataTypes
<1>1. CASE GetLease(r)
  <2> DEFINE e == Kept(r)[tok[r].lease]
  <2>1. UNCHANGED <<now, cache, tokens, node, tok, regressed>> /\ pc[r] = "get" /\ StoreInv'
    BY <1>1, GetKeeps DEF GetLease
  <2>2. tok[r] \in tokens /\ node[r] \in Nodes
    BY <1>t, <2>1 DEF Presented, Underway, ReattachSteps
  <2>3. IF e = None
        THEN Return(r, "missing", now)
        ELSE IF Clock(r) > e.exp + Skew
             THEN Return(r, "expired", at[r])
             ELSE Proceed(r, "renew") /\ UNCHANGED at
    BY <1>1 DEF GetLease
  <2> HIDE DEF e
  <2>4. /\ e # None => tok[r].by = StoreOf[node[r]]
        /\ e = None /\ tok[r].by = StoreOf[node[r]] /\ tok[r] \notin regressed
             => now >= tok[r].at + TTL
        /\ e # None /\ SkewCoversDrift /\ Clock(r) > e.exp + Skew /\ tok[r] \notin regressed
             => at[r] >= tok[r].at + TTL
    BY <1>1, LeaseCheck DEF e
  <2>5. CASE e = None
    <3>1. Return(r, "missing", now)
      BY <2>3, <2>5
    <3>2. RequestTypes' /\ Others(r)
      BY <1>t, <2>1, <3>1 DEF RequestTypes, Others, Return, Set, Goto
    <3>3. pc'[r] = "returned" /\ result'[r] = "missing" /\ decided'[r] = now /\ at'[r] = 0
      BY <1>t, <3>1 DEF RequestTypes, Return, Set, Goto
    <3>4. Underway(r)'
      BY <1>t, <2>1, <3>3 DEF Underway, CreateSteps, ReattachSteps
    <3>5. Presented(r)'
      BY <2>1, <2>2, <3>3 DEF Presented
    <3>6. Justified(r)'
      BY <2>1, <2>4, <2>5, <3>3 DEF Justified, TurnedAway
    <3> QED  BY <1>t, <2>1, <3>2, <3>3, <3>4, <3>5, <3>6 DEF RequestStep, CreateSteps
  <2>6. CASE e # None /\ Clock(r) > e.exp + Skew
    <3>1. Return(r, "expired", at[r])
      BY <2>3, <2>6
    <3>2. RequestTypes' /\ Others(r)
      BY <1>t, <2>1, <3>1 DEF RequestTypes, Others, Return, Set, Goto
    <3>3. pc'[r] = "returned" /\ result'[r] = "expired" /\ decided'[r] = at[r] /\ at'[r] = 0
      BY <1>t, <3>1 DEF RequestTypes, Return, Set, Goto
    <3>4. Underway(r)'
      BY <1>t, <2>1, <3>3 DEF Underway, CreateSteps, ReattachSteps
    <3>5. Presented(r)'
      BY <2>1, <2>2, <3>3 DEF Presented
    <3>6. Justified(r)'
      BY <2>1, <2>4, <2>6, <3>3 DEF Justified
    <3> QED  BY <1>t, <2>1, <3>2, <3>3, <3>4, <3>5, <3>6 DEF RequestStep, CreateSteps
  <2>7. CASE e # None /\ ~(Clock(r) > e.exp + Skew)
    <3>1. pc' = [pc EXCEPT ![r] = "renew"] /\ UNCHANGED <<at, result, decided>>
      BY <2>3, <2>7 DEF Proceed, Goto
    <3>2. RequestTypes' /\ Others(r)
      BY <1>t, <2>1, <3>1 DEF RequestTypes, Others, ReattachSteps
    <3>3. pc'[r] = "renew" /\ result'[r] = "none"
      BY <1>t, <2>1, <3>1 DEF RequestTypes, Underway
    <3>4. Underway(r)'
      BY <1>t, <2>1, <2>2, <3>1, <3>3 DEF Underway, CreateSteps, ReattachSteps
    <3>5. at[r] <= LastMoment(r) /\ LastMoment(r)' = LastMoment(r)
      BY <1>t, <2>1 DEF Presented, LastMoment
    <3>6. Presented(r)' /\ Justified(r)'
      BY <2>1, <2>2, <2>4, <2>7, <3>1, <3>3, <3>5 DEF Presented, Justified, TurnedAway
    <3> QED  BY <1>t, <2>1, <3>2, <3>3, <3>4, <3>6 DEF RequestStep, CreateSteps
  <2> QED  BY <2>5, <2>6, <2>7
<1>2. CASE StoreFails(r)
  <2>1. /\ UNCHANGED <<now, store, cache, tokens, node, tok, regressed>> /\ pc[r] \in {"get", "renew"}
        /\ Return(r, "error", 0)
    BY <1>2 DEF StoreFails
  <2>2. RequestTypes' /\ Others(r)
    BY <1>t, <2>1 DEF RequestTypes, Others, Return, Set, Goto
  <2>3. pc'[r] = "returned" /\ result'[r] = "error" /\ at'[r] = 0
    BY <1>t, <2>1 DEF RequestTypes, Return, Set, Goto
  <2>4. Underway(r)'
    BY <1>t, <2>1, <2>3 DEF Underway, CreateSteps, ReattachSteps
  <2>5. Presented(r)' /\ Justified(r)'
    BY <1>t, <2>1, <2>3 DEF Presented, Justified, TurnedAway
  <2>6. StoreInv'
    BY <1>t, <2>1, SameStores
  <2> QED  BY <1>t, <2>1, <2>2, <2>3, <2>4, <2>5, <2>6 DEF RequestStep, CreateSteps
<1> QED  BY <1>1, <1>2

-----------------------------------------------------------------------------
(* Issue and the renewal: a lease is saved and a token given out.          *)

\* The claims of the old tokens and of the new one.
LEMMA TokenGivenOut ==
  ASSUME LeaseInv, NEW r \in Requests, NEW l \in Creates, node[r] \in Nodes,
         now' = now, tokens' = tokens \cup {Token(l, r)}
  PROVE  ClaimsNearClock' /\ tokens' \in SUBSET Claims
<1>1. at[r] \in Nat /\ at[r] <= now
  BY DEF LeaseInv, RequestTypes, RequestInv, Underway
<1>2. tokens' \in SUBSET Claims
  <2>1. Token(l, r) \in Claims
    BY <1>1, TokenClaims
  <2> QED  BY <2>1 DEF LeaseInv, DataTypes
<1>3. ClaimsNearClock'
  <2> SUFFICES ASSUME NEW t \in tokens'
               PROVE  /\ t.at <= now
                      /\ t.iat <= t.at + MaxDrift
                      /\ t.at + TTL - Second <= t.exp /\ t.exp <= t.at + TTL + MaxDrift
    BY DEF ClaimsNearClock
  <2>1. CASE t \in tokens
    BY <2>1 DEF LeaseInv, ClaimsNearClock
  <2>2. CASE t = Token(l, r)
    BY <1>1, <2>2, TokenClaims
  <2> QED  BY <2>1, <2>2
<1> QED  BY <1>2, <1>3

\* The stores serve the old tokens and the new one, which is at home where the
\* lease is.
LEMMA StoresServe ==
  ASSUME LeaseInv, NEW r \in Requests, NEW l \in Creates, node[r] \in Nodes, Save(l, r),
         now' = now, tokens' = tokens \cup {Token(l, r)}, regressed \subseteq regressed',
         \A t \in tokens : t.lease = l /\ t \notin regressed' => t.at <= at[r],
         \A t \in tokens : t.lease = l => t.by = StoreOf[node[r]]
  PROVE  StoreInv'
<1> DEFINE tk == tokens' \ regressed'
           w  == StoreOf[node[r]]
           k  == Token(l, r)
<1>1. /\ at[r] \in Nat /\ w \in Stores
      /\ k \in Claims /\ k.lease = l /\ k.at = at[r] /\ k.by = w
  <2>1. at[r] \in Nat
    BY DEF LeaseInv, RequestTypes
  <2> QED  BY <2>1, TokenClaims, LeaseAssumption
<1>2. tk \in SUBSET Claims
  BY TokenGivenOut
<1> HIDE DEF k, w
<1>3. \A t \in tk : t \in tokens \ regressed \/ t = k
  BY DEF k
<1>4. \A t \in tk : t.lease = l => t.at <= at[r]
  BY <1>1, <1>3
<1> HIDE DEF tk
<1>5. /\ StoresKeep(store', tk, now)
      /\ \A s \in Stores, c \in Creates :
           store'[s][c] # None => store[s][c] # None \/ (s = w /\ c = l)
  BY <1>2, <1>3, <1>4, SaveKeeps DEF k, w
<1>6. StoresKeep(store', tokens' \ regressed', now')
  BY <1>5 DEF tk
<1>7. OneHome'
  <2>1. tokens' = tokens \cup {k} /\ \A t \in tokens : t.lease = l => t.by = w
    BY DEF k, w
  <2> QED  BY <1>1, <2>1 DEF LeaseInv, StoreInv, OneHome
<1>8. Homed(store)'
  <2>1. tokens' = tokens \cup {k} /\ Homed(store)
    BY DEF k, LeaseInv, StoreInv
  <2> QED  BY <1>1, <1>5, <2>1 DEF Homed
<1> QED  BY <1>6, <1>7, <1>8 DEF StoreInv

\* Issue: the lease is new, no token of it is out.
LEMMA IssueKeeps ==
  ASSUME LeaseInv, NEW r \in Creates, issueSession(r)
  PROVE  LeaseInv'
<1>1. /\ r \in Requests /\ Underway(r) /\ r \notin Reattaches /\ RequestTypes /\ now \in Nat
      /\ cache \in [Nodes -> CacheEntry]
  BY LeaseAssumption DEF LeaseInv, RequestInv, Requests, DataTypes
<1>2. /\ UNCHANGED <<now, node, regressed>> /\ pc[r] = "issue" /\ Save(r, r)
      /\ tok' = [tok EXCEPT ![r] = Token(r, r)] /\ tokens' = tokens \cup {Token(r, r)}
      /\ Return(r, "created", 0)
  BY DEF issueSession, Issue, Set
<1>3. node[r] \in Nodes /\ at[r] \in Nat
  BY <1>1, <1>2 DEF Underway, CreateSteps, RequestTypes
<1>4. Token(r, r) \in Claims /\ Token(r, r).lease = r
  BY <1>1, <1>3, TokenClaims
<1>5. \A t \in tokens : t.lease # r
  BY <1>2 DEF LeaseInv, Unissued, CreateSteps
<1>6. ClaimsNearClock' /\ tokens' \in SUBSET Claims /\ StoreInv'
  <2>1. ClaimsNearClock' /\ tokens' \in SUBSET Claims
    BY <1>1, <1>2, <1>3, TokenGivenOut
  <2>2. regressed \subseteq regressed'
    BY <1>2
  <2>3. StoreInv'
    BY <1>1, <1>2, <1>3, <1>5, <2>2, StoresServe
  <2> QED  BY <2>1, <2>3
<1>7. cache' \in [Nodes -> CacheEntry]
  <2>1. CASE r \in Keyed
    <3> DEFINE e == [st |-> "ready", tok |-> Token(r, r), expires |-> now + IdemTTL]
    <3>1. now + IdemTTL \in Int
      BY <1>1, LeaseAssumption
    <3>2. e \in CacheEntry
      BY <1>4, <3>1 DEF CacheEntry
    <3>3. cache' = [cache EXCEPT ![node[r]] = e]
      BY <2>1 DEF issueSession, Set
    <3> HIDE DEF e
    <3> QED  BY <1>1, <3>2, <3>3
  <2>2. CASE r \notin Keyed
    BY <1>1, <2>2 DEF issueSession
  <2> QED  BY <2>1, <2>2
<1>8. RequestTypes' /\ Others(r)
  BY <1>1, <1>2, <1>4 DEF RequestTypes, Others, Return, Set, Goto
<1>9. pc'[r] = "returned" /\ at'[r] = 0
  BY <1>1, <1>2 DEF RequestTypes, Return, Set, Goto
<1>10. Underway(r)'
  BY <1>1, <1>2, <1>9 DEF Underway, CreateSteps, ReattachSteps
<1>11. Unissued'
  <2> SUFFICES ASSUME NEW c \in Creates, pc'[c] \in {"idle"} \cup CreateSteps, NEW t \in tokens'
               PROVE  t.lease # c
    BY DEF Unissued
  <2>1. c # r
    BY <1>9 DEF CreateSteps
  <2>2. pc[c] \in {"idle"} \cup CreateSteps
    BY <1>8, <2>1 DEF Others, Requests
  <2> QED  BY <1>2, <1>4, <2>1, <2>2 DEF LeaseInv, Unissued
<1>12. RequestInv'
  <2>1. now' \in Nat /\ now <= now' /\ tokens \subseteq tokens' /\ regressed \subseteq regressed'
    BY <1>1, <1>2
  <2> QED  BY <1>1, <1>8, <1>10, <2>1, OtherRequests DEF LeaseInv
<1> QED  BY <1>1, <1>2, <1>6, <1>7, <1>8, <1>11, <1>12 DEF LeaseInv, DataTypes

\* The renewal: the tokens made from a later clock than the lease that is saved
\* are marked, the lease is as good as all others.
LEMMA RenewKeeps ==
  ASSUME LeaseInv, NEW r \in Reattaches, Renew(r)
  PROVE  LeaseInv'
<1> DEFINE l == tok[r].lease
           w == StoreOf[node[r]]
<1>1. /\ r \in Requests /\ Underway(r) /\ Presented(r) /\ r \notin Creates /\ RequestTypes
      /\ now \in Nat /\ cache \in [Nodes -> CacheEntry]
  BY LeaseAssumption DEF LeaseInv, RequestInv, Requests, DataTypes
<1>2. /\ UNCHANGED <<now, cache, node, tok>> /\ pc[r] = "renew" /\ Save(l, r)
      /\ tokens' = tokens \cup {Token(l, r)} /\ Return(r, "attached", at[r])
      /\ regressed' = regressed \cup {t \in tokens : t.lease = l /\ t.at > at[r]}
  BY DEF Renew
<1>3. /\ node[r] \in Nodes /\ at[r] \in Nat /\ tok[r] \in tokens /\ tok[r].by = w
      /\ at[r] <= LastMoment(r)
  BY <1>1, <1>2 DEF Underway, Presented, ReattachSteps, RequestTypes
<1>4. l \in Creates
  BY <1>3 DEF LeaseInv, DataTypes, Claims
<1>5. regressed \subseteq regressed'
  BY <1>2
<1>6. /\ \A t \in tokens : t.lease = l /\ t \notin regressed' => t.at <= at[r]
      /\ \A t \in tokens : t.lease = l => t.by = w
  <2>1. ASSUME NEW t \in tokens, t.lease = l, t \notin regressed'  PROVE t.at <= at[r]
    <3>1. ~(t.at > at[r])
      BY <1>2, <2>1
    <3>2. t.at \in Nat
      BY DEF LeaseInv, DataTypes, Claims
    <3> QED  BY <1>3, <3>1, <3>2
  <2>2. ASSUME NEW t \in tokens, t.lease = l  PROVE t.by = w
    BY <1>3, <2>2 DEF LeaseInv, StoreInv, OneHome
  <2> QED  BY <2>1, <2>2
<1>7. ClaimsNearClock' /\ tokens' \in SUBSET Claims /\ StoreInv'
  <2> HIDE DEF l
  <2>1. ClaimsNearClock' /\ tokens' \in SUBSET Claims
    BY <1>1, <1>2, <1>3, <1>4, TokenGivenOut
  <2>2. StoreInv'
    BY <1>1, <1>2, <1>3, <1>4, <1>5, <1>6, StoresServe
  <2> QED  BY <2>1, <2>2
<1>8. RequestTypes' /\ Others(r)
  BY <1>1, <1>2, <1>3 DEF RequestTypes, Others, Return, Set, Goto
<1>9. pc'[r] = "returned" /\ result'[r] = "attached" /\ decided'[r] = at[r] /\ at'[r] = 0
  BY <1>1, <1>2 DEF RequestTypes, Return, Set, Goto
<1>10. Underway(r)'
  BY <1>1, <1>2, <1>9 DEF Underway, CreateSteps, ReattachSteps
<1>11. Presented(r)' /\ Justified(r)'
  BY <1>2, <1>3, <1>9 DEF Presented, Justified, TurnedAway, LastMoment
<1>12. Unissued'
  <2> SUFFICES ASSUME NEW c \in Creates, pc'[c] \in {"idle"} \cup CreateSteps, NEW t \in tokens'
               PROVE  t.lease # c
    BY DEF Unissued
  <2>1. pc[c] \in {"idle"} \cup CreateSteps
    BY <1>1, <1>8 DEF Others, Requests
  <2>2. \A u \in tokens : u.lease # c
    BY <2>1 DEF LeaseInv, Unissued
  <2>3. Token(l, r).lease = l
    BY <1>1, <1>3, <1>4, TokenClaims
  <2> QED  BY <1>2, <1>3, <2>2, <2>3
<1>13. RequestInv'
  <2>1. now' \in Nat /\ now <= now' /\ tokens \subseteq tokens'
    BY <1>1, <1>2
  <2> QED  BY <1>1, <1>5, <1>8, <1>10, <1>11, <2>1, OtherRequests DEF LeaseInv
<1> QED  BY <1>1, <1>2, <1>7, <1>8, <1>12, <1>13 DEF LeaseInv, DataTypes

-----------------------------------------------------------------------------
(* The theorems.                                                           *)

\* Time passes: nothing that was in the past comes to lie in the future, and what
\* Redis deletes has run out.
LEMMA TickKeeps ==
  ASSUME LeaseInv, Tick
  PROVE  LeaseInv'
<1>1. /\ now \in Nat /\ now' = now + 1
      /\ UNCHANGED <<cache, tokens, pc, node, at, tok, result, decided, regressed>>
  BY DEF LeaseInv, DataTypes, Tick, reqVars
<1>2. now' \in Nat /\ \A i \in Int : i <= now => i <= now'
  BY <1>1
<1>3. DataTypes' /\ RequestTypes' /\ Unissued'
  BY <1>1, <1>2 DEF LeaseInv, DataTypes, RequestTypes, Unissued
<1>4. ClaimsNearClock'
  BY <1>1, <1>2 DEF LeaseInv, DataTypes, Claims, ClaimsNearClock
<1>5. StoreInv'
  <2>1. /\ StoresKeep(store', tokens \ regressed, now')
        /\ \A s \in Stores, l \in Creates : store'[s][l] = store[s][l] \/ store'[s][l] = None
    BY ExpiryKeeps DEF LeaseInv
  <2>2. OneHome' /\ Homed(store)'
    BY <1>1, <2>1 DEF LeaseInv, StoreInv, OneHome, Homed
  <2> QED  BY <1>1, <2>1, <2>2 DEF StoreInv
<1>6. RequestInv'
  <2>1. ASSUME NEW r \in Requests  PROVE Underway(r)'
    BY <1>1, <1>2 DEF LeaseInv, RequestInv, RequestTypes, Underway
  <2>2. ASSUME NEW r \in Reattaches  PROVE Presented(r)' /\ Justified(r)'
    BY <1>1 DEF LeaseInv, RequestInv, Presented, Justified, TurnedAway, LastMoment
  <2> QED  BY <2>1, <2>2 DEF RequestInv
<1> QED  BY <1>3, <1>4, <1>5, <1>6 DEF LeaseInv

\* Before any request there are no leases and no tokens.
LEMMA LeaseInit ==
  Init => LeaseInv
<1> SUFFICES ASSUME Init  PROVE LeaseInv
  OBVIOUS
<1>1. DataTypes
  <2>1. [st |-> "none", tok |-> None, expires |-> 0] \in CacheEntry
    BY DEF CacheEntry
  <2> QED  BY <2>1 DEF Init, DataTypes
<1>2. RequestTypes
  BY DEF Init, RequestTypes
<1>3. ClaimsNearClock /\ StoreInv
  BY DEF Init, ClaimsNearClock, StoreInv, StoresKeep, Lasts, OneHome, Homed
<1>4. Unissued
  BY DEF Init, Unissued
<1>5. RequestInv
  BY DEF Init, RequestInv, Underway, Presented, Justified, TurnedAway, Requests, CreateSteps, ReattachSteps
<1> QED  BY <1>1, <1>2, <1>3, <1>4, <1>5 DEF LeaseInv

\* Every step of the lease service and its two endpoints keeps the invariant.
LEMMA LeaseStep ==
  LeaseInv /\ [Next]_vars => LeaseInv'
<1> SUFFICES ASSUME LeaseInv, [Next]_vars  PROVE LeaseInv'
  OBVIOUS
<1>1. CASE Tick
  BY <1>1, TickKeeps
<1>2. ASSUME NEW r \in Creates, CreateBegin(r) \/ Replay(r) \/ Produce(r) \/ IssueFails(r)
      PROVE  LeaseInv'
  BY <1>2, CreateStepsKeep, RequestStepKeeps DEF Requests
<1>3. ASSUME NEW r \in Creates, issueSession(r)  PROVE LeaseInv'
  BY <1>3, IssueKeeps
<1>4. ASSUME NEW r \in Reattaches, ReattachBegin(r)  PROVE LeaseInv'
  BY <1>4, ReattachBeginKeeps, RequestStepKeeps DEF Requests
<1>5. ASSUME NEW r \in Reattaches, GetLease(r) \/ StoreFails(r)  PROVE LeaseInv'
  BY <1>5, ReattachStepsKeep, RequestStepKeeps DEF Requests
<1>6. ASSUME NEW r \in Reattaches, Renew(r)  PROVE LeaseInv'
  BY <1>6, RenewKeeps
<1>7. CASE UNCHANGED vars
  <2>1. StoreInv'
    BY <1>7, SameStores DEF vars, LeaseInv
  <2> QED  BY <1>7, <2>1 DEF vars, LeaseInv, DataTypes, RequestTypes, ClaimsNearClock, Unissued,
             RequestInv, Underway, Presented, Justified, TurnedAway, LastMoment
<1> QED  BY <1>1, <1>2, <1>3, <1>4, <1>5, <1>6, <1>7 DEF Next

\* The invariant holds of every behaviour of the lease service.
THEOREM LeaseInvariant == Spec => []LeaseInv
  BY LeaseInit, LeaseStep, PTL DEF Spec

\* Reattach turns no client away before its lease has run out, if the skew covers
\* the drift of the clocks and the second that a token may lose: no node finds
\* the lease expired, no node with its store misses it, unless a slower reattach
\* has taken back the token's time.
THEOREM ReattachIsNotRefusedEarly == Spec => []NoFalseRejection
<1>1. LeaseInv => NoFalseRejection
  BY DEF LeaseInv, RequestInv, Justified, TurnedAway, NoFalseRejection
<1> QED  BY <1>1, LeaseInvariant, PTL

\* Reattach accepts no token later than the skew and the drift allow, though the
\* lease itself may live on.
THEOREM ReattachIsNotAcceptedLate == Spec => []NoLateAcceptance
<1>1. LeaseInv => NoLateAcceptance
  BY DEF LeaseInv, RequestInv, Presented, LastMoment, NoLateAcceptance
<1> QED  BY <1>1, LeaseInvariant, PTL

\* gcLocked and the Redis time to live delete no lease while a token of it has
\* time left, unless a slower reattach has taken that time back.
THEOREM LeasesOutliveTokens == Spec => []LeaseOutlivesToken
<1>1. LeaseInv => LeaseOutlivesToken
  BY DEF LeaseInv, StoreInv, StoresKeep, LeaseOutlivesToken
<1> QED  BY <1>1, LeaseInvariant, PTL
=============================================================================
