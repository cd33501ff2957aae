-------------------------- MODULE LiveStreamProofs --------------------------
(***************************************************************************)
(* Reference counting and delivery of a live stream, for any packets,      *)
(* frames, buffer sizes and finite set of subscribers.                     *)
(***************************************************************************)
EXTENDS LiveStream, SequenceTheorems, FunctionTheorems, FiniteSetTheorems, TLAPS

\* What the publisher, the pump and the run goroutines hold, by where they are.
Shapes ==
  /\ pub.pc = "idle" <=> pub.pkt = NoPacket
  /\ pump.pc = "fan" => pump.pkt \in Packets
  /\ pump.pc # "fan" => pump.pkt = NoPacket /\ pump.todo = {} /\ pump.cur = NoSub
  /\ \A s \in Subs : run[s] = "write" <=> hand[s] # NoPacket
  /\ \A s \in Subs : owner[s] = "none" => run[s] = "none"

\* Channels and caches keep to their capacities.
Bounds == \A s \in Subs : Len(queue[s]) <= SubBufSize /\ Len(gop[s]) <= GopCacheMax

\* A buffer that was never used has no references.
FreshUnheld == \A p \in Packets : frame[p] = 0 => refs[p] = 0

\* The publisher has its packet to itself until it has sent it.
PubAlone == pub.pkt # NoPacket => refs[pub.pkt] = 1

\* The inductive invariant for the references.
CountInv == TypeOK /\ Shapes /\ Bounds /\ RefsMatchHolders /\ FreshUnheld /\ PubAlone

\* The frames of a sequence of packets become later and later.
Rising(q) == \A i, j \in DOMAIN q : i < j => frame[q[i]] < frame[q[j]]

\* What s has written, is writing and has in its channel is older than frame n.
Before(s, n) ==
  /\ last[s] < n
  /\ hand[s] # NoPacket => frame[hand[s]] < n
  /\ \A i \in DOMAIN queue[s] : frame[queue[s][i]] < n

\* The number of the frame the publisher sends next.
Coming == IF pub.pkt = NoPacket THEN sent + 1 ELSE sent

\* Frames are older the farther they have come: publisher, ingest channel, pump,
\* subscriber's channel, hand, file or connection.
UpstreamInOrder ==
  /\ pub.pkt # NoPacket => frame[pub.pkt] = sent
  /\ Rising(ingest)
  /\ \A i \in DOMAIN ingest : frame[ingest[i]] < Coming
  /\ pump.pkt # NoPacket =>
       frame[pump.pkt] < Coming /\ \A i \in DOMAIN ingest : frame[pump.pkt] < frame[ingest[i]]
DownstreamInOrder(s) ==
  /\ Rising(queue[s])
  /\ \A i \in DOMAIN queue[s] :
       last[s] < frame[queue[s][i]] /\ (hand[s] # NoPacket => frame[hand[s]] < frame[queue[s][i]])
  /\ hand[s] # NoPacket => last[s] < frame[hand[s]]
  /\ Before(s, Coming)
  /\ \A i \in DOMAIN ingest : Before(s, frame[ingest[i]])
  /\ s \in pump.todo => Before(s, frame[pump.pkt])

\* The inductive invariant for the order of the frames.
OrderInv == UpstreamInOrder /\ \A s \in Subs : DownstreamInOrder(s)

\* A viewer that is not there yet, or not any more, is unknown to the stream and
\* to the fan-out that is under way.
Unknown(s) == s \notin Attached /\ s \notin pump.todo
ViewerInv ==
  /\ \A i \in SubIDs : subs[i] # NoSub => ID[subs[i]] = i
  /\ \A s \in LiveSubs : owner[s] \in {"none", "made", "removed", "left"} => Unknown(s)
  /\ \A s \in LiveSubs : owner[s] = "left" => gop[s] = <<>>

-----------------------------------------------------------------------------
(* Counting packets in sequences.                                          *)

\* The positions of a packet in a sequence are finitely many.
LEMMA CountType ==
  ASSUME NEW q \in Seq(Packets), NEW p \in Packets
  PROVE  /\ IsFiniteSet({i \in DOMAIN q : q[i] = p})
         /\ Count(q)[p] = Cardinality({i \in DOMAIN q : q[i] = p})
         /\ Count(q)[p] \in Nat
  <1>1. DOMAIN q = 1 .. Len(q) /\ Len(q) \in Nat
    BY LenProperties
  <1>2. IsFiniteSet(1 .. Len(q))
    BY <1>1, FS_Interval
  <1>3. IsFiniteSet({i \in DOMAIN q : q[i] = p})
    BY <1>1, <1>2, FS_Subset
  <1> QED
    BY <1>3, FS_CardinalityType DEF Count

\* Append adds one occurrence, of the packet appended.
LEMMA CountAppend ==
  ASSUME NEW q \in Seq(Packets), NEW e \in Packets, NEW p \in Packets
  PROVE  Count(Append(q, e))[p] = Count(q)[p] + One(e = p)
  <1> DEFINE A == {i \in DOMAIN q : q[i] = p}
             B == {i \in DOMAIN Append(q, e) : Append(q, e)[i] = p}
             n == Len(q) + 1
  <1>1. /\ DOMAIN q = 1 .. Len(q) /\ Len(q) \in Nat
        /\ Append(q, e) \in Seq(Packets) /\ DOMAIN Append(q, e) = 1 .. n
        /\ \A i \in 1 .. Len(q) : Append(q, e)[i] = q[i]
        /\ Append(q, e)[n] = e
    BY AppendProperties, LenProperties
  <1>2. IsFiniteSet(A) /\ Count(q)[p] = Cardinality(A) /\ Cardinality(A) \in Nat
    BY CountType
  <1>3. Count(Append(q, e))[p] = Cardinality(B)
    BY <1>1, CountType
  <1>4. n \notin A
    BY <1>1
  <1>5. CASE e = p
    <2>1. B = A \cup {n}
      BY <1>1, <1>5
    <2> HIDE DEF A, B, n
    <2> QED
      BY <1>2, <1>3, <1>4, <1>5, <2>1, FS_AddElement DEF One
  <1>6. CASE e # p
    <2>1. B = A
      BY <1>1, <1>6
    <2> HIDE DEF A, B, n
    <2> QED
      BY <1>2, <1>3, <1>6, <2>1 DEF One
  <1> QED
    BY <1>5, <1>6

\* A sequence cut in two has the occurrences of its parts.
LEMMA CountCut ==
  ASSUME NEW q \in Seq(Packets), NEW k \in 0 .. Len(q), NEW p \in Packets
  PROVE  /\ SubSeq(q, 1, k) \in Seq(Packets)
         /\ SubSeq(q, k + 1, Len(q)) \in Seq(Packets)
         /\ Count(q)[p] = Count(SubSeq(q, 1, k))[p] + Count(SubSeq(q, k + 1, Len(q)))[p]
  <1> DEFINE u == SubSeq(q, 1, k)
             v == SubSeq(q, k + 1, Len(q))
             A == {i \in DOMAIN u : u[i] = p}
             B == {i \in DOMAIN v : v[i] = p}
             C == {i \in (k + 1) .. Len(q) : q[i] = p}
             Q == {i \in DOMAIN q : q[i] = p}
  <1>1. DOMAIN q = 1 .. Len(q) /\ Len(q) \in Nat /\ \A i \in 1 .. Len(q) : q[i] \in Packets
    BY LenProperties, ElementOfSeq
  <1>2. k \in Nat /\ Len(q) \in Nat /\ k <= Len(q)
    BY <1>1
  <1>3. /\ u \in Seq(Packets) /\ Len(u) = k
        /\ \A i \in 1 .. k : u[i] = q[i]
    <2>1. \A i \in 1 .. k : q[i] \in Packets
      BY <1>1, <1>2
    <2>2. /\ u \in Seq(Packets)
          /\ Len(u) = IF 1 <= k THEN k - 1 + 1 ELSE 0
          /\ \A i \in 1 .. (k - 1 + 1) : u[i] = q[1 + i - 1]
      BY <1>2, <2>1, SubSeqProperties
    <2> HIDE DEF u
    <2> QED
      BY <1>2, <2>2
  <1>4. /\ v \in Seq(Packets) /\ Len(v) = Len(q) - k
        /\ \A i \in 1 .. (Len(q) - k) : v[i] = q[k + i]
    <2>1. \A i \in (k + 1) .. Len(q) : q[i] \in Packets
      BY <1>1, <1>2
    <2>2. /\ v \in Seq(Packets)
          /\ Len(v) = IF k + 1 <= Len(q) THEN Len(q) - (k + 1) + 1 ELSE 0
          /\ \A i \in 1 .. (Len(q) - (k + 1) + 1) : v[i] = q[(k + 1) + i - 1]
      BY <1>1, <1>2, <2>1, SubSeqProperties
    <2> HIDE DEF v
    <2>3. Len(q) - (k + 1) + 1 = Len(q) - k /\ \A i \in Int : (k + 1) + i - 1 = k + i
      BY <1>1, <1>2
    <2>4. Len(v) = Len(q) - k
      <3>1. CASE k = Len(q)
        <4>1. ~(k + 1 <= Len(q)) /\ Len(q) - k = 0
          BY <1>1, <3>1
        <4> QED
          BY <2>2, <4>1
      <3>2. CASE k < Len(q)
        <4>1. k + 1 <= Len(q)
          BY <1>1, <1>2, <3>2
        <4> QED
          BY <2>2, <2>3, <4>1
      <3>3. k = Len(q) \/ k < Len(q)
        BY <1>2, SMTT(30)
      <3> QED
        BY <3>1, <3>2, <3>3
    <2>5. ASSUME NEW i \in 1 .. (Len(q) - k)
          PROVE  v[i] = q[k + i]
      <3>1. i \in 1 .. (Len(q) - (k + 1) + 1) /\ i \in Int
        BY <2>3
      <3> QED
        BY <2>2, <2>3, <3>1
    <2> QED
      BY <2>2, <2>4, <2>5
  <1>5. DOMAIN u = 1 .. k /\ DOMAIN v = 1 .. (Len(q) - k)
    BY <1>3, <1>4, LenProperties
  <1> HIDE DEF u, v
  <1>6. Q = A \cup C /\ A \cap C = {}
    BY <1>1, <1>2, <1>3, <1>5
  <1>7. IsFiniteSet(A) /\ IsFiniteSet(B) /\ IsFiniteSet(Q)
    BY <1>3, <1>4, CountType
  <1>8. IsFiniteSet(C) /\ Cardinality(C) = Cardinality(B)
    <2> DEFINE f == [i \in B |-> i + k]
    <2>1. f \in [B -> C]
      BY <1>1, <1>2, <1>4, <1>5
    <2>2. \A i, j \in B : f[i] = f[j] => i = j
      BY <1>2, <1>5
    <2>3. \A c \in C : \E i \in B : f[i] = c
      <3> TAKE c \in C
      <3>1. c - k \in B
        BY <1>1, <1>2, <1>4, <1>5
      <3> QED
        BY <1>1, <1>2, <3>1
    <2>4. f \in Bijection(B, C)
      BY <2>1, <2>2, <2>3 DEF Bijection, Injection, Surjection, IsInjective
    <2> HIDE DEF B, C
    <2> QED
      BY <1>7, <2>4, FS_Bijection DEF ExistsBijection
  <1>9. Cardinality(Q) = Cardinality(A) + Cardinality(B)
    <2> HIDE DEF A, B, C, Q
    <2>1. Cardinality(A \cup C) = Cardinality(A) + Cardinality(C) - Cardinality({})
      BY <1>6, <1>7, <1>8, FS_Union
    <2> QED
      BY <1>6, <1>7, <1>8, <2>1, FS_EmptySet, FS_CardinalityType
  <1>10. /\ Count(u)[p] = Cardinality(A) /\ Count(v)[p] = Cardinality(B)
         /\ Count(q)[p] = Cardinality(Q)
    BY <1>3, <1>4, CountType
  <1> QED
    BY <1>3, <1>4, <1>9, <1>10 DEF u, v

\* A sequence of one packet has one occurrence, of that packet; the empty one none.
LEMMA CountOne ==
  ASSUME NEW u \in Seq(Packets), Len(u) = 1, NEW p \in Packets
  PROVE  Count(u)[p] = One(u[1] = p)
  <1> DEFINE A == {i \in DOMAIN u : u[i] = p}
  <1>1. DOMAIN u = {1}
    BY LenProperties
  <1>2. Count(u)[p] = Cardinality(A)
    BY CountType
  <1>3. A = IF u[1] = p THEN {1} ELSE {}
    BY <1>1
  <1> HIDE DEF A
  <1> QED
    BY <1>2, <1>3, FS_EmptySet, FS_Singleton DEF One

\* The empty queue holds no reference.
LEMMA CountNothing == ASSUME NEW p \in Packets PROVE Count(<<>>)[p] = 0
  <1>1. {i \in DOMAIN <<>> : <<>>[i] = p} = {}
    OBVIOUS
  <1> QED
    BY <1>1, FS_EmptySet DEF Count

\* Tail takes one occurrence away, of the head.
LEMMA CountTail ==
  ASSUME NEW q \in Seq(Packets), q # <<>>, NEW p \in Packets
  PROVE  Count(Tail(q))[p] = Count(q)[p] - One(Head(q) = p)
  <1> DEFINE u == SubSeq(q, 1, 1)
  <1>1. Len(q) \in Nat \ {0} /\ Head(q) = q[1] /\ q[1] \in Packets
    BY EmptySeq, HeadTailProperties
  <1>2. Tail(q) = SubSeq(q, 1 + 1, Len(q)) /\ Tail(q) \in Seq(Packets)
    BY TailIsSubSeq, HeadTailProperties
  <1>3. 1 \in 0 .. Len(q)
    BY <1>1
  <1>4. u \in Seq(Packets) /\ Count(q)[p] = Count(u)[p] + Count(Tail(q))[p]
    BY <1>2, <1>3, CountCut
  <1>5. Len(u) = 1 /\ u[1] = Head(q)
    <2>1. \A i \in 1 .. 1 : q[i] \in Packets
      BY <1>1
    <2>2. Len(u) = (IF 1 <= 1 THEN 1 - 1 + 1 ELSE 0) /\ \A i \in 1 .. (1 - 1 + 1) : u[i] = q[1 + i - 1]
      BY <2>1, SubSeqProperties
    <2> HIDE DEF u
    <2> QED
      BY <1>1, <2>2
  <1> HIDE DEF u
  <1>6. Count(u)[p] = One(Head(q) = p)
    BY <1>4, <1>5, CountOne
  <1>7. Count(u)[p] \in Nat /\ Count(Tail(q))[p] \in Nat /\ Count(q)[p] \in Nat
    BY <1>2, <1>4, CountType
  <1> QED
    BY <1>4, <1>6, <1>7

-----------------------------------------------------------------------------
(* Counting packets in the channels and caches of subscribers.             *)

\* A packet is in finitely many places.
LEMMA PlacesFinite ==
  ASSUME NEW S, IsFiniteSet(S), NEW f, NEW n \in Nat, NEW p
  PROVE  IsFiniteSet(Places(f, S, n, p)) /\ Cardinality(Places(f, S, n, p)) \in Nat
  <1>1. IsFiniteSet(1 .. n)
    BY FS_Interval
  <1>2. IsFiniteSet(S \X (1 .. n))
    BY <1>1, FS_Product
  <1>3. Places(f, S, n, p) \in SUBSET (S \X (1 .. n))
    BY DEF Places
  <1> QED
    BY <1>2, <1>3, FS_Subset, FS_CardinalityType

\* The places of some subscribers and those of the others are all places.
LEMMA PlacesSplit ==
  ASSUME NEW S, IsFiniteSet(S), NEW T \in SUBSET S, NEW f, NEW n \in Nat, NEW p
  PROVE  Cardinality(Places(f, S, n, p)) =
           Cardinality(Places(f, T, n, p)) + Cardinality(Places(f, S \ T, n, p))
  <1> DEFINE A == Places(f, T, n, p)
             B == Places(f, S \ T, n, p)
  <1>1. IsFiniteSet(T) /\ IsFiniteSet(S \ T)
    BY FS_Subset
  <1>2. Places(f, S, n, p) = A \cup B /\ A \cap B = {}
    BY DEF Places
  <1>3. IsFiniteSet(A) /\ IsFiniteSet(B) /\ Cardinality(A) \in Nat /\ Cardinality(B) \in Nat
    BY <1>1, PlacesFinite
  <1> HIDE DEF A, B
  <1>4. Cardinality(A \cup B) = Cardinality(A) + Cardinality(B) - Cardinality({})
    BY <1>2, <1>3, FS_Union
  <1> QED
    BY <1>2, <1>3, <1>4, FS_EmptySet DEF A, B

\* The places of one subscriber are the occurrences in its sequence.
LEMMA PlacesOfOne ==
  ASSUME NEW s, NEW f, f[s] \in Seq(Packets), NEW n \in Nat, Len(f[s]) <= n, NEW p \in Packets
  PROVE  Cardinality(Places(f, {s}, n, p)) = Count(f[s])[p]
  <1> DEFINE A == {i \in DOMAIN f[s] : f[s][i] = p}
             B == Places(f, {s}, n, p)
             g == [i \in A |-> <<s, i>>]
  <1>1. DOMAIN f[s] = 1 .. Len(f[s]) /\ Len(f[s]) \in Nat
    BY LenProperties
  <1>2. IsFiniteSet(A) /\ Count(f[s])[p] = Cardinality(A)
    BY CountType
  <1>3. B = {<<s, i>> : i \in A}
    BY <1>1 DEF Places
  <1>4. g \in [A -> B] /\ (\A i, j \in A : g[i] = g[j] => i = j) /\ \A b \in B : \E i \in A : g[i] = b
    BY <1>3
  <1> HIDE DEF A, B, g
  <1>5. ExistsBijection(A, B)
    <2>1. g \in Bijection(A, B)
      BY <1>4, Fun_IsBij
    <2> QED
      BY <2>1 DEF ExistsBijection
  <1>6. Cardinality(B) = Cardinality(A)
    BY <1>2, <1>5, FS_Bijection
  <1> QED
    BY <1>2, <1>6 DEF B

\* Changing the sequence of one subscriber changes the count by what it gained
\* and lost.
LEMMA PlacesUpdate ==
  ASSUME NEW f \in [Subs -> Seq(Packets)], NEW s \in Subs, NEW v \in Seq(Packets),
         NEW n \in Nat, Len(f[s]) <= n, Len(v) <= n, NEW p \in Packets
  PROVE  Cardinality(Places([f EXCEPT ![s] = v], Subs, n, p)) =
           Cardinality(Places(f, Subs, n, p)) - Count(f[s])[p] + Count(v)[p]
  <1> DEFINE g == [f EXCEPT ![s] = v]
  <1>1. IsFiniteSet(Subs) /\ {s} \in SUBSET Subs /\ IsFiniteSet(Subs \ {s})
    BY LiveStreamAssumption, FS_Subset
  <1>2. g[s] = v /\ \A x \in Subs \ {s} : g[x] = f[x]
    OBVIOUS
  <1>3. Places(g, Subs \ {s}, n, p) = Places(f, Subs \ {s}, n, p)
    BY <1>2 DEF Places
  <1>4. f[s] \in Seq(Packets)
    OBVIOUS
  <1> HIDE DEF g
  <1>5. Cardinality(Places(f, {s}, n, p)) = Count(f[s])[p]
    BY <1>4, PlacesOfOne
  <1>6. Cardinality(Places(g, {s}, n, p)) = Count(v)[p]
    BY <1>2, PlacesOfOne
  <1>7. ASSUME NEW h
        PROVE  Cardinality(Places(h, Subs, n, p)) =
                 Cardinality(Places(h, {s}, n, p)) + Cardinality(Places(h, Subs \ {s}, n, p))
    BY <1>1, PlacesSplit
  <1>8. /\ Cardinality(Places(f, Subs, n, p)) = Count(f[s])[p] + Cardinality(Places(f, Subs \ {s}, n, p))
        /\ Cardinality(Places(g, Subs, n, p)) = Count(v)[p] + Cardinality(Places(f, Subs \ {s}, n, p))
    BY <1>3, <1>5, <1>6, <1>7
  <1>9. /\ Count(f[s])[p] \in Nat /\ Count(v)[p] \in Nat
        /\ Cardinality(Places(f, Subs \ {s}, n, p)) \in Nat
    BY <1>1, <1>4, CountType, PlacesFinite
  <1> QED
    BY <1>8, <1>9 DEF g

\* Emptying the sequences of some subscribers takes their places away.
LEMMA PlacesCleared ==
  ASSUME NEW f \in [Subs -> Seq(Packets)], NEW T \in SUBSET Subs, NEW n \in Nat, NEW p \in Packets,
         NEW g, g = [s \in Subs |-> IF s \in T THEN <<>> ELSE f[s]]
  PROVE  Cardinality(Places(g, Subs, n, p)) =
           Cardinality(Places(f, Subs, n, p)) - Cardinality(Places(f, T, n, p))
  <1>1. IsFiniteSet(Subs) /\ IsFiniteSet(T) /\ IsFiniteSet(Subs \ T)
    BY LiveStreamAssumption, FS_Subset
  <1>2. \A s \in T : DOMAIN g[s] = {}
    OBVIOUS
  <1>3. \A s \in Subs \ T : g[s] = f[s]
    OBVIOUS
  <1>4. Places(g, Subs, n, p) = Places(f, Subs \ T, n, p)
    BY <1>2, <1>3 DEF Places
  <1>5. Cardinality(Places(f, Subs, n, p)) =
          Cardinality(Places(f, T, n, p)) + Cardinality(Places(f, Subs \ T, n, p))
    BY <1>1, PlacesSplit
  <1>6. Cardinality(Places(f, T, n, p)) \in Nat /\ Cardinality(Places(f, Subs \ T, n, p)) \in Nat
    BY <1>1, PlacesFinite
  <1> QED
    BY <1>4, <1>5, <1>6

-----------------------------------------------------------------------------
(* Retain, Release and the group-of-pictures cache.                        *)

\* How often packets occur in a sequence of packets is a number for each.
LEMMA CountFun ==
  ASSUME NEW q \in Seq(Packets)
  PROVE  Count(q) \in [Packets -> Nat]
  <1>1. \A p \in Packets : Cardinality({i \in DOMAIN q : q[i] = p}) \in Nat
    BY CountType, FS_CardinalityType
  <1> QED
    BY <1>1 DEF Count

\* A single reference.
LEMMA CountSingle ==
  ASSUME NEW e \in Packets
  PROVE  /\ Count(<<e>>) \in [Packets -> Nat]
         /\ \A p \in Packets : Count(<<e>>)[p] = One(e = p)
  <1>1. <<e>> \in Seq(Packets) /\ Len(<<e>>) = 1 /\ <<e>>[1] = e
    OBVIOUS
  <1> QED
    BY <1>1, CountFun, CountOne

\* Two references to one packet.
LEMMA CountDouble ==
  ASSUME NEW e \in Packets
  PROVE  /\ Count(<<e, e>>) \in [Packets -> Nat]
         /\ \A p \in Packets : Count(<<e, e>>)[p] = One(e = p) + One(e = p)
  <1> DEFINE u == <<e>>
             v == <<e, e>>
  <1>1. u \in Seq(Packets) /\ Len(u) = 1 /\ u[1] = e
    OBVIOUS
  <1>2. v \in Seq(Packets) /\ Len(v) = 2 /\ v[1] = e /\ v[2] = e
    OBVIOUS
  <1> HIDE DEF u, v
  <1>3. /\ Append(u, e) \in Seq(Packets) /\ Len(Append(u, e)) = 2
        /\ Append(u, e)[1] = e /\ Append(u, e)[2] = e
    <2>1. Append(u, e)[Len(u) + 1] = e /\ Len(Append(u, e)) = Len(u) + 1
      BY <1>1, AppendProperties, ZenonT(60)
    <2> QED
      BY <1>1, <2>1, AppendProperties
  <1>4. Append(u, e) = v
    BY <1>2, <1>3, SeqEqual
  <1>5. \A p \in Packets : Count(v)[p] = Count(u)[p] + One(e = p)
    BY <1>1, <1>4, CountAppend, ZenonT(60) DEF One
  <1>6. \A p \in Packets : Count(u)[p] = One(e = p)
    BY <1>1, CountOne
  <1> QED
    BY <1>2, <1>5, <1>6, CountFun DEF v, One

\* No reference.
LEMMA NothingZero ==
  /\ Nothing \in [Packets -> Nat]
  /\ \A p \in Packets : Nothing[p] = 0
  <1>1. <<>> \in Seq(Packets)
    OBVIOUS
  <1> QED
    BY <1>1, CountFun, CountNothing DEF Nothing

\* What the caches of some subscribers hold.
LEMMA CachedFun ==
  ASSUME NEW S \in SUBSET Subs
  PROVE  /\ Cached(S) \in [Packets -> Nat]
         /\ \A p \in Packets : Cached(S)[p] = Cardinality(Places(gop, S, GopCacheMax, p))
  <1>1. IsFiniteSet(S) /\ GopCacheMax \in Nat
    BY LiveStreamAssumption, FS_Subset
  <1>2. \A p \in Packets : Cardinality(Places(gop, S, GopCacheMax, p)) \in Nat
    BY <1>1, PlacesFinite
  <1> QED
    BY <1>2 DEF Cached

\* updateGOP: the cache keeps within its limit, and what it held, with the new
\* packet, is what it holds and what it has let go.
LEMMA GopUpdate ==
  ASSUME NEW s \in Subs, NEW e \in Packets, gop[s] \in Seq(Packets), Len(gop[s]) <= GopCacheMax
  PROVE  /\ NextGop(s, e) \in Seq(Packets) /\ Len(NextGop(s, e)) <= GopCacheMax
         /\ GopDropped(s, e) \in Seq(Packets)
         /\ \A p \in Packets :
              Count(NextGop(s, e))[p] = Count(gop[s])[p] + One(e = p) - Count(GopDropped(s, e))[p]
  <1> DEFINE k == GopKept(s, e)
             c == GopCut(s, e)
             g == Append(k, e)
             m == Len(g)
  <1>1. k \in Seq(Packets) /\ Len(k) \in Nat /\ Len(k) <= GopCacheMax /\ GopCacheMax \in Nat \ {0}
    BY LiveStreamAssumption DEF GopKept
  <1>2. c = IF Len(k) + 1 - GopCacheMax > 0 THEN Len(k) + 1 - GopCacheMax ELSE 0
    BY DEF GopCut
  <1>3. c \in Nat /\ c <= Len(k) /\ Len(k) + 1 - c <= GopCacheMax
    <2> HIDE DEF k, c
    <2> QED
      BY <1>1, <1>2
  <1>4. g \in Seq(Packets) /\ m = Len(k) + 1 /\ \A i \in 1 .. Len(k) : g[i] = k[i]
    <2> HIDE DEF k
    <2> QED
      BY <1>1, AppendProperties
  <1>5. NextGop(s, e) = SubSeq(g, c + 1, m)
    BY DEF NextGop
  <1> HIDE DEF k, c, g, m
  <1>6. c \in 0 .. m /\ c \in 0 .. Len(k)
    BY <1>1, <1>3, <1>4
  <1>7. /\ NextGop(s, e) \in Seq(Packets) /\ SubSeq(g, 1, c) \in Seq(Packets)
        /\ \A p \in Packets : Count(g)[p] = Count(SubSeq(g, 1, c))[p] + Count(NextGop(s, e))[p]
    BY <1>4, <1>5, <1>6, CountCut DEF m
  <1>8. Len(NextGop(s, e)) <= GopCacheMax
    BY <1>1, <1>3, <1>4, <1>5, <1>7
  <1>9. \A p \in Packets : Count(g)[p] = Count(k)[p] + One(e = p)
    BY <1>1, CountAppend DEF g
  <1>10. SubSeq(g, 1, c) = SubSeq(k, 1, c)
    BY <1>1, <1>3, <1>4
  <1>11. CASE IsKeyframe(frame[e])
    <2>1. k = <<>> /\ Len(k) = 0 /\ c = 0 /\ GopDropped(s, e) = gop[s]
      BY <1>3, <1>11 DEF k, GopKept, GopDropped
    <2>2. SubSeq(g, 1, c) = <<>>
      BY <2>1, SubSeqEmpty
    <2>3. \A p \in Packets : Count(k)[p] = 0 /\ Count(SubSeq(g, 1, c))[p] = 0
      BY <2>1, <2>2, CountNothing
    <2>4. ASSUME NEW p \in Packets
          PROVE  Count(NextGop(s, e))[p] = Count(gop[s])[p] + One(e = p) - Count(GopDropped(s, e))[p]
      <3>1. /\ Count(NextGop(s, e))[p] \in Nat /\ Count(gop[s])[p] \in Nat
            /\ One(e = p) \in Nat
        BY <1>7, CountType DEF One
      <3> QED
        BY <1>7, <1>9, <2>1, <2>3, <3>1
    <2> QED
      BY <1>7, <1>8, <2>1, <2>4
  <1>12. CASE ~IsKeyframe(frame[e])
    <2>1. k = gop[s] /\ GopDropped(s, e) = SubSeq(k, 1, c)
      BY <1>12 DEF k, c, GopKept, GopDropped
    <2>2. ASSUME NEW p \in Packets
          PROVE  Count(NextGop(s, e))[p] = Count(gop[s])[p] + One(e = p) - Count(GopDropped(s, e))[p]
      <3>1. GopDropped(s, e) = SubSeq(g, 1, c)
        BY <1>10, <2>1
      <3>2. Count(g)[p] = Count(GopDropped(s, e))[p] + Count(NextGop(s, e))[p]
        BY <1>7, <3>1
      <3>3. Count(g)[p] = Count(gop[s])[p] + One(e = p)
        BY <1>9, <2>1
      <3>4. /\ Count(NextGop(s, e))[p] \in Nat /\ Count(gop[s])[p] \in Nat
            /\ Count(GopDropped(s, e))[p] \in Nat /\ One(e = p) \in Nat
        BY <1>7, <3>1, CountType DEF One
      <3> QED
        BY <3>2, <3>3, <3>4 DEF One
    <2> QED
      BY <1>7, <1>8, <1>10, <2>1, <2>2
  <1> QED
    BY <1>11, <1>12

-----------------------------------------------------------------------------
(* Types.                                                                  *)

\* Retain and Release keep the types of counts and pool.
LEMMA RetainReleaseType ==
  ASSUME PacketTypes, NEW inc \in [Packets -> Nat], NEW dec \in [Packets -> Nat], RetainRelease(inc, dec)
  PROVE  refs' \in [Packets -> Int] /\ pool' \subseteq Packets
  <1>1. refs' \in [Packets -> Int]
    BY DEF PacketTypes, RetainRelease
  <1>2. pool' \subseteq Packets
    BY DEF PacketTypes, RetainRelease
  <1> QED
    BY <1>1, <1>2

\* The same for one Retain or one Release.
LEMMA RetainType ==
  ASSUME PacketTypes, NEW e \in Packets, Retain(e) \/ Release(e)
  PROVE  refs' \in [Packets -> Int] /\ pool' \subseteq Packets
  BY CountSingle, NothingZero, RetainReleaseType DEF Retain, Release

\* Close of subscribers empties caches and closes channels.
LEMMA CloseType ==
  ASSUME PacketTypes, SubscriberTypes, Bounds, NEW S \in SUBSET Subs, CloseSubscribers(S)
  PROVE  /\ refs' \in [Packets -> Int] /\ pool' \subseteq Packets
         /\ gop' \in [Subs -> Seq(Packets)] /\ sdone' \in [Subs -> BOOLEAN]
         /\ \A s \in Subs : Len(gop'[s]) <= GopCacheMax
  <1>1. refs' \in [Packets -> Int] /\ pool' \subseteq Packets
    BY CachedFun, NothingZero, RetainReleaseType DEF CloseSubscribers
  <1>2. gop' \in [Subs -> Seq(Packets)]
    BY DEF CloseSubscribers, SubscriberTypes
  <1>3. sdone' \in [Subs -> BOOLEAN]
    BY DEF CloseSubscribers, SubscriberTypes
  <1>4. ASSUME NEW s \in Subs PROVE Len(gop'[s]) <= GopCacheMax
    BY LiveStreamAssumption DEF CloseSubscribers, SubscriberTypes, Bounds
  <1> QED
    BY <1>1, <1>2, <1>3, <1>4

\* What a viewer saw first is a frame number.
LEMMA ShownType ==
  ASSUME SubscriberTypes, NEW s \in Subs, NEW n \in 0..Len(Frames)
  PROVE  Shown(s, n) \in [Subs -> 0..Len(Frames)]
  BY DEF Shown, SubscriberTypes

\* The part of the invariant that knows no counts.
TypeInv == TypeOK /\ Shapes /\ Bounds

\* Every step keeps the types, the capacities and what each goroutine holds.
LEMMA NextType == TypeInv /\ [Next]_vars => TypeInv'
  <1> SUFFICES ASSUME PacketTypes, StreamTypes, SubscriberTypes, Shapes, Bounds, [Next]_vars
               PROVE  (PacketTypes /\ StreamTypes /\ SubscriberTypes /\ Shapes /\ Bounds)'
    BY DEF TypeInv, TypeOK
  <1> USE LiveStreamAssumption
  <1>1. CASE BuildPacket
    <2>1. PICK p \in Packets :
            /\ refs' = [refs EXCEPT ![p] = 1] /\ pool' = pool \ {p}
            /\ frame' = [frame EXCEPT ![p] = sent + 1]
            /\ \E fits \in BOOLEAN : stale' = [stale EXCEPT ![p] = ~IsVideo(sent + 1) \/ (fits /\ @)]
            /\ pub' = [pc |-> "check", pkt |-> p]
      BY <1>1 DEF BuildPacket, Allocatable, PacketTypes
    <2>2. sent + 1 \in 0 .. Len(Frames)
      BY <1>1, LenProperties DEF BuildPacket, StreamTypes
    <2>3. stale' \in [Packets -> BOOLEAN]
      BY <2>1 DEF PacketTypes
    <2>4. PacketTypes'
      BY <1>1, <2>1, <2>2, <2>3 DEF BuildPacket, PacketTypes, pktVars
    <2>5. StreamTypes'
      BY <1>1, <2>1, <2>2 DEF BuildPacket, StreamTypes
    <2>6. SubscriberTypes'
      BY <1>1 DEF BuildPacket, SubscriberTypes, subVars
    <2>7. Shapes' /\ Bounds'
      BY <1>1, <2>1 DEF BuildPacket, Shapes, Bounds, StreamTypes, SubscriberTypes, subVars
    <2> QED
      BY <2>4, <2>5, <2>6, <2>7
  <1>2. CASE IngestCheck
    <2>1. pub.pkt \in Packets
      BY <1>2 DEF IngestCheck, Shapes, StreamTypes
    <2>2. PacketTypes'
      BY <1>2, <2>1 DEF IngestCheck, PubIdle, PacketTypes, pktVars
    <2>3. StreamTypes'
      BY <1>2, SMTT(30) DEF IngestCheck, PubIdle, StreamTypes
    <2>4. SubscriberTypes'
      BY <1>2 DEF IngestCheck, PubIdle, SubscriberTypes, subVars
    <2>5. Shapes' /\ Bounds'
      BY <1>2, <2>1 DEF IngestCheck, PubIdle, Shapes, Bounds, StreamTypes, SubscriberTypes, subVars
    <2> QED
      BY <2>2, <2>3, <2>4, <2>5
  <1>3. CASE IngestSend
    <2>1. pub.pkt \in Packets
      BY <1>3 DEF IngestSend, Shapes, StreamTypes
    <2>2. ingest' \in Seq(Packets)
      <3>1. Append(ingest, pub.pkt) \in Seq(Packets) /\ ingest \in Seq(Packets)
        BY <2>1, AppendProperties DEF StreamTypes
      <3> QED
        BY <1>3, <3>1 DEF IngestSend
    <2>3. PacketTypes'
      BY <1>3, <2>1 DEF IngestSend, PubIdle, PacketTypes, pktVars
    <2>4. StreamTypes'
      BY <1>3, <2>2 DEF IngestSend, PubIdle, StreamTypes
    <2>5. SubscriberTypes'
      BY <1>3 DEF IngestSend, PubIdle, SubscriberTypes, subVars
    <2>6. Shapes' /\ Bounds'
      BY <1>3, <2>1 DEF IngestSend, PubIdle, Shapes, Bounds, StreamTypes, SubscriberTypes, subVars
    <2> QED
      BY <2>3, <2>4, <2>5, <2>6
  <1>4. CASE PumpReceive
    <2>1. Head(ingest) \in Packets /\ Tail(ingest) \in Seq(Packets) /\ Attached \subseteq Subs
      BY <1>4, HeadTailProperties DEF PumpReceive, StreamTypes, Attached
    <2>2. PacketTypes'
      BY <1>4 DEF PumpReceive, PacketTypes, pktVars
    <2>3. StreamTypes'
      BY <1>4, <2>1 DEF PumpReceive, StreamTypes
    <2>4. SubscriberTypes'
      BY <1>4 DEF PumpReceive, SubscriberTypes, subVars
    <2>5. Shapes' /\ Bounds'
      BY <1>4, <2>1 DEF PumpReceive, Shapes, Bounds, StreamTypes, SubscriberTypes, subVars
    <2> QED
      BY <2>2, <2>3, <2>4, <2>5
  <1>5. CASE PumpQuit
    <2>1. PacketTypes'
      BY <1>5 DEF PumpQuit, PumpIdle, PacketTypes, pktVars
    <2>2. StreamTypes'
      BY <1>5 DEF PumpQuit, PumpIdle, StreamTypes
    <2>3. SubscriberTypes'
      BY <1>5 DEF PumpQuit, PumpIdle, SubscriberTypes, subVars
    <2>4. Shapes' /\ Bounds'
      BY <1>5 DEF PumpQuit, PumpIdle, Shapes, Bounds, StreamTypes, SubscriberTypes, subVars
    <2> QED
      BY <2>1, <2>2, <2>3, <2>4
  <1>6. CASE DeliverPush
    <2>1. pump.pkt \in Packets
      BY <1>6 DEF DeliverPush, Shapes
    <2>2. refs' \in [Packets -> Int] /\ pool' \subseteq Packets
      BY <1>6, <2>1, RetainType DEF DeliverPush
    <2>3. first' \in [Subs -> 0..Len(Frames)]
      <3>1. first \in [Subs -> 0..Len(Frames)]
        BY DEF SubscriberTypes
      <3>2. pump.cur \in Subs /\ frame[pump.pkt] \in 0..Len(Frames)
        BY <1>6, <2>1 DEF DeliverPush, PacketTypes, StreamTypes
      <3> QED
        BY <1>6, <3>1, <3>2, ShownType DEF DeliverPush
    <2>4. PacketTypes'
      BY <1>6, <2>2 DEF DeliverPush, PacketTypes, pktVars
    <2>5. StreamTypes'
      BY <1>6 DEF DeliverPush, StreamTypes
    <2>6. SubscriberTypes'
      BY <1>6, <2>3 DEF DeliverPush, SubscriberTypes, subVars
    <2>7. Shapes' /\ Bounds'
      BY <1>6 DEF DeliverPush, Shapes, Bounds, StreamTypes, SubscriberTypes, subVars
    <2> QED
      BY <2>4, <2>5, <2>6, <2>7
  <1>7. CASE PumpRelease
    <2>1. refs' \in [Packets -> Int] /\ pool' \subseteq Packets
      BY <1>7, RetainType DEF PumpRelease, Shapes
    <2>2. PacketTypes'
      BY <1>7, <2>1 DEF PumpRelease, PumpIdle, PacketTypes, pktVars
    <2>3. StreamTypes'
      BY <1>7 DEF PumpRelease, PumpIdle, StreamTypes
    <2>4. SubscriberTypes'
      BY <1>7 DEF PumpRelease, PumpIdle, SubscriberTypes, subVars
    <2>5. Shapes' /\ Bounds'
      BY <1>7 DEF PumpRelease, PumpIdle, Shapes, Bounds, StreamTypes, SubscriberTypes, subVars
    <2> QED
      BY <2>2, <2>3, <2>4, <2>5
  <1>8. ASSUME NEW s \in Subs, DeliverQueue(s)
        PROVE  (PacketTypes /\ StreamTypes /\ SubscriberTypes /\ Shapes /\ Bounds)'
    <2>1. pump.pkt \in Packets /\ queue[s] \in Seq(Packets)
      BY <1>8 DEF DeliverQueue, Shapes, SubscriberTypes
    <2>2. refs' \in [Packets -> Int] /\ pool' \subseteq Packets
      <3>1. CASE Len(queue[s]) < SubBufSize
        BY <1>8, <2>1, <3>1, RetainType DEF DeliverQueue
      <3>2. CASE ~(Len(queue[s]) < SubBufSize)
        <4>1. RetainRelease(Count(<<pump.pkt>>), Count(<<pump.pkt>>))
          BY <1>8, <3>2 DEF DeliverQueue
        <4>2. Count(<<pump.pkt>>) \in [Packets -> Nat]
          BY <2>1, CountSingle
        <4> QED
          BY <4>1, <4>2, RetainReleaseType
      <3> QED
        BY <3>1, <3>2
    <2>3. queue' \in [Subs -> Seq(Packets)] /\ \A x \in Subs : Len(queue'[x]) <= SubBufSize
      <3>1. Append(queue[s], pump.pkt) \in Seq(Packets) /\ Len(Append(queue[s], pump.pkt)) = Len(queue[s]) + 1
        BY <2>1, AppendProperties
      <3>2. CASE Len(queue[s]) < SubBufSize
        <4>1. queue' = [queue EXCEPT ![s] = Append(queue[s], pump.pkt)]
          BY <1>8, <3>2 DEF DeliverQueue
        <4>2. Len(Append(queue[s], pump.pkt)) <= SubBufSize
          BY <2>1, <3>1, <3>2
        <4> QED
          BY <3>1, <4>1, <4>2 DEF SubscriberTypes, Bounds
      <3>3. CASE ~(Len(queue[s]) < SubBufSize)
        BY <1>8, <3>3 DEF DeliverQueue, SubscriberTypes, Bounds
      <3> QED
        BY <3>2, <3>3
    <2>4. PacketTypes'
      BY <1>8, <2>2 DEF DeliverQueue, PacketTypes, pktVars
    <2>5. StreamTypes'
      BY <1>8 DEF DeliverQueue, StreamTypes
    <2>6. SubscriberTypes'
      BY <1>8, <2>3 DEF DeliverQueue, SubscriberTypes, subVars
    <2>7. Shapes' /\ Bounds'
      BY <1>8, <2>3 DEF DeliverQueue, Shapes, Bounds, StreamTypes, SubscriberTypes, subVars
    <2> QED
      BY <2>4, <2>5, <2>6, <2>7
  <1>9. ASSUME NEW s \in Subs, DeliverCache(s)
        PROVE  (PacketTypes /\ StreamTypes /\ SubscriberTypes /\ Shapes /\ Bounds)'
    <2>1. pump.pkt \in Packets /\ gop[s] \in Seq(Packets) /\ Len(gop[s]) <= GopCacheMax
      BY <1>9 DEF DeliverCache, Shapes, Bounds, SubscriberTypes
    <2>2. /\ NextGop(s, pump.pkt) \in Seq(Packets) /\ Len(NextGop(s, pump.pkt)) <= GopCacheMax
          /\ GopDropped(s, pump.pkt) \in Seq(Packets)
      BY <2>1, GopUpdate
    <2>3. refs' \in [Packets -> Int] /\ pool' \subseteq Packets
      BY <1>9, <2>1, <2>2, CountDouble, CountFun, RetainReleaseType, ZenonT(60) DEF DeliverCache
    <2>4. gop' \in [Subs -> Seq(Packets)] /\ \A x \in Subs : Len(gop'[x]) <= GopCacheMax
      BY <1>9, <2>2 DEF DeliverCache, SubscriberTypes, Bounds
    <2>5. PacketTypes'
      BY <1>9, <2>3 DEF DeliverCache, PacketTypes, pktVars
    <2>6. StreamTypes'
      BY <1>9 DEF DeliverCache, StreamTypes
    <2>7. SubscriberTypes'
      BY <1>9, <2>4 DEF DeliverCache, SubscriberTypes, subVars
    <2>8. Shapes' /\ Bounds'
      BY <1>9, <2>4 DEF DeliverCache, Shapes, Bounds, StreamTypes, SubscriberTypes, subVars
    <2> QED
      BY <2>5, <2>6, <2>7, <2>8
  <1>10. CASE CloseMark \/ CloseDone
    <2>1. PacketTypes'
      BY <1>10 DEF CloseMark, CloseDone, PacketTypes, pktVars
    <2>2. StreamTypes'
      BY <1>10 DEF CloseMark, CloseDone, StreamTypes
    <2>3. SubscriberTypes'
      BY <1>10 DEF CloseMark, CloseDone, SubscriberTypes, subVars
    <2>4. Shapes' /\ Bounds'
      BY <1>10 DEF CloseMark, CloseDone, Shapes, Bounds, StreamTypes, SubscriberTypes, subVars
    <2> QED
      BY <2>1, <2>2, <2>3, <2>4
  <1>11. CASE CloseSubs
    <2>1. Attached \in SUBSET Subs
      BY DEF Attached, StreamTypes
    <2>2. /\ refs' \in [Packets -> Int] /\ pool' \subseteq Packets
          /\ gop' \in [Subs -> Seq(Packets)] /\ sdone' \in [Subs -> BOOLEAN]
          /\ \A s \in Subs : Len(gop'[s]) <= GopCacheMax
      BY <1>11, <2>1, CloseType DEF CloseSubs
    <2>3. PacketTypes'
      BY <1>11, <2>2 DEF CloseSubs, PacketTypes, pktVars
    <2>4. StreamTypes'
      BY <1>11 DEF CloseSubs, StreamTypes
    <2>5. SubscriberTypes'
      BY <1>11, <2>2 DEF CloseSubs, SubscriberTypes, subVars
    <2>6. Shapes' /\ Bounds'
      BY <1>11, <2>2 DEF CloseSubs, Shapes, Bounds, StreamTypes, SubscriberTypes, subVars
    <2> QED
      BY <2>3, <2>4, <2>5, <2>6
  <1>12. ASSUME NEW s \in Subs, RunStep(s)
         PROVE  (PacketTypes /\ StreamTypes /\ SubscriberTypes /\ Shapes /\ Bounds)'
    <2>1. CASE RunOpen(s)
      <3>1. PacketTypes'
        BY <2>1 DEF RunOpen, PacketTypes, pktVars
      <3>2. StreamTypes'
        BY <2>1 DEF RunOpen, StreamTypes
      <3>3. SubscriberTypes'
        BY <2>1 DEF RunOpen, SubscriberTypes, subVars
      <3>4. Shapes' /\ Bounds'
        BY <2>1, SMTT(30) DEF RunOpen, Shapes, Bounds, StreamTypes, SubscriberTypes, subVars
      <3> QED
        BY <3>1, <3>2, <3>3, <3>4
    <2>6. CASE RunLeave(s)
      <3>1. PacketTypes'
        BY <2>6 DEF RunLeave, PacketTypes, pktVars
      <3>2. StreamTypes'
        BY <2>6 DEF RunLeave, StreamTypes
      <3>3. SubscriberTypes'
        BY <2>6 DEF RunLeave, SubscriberTypes, subVars
      <3>4. Shapes' /\ Bounds'
        BY <2>6 DEF RunLeave, Shapes, Bounds, StreamTypes, SubscriberTypes, subVars
      <3> QED
        BY <3>1, <3>2, <3>3, <3>4
    <2>2. CASE RunReceive(s)
      <3>1. /\ Head(queue[s]) \in Packets /\ Tail(queue[s]) \in Seq(Packets)
            /\ Len(Tail(queue[s])) <= SubBufSize
        BY <2>2, HeadTailProperties DEF RunReceive, SubscriberTypes, Bounds
      <3>2. PacketTypes'
        BY <2>2 DEF RunReceive, PacketTypes, pktVars
      <3>3. StreamTypes'
        BY <2>2 DEF RunReceive, StreamTypes
      <3>4. SubscriberTypes'
        BY <2>2, <3>1 DEF RunReceive, SubscriberTypes, subVars
      <3>5. Shapes' /\ Bounds'
        BY <2>2, <3>1, SMTT(30) DEF RunReceive, Shapes, Bounds, StreamTypes, SubscriberTypes, subVars
      <3> QED
        BY <3>2, <3>3, <3>4, <3>5
    <2>3. CASE RunWrite(s)
      <3>1. hand[s] \in Packets
        BY <2>3 DEF RunWrite, Shapes, SubscriberTypes
      <3>2. refs' \in [Packets -> Int] /\ pool' \subseteq Packets
        BY <2>3, <3>1, RetainType DEF RunWrite
      <3>3. frame[hand[s]] \in 0 .. Len(Frames)
        BY <3>1 DEF PacketTypes
      <3>4. PacketTypes'
        BY <2>3, <3>2 DEF RunWrite, PacketTypes, pktVars
      <3>5. StreamTypes'
        BY <2>3 DEF RunWrite, StreamTypes
      <3>6. SubscriberTypes'
        BY <2>3, <3>3 DEF RunWrite, SubscriberTypes, subVars
      <3>7. Shapes' /\ Bounds'
        BY <2>3, <3>1 DEF RunWrite, Shapes, Bounds, StreamTypes, SubscriberTypes, subVars
      <3> QED
        BY <3>4, <3>5, <3>6, <3>7
    <2>4. CASE RunDrain(s) /\ queue[s] = <<>>
      <3>1. PacketTypes'
        BY <2>4 DEF RunDrain, PacketTypes, pktVars
      <3>2. StreamTypes'
        BY <2>4 DEF RunDrain, StreamTypes
      <3>3. SubscriberTypes'
        BY <2>4 DEF RunDrain, SubscriberTypes, subVars
      <3>4. Shapes' /\ Bounds'
        BY <2>4, SMTT(30) DEF RunDrain, Shapes, Bounds, StreamTypes, SubscriberTypes, subVars
      <3> QED
        BY <3>1, <3>2, <3>3, <3>4
    <2>5. CASE RunDrain(s) /\ queue[s] # <<>>
      <3>1. /\ Head(queue[s]) \in Packets /\ Tail(queue[s]) \in Seq(Packets)
            /\ Len(Tail(queue[s])) <= SubBufSize
        BY <2>5, HeadTailProperties DEF SubscriberTypes, Bounds
      <3>2. refs' \in [Packets -> Int] /\ pool' \subseteq Packets
        BY <2>5, <3>1, RetainType DEF RunDrain
      <3>3. queue' \in [Subs -> Seq(Packets)] /\ \A x \in Subs : Len(queue'[x]) <= SubBufSize
        <4>1. queue' = [queue EXCEPT ![s] = Tail(queue[s])]
          BY <2>5 DEF RunDrain
        <4> QED
          BY <3>1, <4>1 DEF SubscriberTypes, Bounds
      <3>4. PacketTypes'
        BY <2>5, <3>2 DEF RunDrain, PacketTypes, pktVars
      <3>5. StreamTypes'
        BY <2>5 DEF RunDrain, StreamTypes
      <3>6. SubscriberTypes'
        BY <2>5, <3>3 DEF RunDrain, SubscriberTypes, subVars
      <3>7. Shapes' /\ Bounds'
        BY <2>5, <3>3, SMTT(30) DEF RunDrain, Shapes, Bounds, StreamTypes, SubscriberTypes, subVars
      <3> QED
        BY <3>4, <3>5, <3>6, <3>7
    <2> QED
      BY <1>12, <2>1, <2>2, <2>3, <2>4, <2>5, <2>6 DEF RunStep
  <1>13. ASSUME NEW s \in Subs, OwnerStep(s)
         PROVE  (PacketTypes /\ StreamTypes /\ SubscriberTypes /\ Shapes /\ Bounds)'
    <2>1. CASE NewSubscriber(s)
      <3>1. PacketTypes'
        BY <2>1 DEF NewSubscriber, PacketTypes, pktVars
      <3>2. StreamTypes'
        BY <2>1 DEF NewSubscriber, StreamTypes
      <3>3. SubscriberTypes'
        BY <2>1 DEF NewSubscriber, SubscriberTypes, subVars
      <3>4. Shapes' /\ Bounds'
        BY <2>1, SMTT(30) DEF NewSubscriber, Shapes, Bounds, StreamTypes, SubscriberTypes, subVars
      <3> QED
        BY <3>1, <3>2, <3>3, <3>4
    <2>6. CASE AddSubscriber(s)
      <3>1. PacketTypes'
        BY <2>6 DEF AddSubscriber, PacketTypes, pktVars
      <3>2. StreamTypes'
        BY <2>6 DEF AddSubscriber, StreamTypes
      <3>3. SubscriberTypes'
        BY <2>6 DEF AddSubscriber, SubscriberTypes, subVars
      <3>4. Shapes' /\ Bounds'
        BY <2>6 DEF AddSubscriber, Shapes, Bounds, StreamTypes, SubscriberTypes, subVars
      <3> QED
        BY <3>1, <3>2, <3>3, <3>4
    <2>2. CASE RemoveSubscriber(s)
      <3>1. {subs[ID[s]]} \ {NoSub} \in SUBSET Subs
        BY DEF StreamTypes
      <3>2. /\ refs' \in [Packets -> Int] /\ pool' \subseteq Packets
            /\ gop' \in [Subs -> Seq(Packets)] /\ sdone' \in [Subs -> BOOLEAN]
            /\ \A x \in Subs : Len(gop'[x]) <= GopCacheMax
        BY <2>2, <3>1, CloseType DEF RemoveSubscriber
      <3>3. PacketTypes'
        BY <2>2, <3>2 DEF RemoveSubscriber, PacketTypes, pktVars
      <3>4. StreamTypes'
        BY <2>2 DEF RemoveSubscriber, StreamTypes
      <3>5. SubscriberTypes'
        BY <2>2, <3>2 DEF RemoveSubscriber, SubscriberTypes, subVars
      <3>6. Shapes' /\ Bounds'
        BY <2>2, <3>2 DEF RemoveSubscriber, Shapes, Bounds, StreamTypes, SubscriberTypes, subVars
      <3> QED
        BY <3>3, <3>4, <3>5, <3>6
    <2>3. CASE CloseOwn(s)
      <3>1. {s} \in SUBSET Subs
        OBVIOUS
      <3>2. /\ refs' \in [Packets -> Int] /\ pool' \subseteq Packets
            /\ gop' \in [Subs -> Seq(Packets)] /\ sdone' \in [Subs -> BOOLEAN]
            /\ \A x \in Subs : Len(gop'[x]) <= GopCacheMax
        BY <2>3, <3>1, CloseType DEF CloseOwn
      <3>3. PacketTypes'
        BY <2>3, <3>2 DEF CloseOwn, PacketTypes, pktVars
      <3>4. StreamTypes'
        BY <2>3 DEF CloseOwn, StreamTypes
      <3>5. SubscriberTypes'
        BY <2>3, <3>2 DEF CloseOwn, SubscriberTypes, subVars
      <3>6. Shapes' /\ Bounds'
        BY <2>3, <3>2 DEF CloseOwn, Shapes, Bounds, StreamTypes, SubscriberTypes, subVars
      <3> QED
        BY <3>3, <3>4, <3>5, <3>6
    <2>4. CASE SendGOPCopy(s)
      <3>1. PacketTypes'
        BY <2>4 DEF SendGOPCopy, PacketTypes, pktVars
      <3>2. StreamTypes'
        BY <2>4 DEF SendGOPCopy, StreamTypes
      <3>3. SubscriberTypes'
        BY <2>4 DEF SendGOPCopy, SubscriberTypes, subVars
      <3>4. Shapes' /\ Bounds'
        BY <2>4 DEF SendGOPCopy, Shapes, Bounds, StreamTypes, SubscriberTypes, subVars
      <3> QED
        BY <3>1, <3>2, <3>3, <3>4
    <2>5. CASE SendGOPStep(s)
      <3>1. snap[s] # <<>> => Head(snap[s]) \in Packets /\ Tail(snap[s]) \in Seq(Packets)
        BY HeadTailProperties DEF SubscriberTypes
      <3>2. snap' \in [Subs -> Seq(Packets)]
        <4>1. ASSUME NEW v \in Seq(Packets) PROVE [snap EXCEPT ![s] = v] \in [Subs -> Seq(Packets)]
          BY DEF SubscriberTypes
        <4>2. snap \in [Subs -> Seq(Packets)] /\ <<>> \in Seq(Packets)
          BY DEF SubscriberTypes
        <4> QED
          BY <2>5, <3>1, <4>1, <4>2 DEF SendGOPStep
      <3>3. first' \in [Subs -> 0..Len(Frames)]
        <4>1. first \in [Subs -> 0..Len(Frames)]
          BY DEF SubscriberTypes
        <4>2. snap[s] # <<>> => frame[Head(snap[s])] \in 0..Len(Frames)
          BY <3>1 DEF PacketTypes
        <4>3. first' = first \/ (snap[s] # <<>> /\ first' = Shown(s, frame[Head(snap[s])]))
          BY <2>5 DEF SendGOPStep
        <4>4. ASSUME snap[s] # <<>>
              PROVE  Shown(s, frame[Head(snap[s])]) \in [Subs -> 0..Len(Frames)]
          BY <4>2, <4>4, ShownType
        <4> QED
          BY <4>1, <4>3, <4>4
      <3>4. PacketTypes'
        BY <2>5 DEF SendGOPStep, PacketTypes, pktVars
      <3>5. StreamTypes'
        BY <2>5 DEF SendGOPStep, StreamTypes
      <3>6. SubscriberTypes'
        BY <2>5, <3>2, <3>3 DEF SendGOPStep, SubscriberTypes, subVars
      <3>7. Shapes' /\ Bounds'
        BY <2>5, ZenonT(60) DEF SendGOPStep, Shapes, Bounds, StreamTypes, SubscriberTypes, subVars
      <3> QED
        BY <3>4, <3>5, <3>6, <3>7
    <2> QED
      BY <1>13, <2>1, <2>2, <2>3, <2>4, <2>5, <2>6 DEF OwnerStep
  <1>14. CASE UNCHANGED vars
    <2>1. PacketTypes'
      BY <1>14 DEF vars, PacketTypes, pktVars
    <2>2. StreamTypes'
      BY <1>14 DEF vars, StreamTypes
    <2>3. SubscriberTypes'
      BY <1>14 DEF vars, SubscriberTypes, subVars
    <2>4. Shapes' /\ Bounds'
      BY <1>14 DEF vars, Shapes, Bounds, StreamTypes, SubscriberTypes, subVars
    <2> QED
      BY <2>1, <2>2, <2>3, <2>4
  <1> QED
    BY <1>1, <1>2, <1>3, <1>4, <1>5, <1>6, <1>7, <1>8, <1>9, <1>10, <1>11, <1>12, <1>13, <1>14
    DEF Next, PumpStep, CloseStep

\* The stream starts with nothing held and every channel and cache empty.
LEMMA InitType == Init => TypeInv
  <1> SUFFICES ASSUME Init
               PROVE  TypeInv
    OBVIOUS
  <1> USE LiveStreamAssumption DEF Init
  <1>1. Len(Frames) \in Nat
    BY LenProperties
  <1>2. PacketTypes
    BY <1>1 DEF PacketTypes
  <1>3. StreamTypes
    <2>1. pub \in [pc : {"idle", "check", "send"}, pkt : Packets \cup {NoPacket}]
      BY DEF PubIdle
    <2>2. pump \in [pc : {"select", "fan", "exited"}, pkt : Packets \cup {NoPacket},
                    todo : SUBSET Subs, cur : Subs \cup {NoSub}]
      BY DEF PumpIdle
    <2>3. subs \in [SubIDs -> Subs \cup {NoSub}] /\ ingest \in Seq(Packets)
      OBVIOUS
    <2>4. sent \in 0 .. Len(Frames)
      BY <1>1
    <2> QED
      BY <2>1, <2>2, <2>3, <2>4 DEF StreamTypes
  <1>4. SubscriberTypes
    BY <1>1 DEF SubscriberTypes
  <1>5. Shapes /\ Bounds
    BY DEF Shapes, Bounds, PubIdle, PumpIdle
  <1> QED
    BY <1>2, <1>3, <1>4, <1>5 DEF TypeInv, TypeOK

\* Publisher, pump, run goroutines, viewers and Close leave the stream's state
\* well typed, its map of subscribers keyed by ID, in every interleaving.
THEOREM TypesHold == Spec => []TypeOK
  <1>1. TypeInv => TypeOK
    BY DEF TypeInv
  <1> QED
    BY <1>1, InitType, NextType, PTL DEF Spec

-----------------------------------------------------------------------------
(* The ledger of references.                                               *)

\* The places a reference to p can be in, one operator each.
AtPub(p)    == One(pub.pkt = p)
InIngest(p) == Count(ingest)[p]
AtPump(p)   == One(pump.pkt = p)
AtPush(p)   == One(pump.pkt = p /\ pump.cur # NoSub)
InQueues(p) == Cardinality(Places(queue, Subs, SubBufSize, p))
InHands(p)  == Cardinality({s \in Subs : hand[s] = p})
InCaches(p) == Cardinality(Places(gop, Subs, GopCacheMax, p))
Thrown(p)   == One(p \in lost)
Elsewhere(p) == InIngest(p) + AtPump(p) + AtPush(p) + InQueues(p) + InHands(p) + InCaches(p) + Thrown(p)

\* Every part of the ledger is a number, and the holders are their sum.
Numbers ==
  \A p \in Packets :
    /\ AtPub(p) \in Nat /\ InIngest(p) \in Nat /\ AtPump(p) \in Nat /\ AtPush(p) \in Nat
    /\ InQueues(p) \in Nat /\ InHands(p) \in Nat /\ InCaches(p) \in Nat /\ Thrown(p) \in Nat
    /\ Holders(p) = AtPub(p) + Elsewhere(p)

\* Each of them holds a natural number of references; the holders of a packet
\* are the publisher and those elsewhere.
LEMMA PartsNat == TypeInv => Numbers
  <1> SUFFICES ASSUME TypeInv, NEW p \in Packets
               PROVE  /\ AtPub(p) \in Nat /\ InIngest(p) \in Nat /\ AtPump(p) \in Nat
                      /\ AtPush(p) \in Nat /\ InQueues(p) \in Nat /\ InHands(p) \in Nat
                      /\ InCaches(p) \in Nat /\ Thrown(p) \in Nat
                      /\ Holders(p) = AtPub(p) + Elsewhere(p)
    BY DEF Numbers
  <1>1. AtPub(p) \in Nat /\ AtPump(p) \in Nat /\ AtPush(p) \in Nat /\ Thrown(p) \in Nat
    BY DEF AtPub, AtPump, AtPush, Thrown, One
  <1>2. InIngest(p) \in Nat
    BY CountType DEF InIngest, TypeInv, TypeOK, StreamTypes
  <1>3. IsFiniteSet(Subs) /\ SubBufSize \in Nat /\ GopCacheMax \in Nat
    BY LiveStreamAssumption
  <1>4. InQueues(p) \in Nat /\ InCaches(p) \in Nat
    BY <1>3, PlacesFinite DEF InQueues, InCaches
  <1>5. InHands(p) \in Nat
    <2>1. {s \in Subs : hand[s] = p} \in SUBSET Subs
      OBVIOUS
    <2> QED
      BY <1>3, <2>1, FS_Subset, FS_CardinalityType DEF InHands
  <1>6. Cached(Subs)[p] = InCaches(p)
    BY DEF Cached, InCaches
  <1>7. Holders(p) = AtPub(p) + InIngest(p) + AtPump(p) + AtPush(p) + InQueues(p) + InHands(p)
                     + InCaches(p) + Thrown(p)
    BY <1>6 DEF Holders, AtPub, InIngest, AtPump, AtPush, InQueues, InHands, Thrown
  <1> QED
    BY <1>1, <1>2, <1>4, <1>5, <1>7 DEF Elsewhere

\* The same after a step.
LEMMA PartsNatNext == TypeInv' => Numbers'
  BY PartsNat, PTL

\* Changing what one run goroutine has in hand.
LEMMA HandChange ==
  ASSUME NEW s \in Subs, \A x \in Subs \ {s} : hand'[x] = hand[x], NEW p \in Packets
  PROVE  InHands(p)' = InHands(p) - One(hand[s] = p) + One(hand'[s] = p)
  <1> DEFINE R == {x \in Subs \ {s} : hand[x] = p}
             A == {x \in Subs : hand[x] = p}
             B == {x \in Subs : hand'[x] = p}
  <1>1. IsFiniteSet(R) /\ s \notin R
    BY LiveStreamAssumption, FS_Subset
  <1>2. A = (IF hand[s] = p THEN R \cup {s} ELSE R) /\ B = (IF hand'[s] = p THEN R \cup {s} ELSE R)
    OBVIOUS
  <1> HIDE DEF R, A, B
  <1>3. Cardinality(R) \in Nat /\ Cardinality(R \cup {s}) = Cardinality(R) + 1
    BY <1>1, FS_AddElement, FS_CardinalityType
  <1>4. Cardinality(A) = Cardinality(R) + One(hand[s] = p)
    BY <1>2, <1>3 DEF One
  <1>5. Cardinality(B) = Cardinality(R) + One(hand'[s] = p)
    BY <1>2, <1>3 DEF One
  <1>6. Cardinality(B) = Cardinality(A) - One(hand[s] = p) + One(hand'[s] = p)
    BY <1>3, <1>4, <1>5 DEF One
  <1> QED
    BY <1>6 DEF A, B, InHands

\* A held packet that is retained and released has no reference left exactly if it
\* was released, as often as it was held.
LEMMA Balance ==
  ASSUME NEW r \in Nat, NEW i \in Nat, NEW d \in Nat, r # 0
  PROVE  (d > 0 /\ r + i = d) <=> r + i - d = 0
  OBVIOUS

\* Retain and Release that follow what the places gain and lose keep the count
\* right, the pool right, and leave the publisher's packet alone.
LEMMA Ledger ==
  ASSUME CountInv, TypeInv', NEW inc \in [Packets -> Nat], NEW dec \in [Packets -> Nat],
         RetainRelease(inc, dec), UNCHANGED <<frame, pub>>,
         \A p \in Packets : Elsewhere(p)' = Elsewhere(p) + inc[p] - dec[p],
         \A p \in Packets : inc[p] > 0 \/ dec[p] > 0 => Elsewhere(p) > 0
  PROVE  RefsMatchHolders' /\ FreshUnheld' /\ PubAlone'
  <1>1. ASSUME NEW p \in Packets
        PROVE  /\ refs'[p] = Holders(p)'
               /\ p \in pool' <=> frame'[p] # 0 /\ refs'[p] = 0
               /\ frame'[p] = 0 => refs'[p] = 0
               /\ AtPub(p) = 1 /\ refs[p] = 1 => refs'[p] = 1
    <2>1. /\ AtPub(p) \in Nat /\ Elsewhere(p) \in Nat /\ refs[p] = AtPub(p) + Elsewhere(p)
      BY PartsNat DEF Numbers, Elsewhere, CountInv, TypeInv, RefsMatchHolders
    <2>2. Holders(p)' = AtPub(p)' + Elsewhere(p)' /\ Elsewhere(p)' \in Nat
      BY PartsNatNext DEF Numbers, Elsewhere
    <2>3. AtPub(p)' = AtPub(p)
      BY DEF AtPub
    <2>4. /\ inc[p] \in Nat /\ dec[p] \in Nat
          /\ Elsewhere(p)' = Elsewhere(p) + inc[p] - dec[p]
          /\ inc[p] > 0 \/ dec[p] > 0 => Elsewhere(p) > 0
      OBVIOUS
    <2>5. /\ refs'[p] = refs[p] + inc[p] - dec[p]
          /\ p \in pool' <=> p \in pool \/ (dec[p] > 0 /\ refs[p] + inc[p] = dec[p])
      BY DEF RetainRelease
    <2>6. refs'[p] = Holders(p)'
      BY <2>1, <2>2, <2>3, <2>4, <2>5
    <2>7. (p \in pool <=> frame[p] # 0 /\ refs[p] = 0) /\ (frame[p] = 0 => refs[p] = 0) /\ frame'[p] = frame[p]
      BY DEF CountInv, RefsMatchHolders, FreshUnheld
    <2>8. refs[p] = 0 => inc[p] = 0 /\ dec[p] = 0 /\ refs'[p] = 0
      BY <2>1, <2>4, <2>5
    <2>9. AtPub(p) = 1 /\ refs[p] = 1 => inc[p] = 0 /\ dec[p] = 0 /\ refs'[p] = 1
      BY <2>1, <2>4, <2>5
    <2>10. refs[p] # 0 => (p \in pool' <=> refs'[p] = 0)
      <3>1. refs[p] \in Nat
        BY <2>1
      <3>2. refs[p] # 0 => ((dec[p] > 0 /\ refs[p] + inc[p] = dec[p]) <=> refs[p] + inc[p] - dec[p] = 0)
        BY <2>4, <3>1, Balance
      <3> QED
        BY <2>5, <2>7, <3>2
    <2>11. refs[p] = 0 => (p \in pool' <=> frame[p] # 0)
      BY <2>4, <2>5, <2>7, <2>8
    <2> QED
      BY <2>6, <2>7, <2>8, <2>9, <2>10, <2>11
  <1>2. RefsMatchHolders' /\ FreshUnheld'
    BY <1>1 DEF RefsMatchHolders, FreshUnheld
  <1>3. PubAlone'
    <2> SUFFICES ASSUME pub.pkt # NoPacket
                 PROVE  refs'[pub.pkt] = 1
      BY DEF PubAlone
    <2>1. pub.pkt \in Packets /\ refs[pub.pkt] = 1
      BY DEF CountInv, TypeOK, StreamTypes, PubAlone
    <2>2. AtPub(pub.pkt) = 1
      BY DEF AtPub, One
    <2> QED
      BY <1>1, <2>1, <2>2
  <1> QED
    BY <1>2, <1>3

\* The part of the invariant that is about counts.
LedgerInv == RefsMatchHolders /\ FreshUnheld /\ PubAlone

\* A packet with no references, and one the publisher has to itself, is nowhere else.
LEMMA NowhereElse ==
  ASSUME CountInv, NEW p \in Packets, refs[p] = 0 \/ pub.pkt = p
  PROVE  /\ InIngest(p) = 0 /\ AtPump(p) = 0 /\ AtPush(p) = 0 /\ InQueues(p) = 0
         /\ InHands(p) = 0 /\ InCaches(p) = 0 /\ Thrown(p) = 0
         /\ refs[p] = AtPub(p)
  <1>1. Numbers
    BY PartsNat DEF CountInv, TypeInv
  <1>2. refs[p] = AtPub(p) + Elsewhere(p)
    BY <1>1 DEF Numbers, CountInv, RefsMatchHolders
  <1>3. pub.pkt = p => refs[p] = 1 /\ AtPub(p) = 1
    BY LiveStreamAssumption DEF CountInv, PubAlone, AtPub, One
  <1>4. /\ AtPub(p) \in Nat /\ InIngest(p) \in Nat /\ AtPump(p) \in Nat /\ AtPush(p) \in Nat
        /\ InQueues(p) \in Nat /\ InHands(p) \in Nat /\ InCaches(p) \in Nat /\ Thrown(p) \in Nat
    BY <1>1 DEF Numbers
  <1>5. AtPub(p) + Elsewhere(p) = 0 \/ (AtPub(p) = 1 /\ AtPub(p) + Elsewhere(p) = 1)
    BY <1>2, <1>3
  <1>6. Elsewhere(p) \in Nat
    BY <1>4 DEF Elsewhere
  <1>7. Elsewhere(p) = 0
    BY <1>4, <1>5, <1>6
  <1>8. refs[p] = AtPub(p)
    BY <1>2, <1>4, <1>7
  <1>9. /\ InIngest(p) = 0 /\ AtPump(p) = 0 /\ AtPush(p) = 0 /\ InQueues(p) = 0
        /\ InHands(p) = 0 /\ InCaches(p) = 0 /\ Thrown(p) = 0
    BY <1>4, <1>7 DEF Elsewhere
  <1> QED
    BY <1>8, <1>9

\* Steps that only move references about.
LEMMA Moved ==
  ASSUME CountInv, TypeInv', UNCHANGED <<refs, pool, frame>>, pub' = PubIdle \/ pub'.pkt = pub.pkt,
         \A p \in Packets : AtPub(p)' + Elsewhere(p)' = AtPub(p) + Elsewhere(p)
  PROVE  LedgerInv'
  <1>1. ASSUME NEW p \in Packets PROVE Holders(p)' = Holders(p)
    BY PartsNat, PartsNatNext DEF Numbers, CountInv, TypeInv
  <1>2. RefsMatchHolders' /\ FreshUnheld'
    BY <1>1 DEF CountInv, RefsMatchHolders, FreshUnheld
  <1>3. PubAlone'
    BY DEF CountInv, PubAlone, PubIdle
  <1> QED
    BY <1>2, <1>3 DEF LedgerInv

\* Building a packet, and liveStream.Ingest.
LEMMA PublisherCount ==
  ASSUME CountInv, TypeInv', BuildPacket \/ IngestCheck \/ IngestSend
  PROVE  LedgerInv'
  <1> USE DEF CountInv
  <1>0. Numbers /\ Numbers'
    BY PartsNat, PartsNatNext DEF TypeInv
  <1>1. CASE BuildPacket
    <2>1. PICK p \in Allocatable :
            /\ refs' = [refs EXCEPT ![p] = 1] /\ pool' = pool \ {p}
            /\ frame' = [frame EXCEPT ![p] = sent + 1]
            /\ pub' = [pc |-> "check", pkt |-> p]
      BY <1>1 DEF BuildPacket
    <2>2. p \in Packets /\ refs[p] = 0
      BY <2>1 DEF Allocatable, RefsMatchHolders, FreshUnheld, TypeOK, PacketTypes
    <2>3. pub.pkt = NoPacket
      BY <1>1 DEF BuildPacket, Shapes
    <2>4. ASSUME NEW q \in Packets PROVE Elsewhere(q)' = Elsewhere(q) /\ AtPub(q) = 0 /\ AtPub(q)' = One(p = q)
      <3>1. Elsewhere(q)' = Elsewhere(q)
        BY <1>1 DEF BuildPacket, subVars, Elsewhere, InIngest, AtPump, AtPush, InQueues, InHands, InCaches, Thrown
      <3>2. AtPub(q) = 0 /\ AtPub(q)' = One(p = q)
        BY <2>1, <2>3, LiveStreamAssumption DEF AtPub, One
      <3> QED
        BY <3>1, <3>2
    <2>5. ASSUME NEW q \in Packets PROVE refs'[q] = Holders(q)'
      <3>1. refs[q] = Elsewhere(q) /\ Elsewhere(q) \in Nat
        BY <1>0, <2>4 DEF RefsMatchHolders, Numbers, Elsewhere
      <3>2. Holders(q)' = AtPub(q)' + Elsewhere(q)'
        BY <1>0 DEF Numbers
      <3>3. refs'[q] = IF p = q THEN 1 ELSE refs[q]
        BY <2>1 DEF TypeOK, PacketTypes
      <3> QED
        BY <2>2, <2>4, <3>1, <3>2, <3>3 DEF One
    <2>6. sent + 1 # 0
      BY LiveStreamAssumption, LenProperties DEF TypeOK, StreamTypes
    <2>7. ASSUME NEW q \in Packets
          PROVE  /\ q \in pool' <=> frame'[q] # 0 /\ refs'[q] = 0
                 /\ frame'[q] = 0 => refs'[q] = 0
      <3>1. CASE p = q
        BY <2>1, <2>6, <3>1 DEF TypeOK, PacketTypes
      <3>2. CASE p # q
        BY <2>1, <3>2 DEF TypeOK, PacketTypes, RefsMatchHolders, FreshUnheld
      <3> QED
        BY <3>1, <3>2
    <2>8. PubAlone'
      BY <2>1, <2>2 DEF PubAlone, TypeOK, PacketTypes
    <2> QED
      BY <2>5, <2>7, <2>8 DEF LedgerInv, RefsMatchHolders, FreshUnheld
  <1>2. CASE IngestCheck /\ ~closed
    <2>1. pub'.pkt = pub.pkt
      BY <1>2 DEF IngestCheck, TypeOK, StreamTypes
    <2>2. ASSUME NEW p \in Packets PROVE AtPub(p)' + Elsewhere(p)' = AtPub(p) + Elsewhere(p)
      BY <1>2, <2>1 DEF IngestCheck, pktVars, subVars, AtPub, Elsewhere, InIngest, AtPump, AtPush,
                        InQueues, InHands, InCaches, Thrown
    <2> QED
      BY <1>2, <2>1, <2>2, Moved DEF IngestCheck, pktVars
  <1>3. CASE (IngestCheck /\ closed) \/ (IngestSend /\ ~(Len(ingest) < IngestBufSize))
    <2>1. pub.pkt \in Packets
      BY <1>3 DEF IngestCheck, IngestSend, Shapes, TypeOK, StreamTypes
    <2>2. ASSUME NEW p \in Packets PROVE AtPub(p)' + Elsewhere(p)' = AtPub(p) + Elsewhere(p)
      <3>1. AtPub(p)' = 0 /\ AtPub(p) = One(pub.pkt = p)
        BY <1>3, LiveStreamAssumption DEF IngestCheck, IngestSend, PubIdle, AtPub, One
      <3>2. /\ InIngest(p)' = InIngest(p) /\ AtPump(p)' = AtPump(p) /\ AtPush(p)' = AtPush(p)
            /\ InQueues(p)' = InQueues(p) /\ InHands(p)' = InHands(p) /\ InCaches(p)' = InCaches(p)
        BY <1>3 DEF IngestCheck, IngestSend, subVars, InIngest, AtPump, AtPush, InQueues, InHands, InCaches
      <3>3. Thrown(p)' = Thrown(p) + One(pub.pkt = p)
        <4>1. lost' = lost \cup {pub.pkt}
          BY <1>3 DEF IngestCheck, IngestSend
        <4>2. pub.pkt = p => Thrown(p) = 0
          BY NowhereElse
        <4> QED
          BY <4>1, <4>2 DEF Thrown, One
      <3> QED
        BY <1>0, <3>1, <3>2, <3>3 DEF Numbers, Elsewhere
    <2> QED
      BY <1>3, <2>2, Moved DEF IngestCheck, IngestSend, pktVars
  <1>4. CASE IngestSend /\ Len(ingest) < IngestBufSize
    <2>1. pub.pkt \in Packets /\ ingest \in Seq(Packets)
      BY <1>4 DEF IngestSend, Shapes, TypeOK, StreamTypes
    <2>2. ASSUME NEW p \in Packets PROVE AtPub(p)' + Elsewhere(p)' = AtPub(p) + Elsewhere(p)
      <3>1. AtPub(p)' = 0 /\ AtPub(p) = One(pub.pkt = p)
        BY <1>4, LiveStreamAssumption DEF IngestSend, PubIdle, AtPub, One
      <3>2. /\ AtPump(p)' = AtPump(p) /\ AtPush(p)' = AtPush(p)
            /\ InQueues(p)' = InQueues(p) /\ InHands(p)' = InHands(p) /\ InCaches(p)' = InCaches(p)
            /\ Thrown(p)' = Thrown(p)
        BY <1>4 DEF IngestSend, subVars, AtPump, AtPush, InQueues, InHands, InCaches, Thrown
      <3>3. InIngest(p)' = InIngest(p) + One(pub.pkt = p)
        <4>1. ingest' = Append(ingest, pub.pkt)
          BY <1>4 DEF IngestSend
        <4> QED
          BY <2>1, <4>1, CountAppend DEF InIngest, Count
      <3> QED
        BY <1>0, <3>1, <3>2, <3>3 DEF Numbers, Elsewhere
    <2> QED
      BY <1>4, <2>2, Moved DEF IngestSend, pktVars
  <1> QED
    BY <1>1, <1>2, <1>3, <1>4

\* Steps that move no reference at all.
LEMMA Unmoved ==
  ASSUME CountInv, TypeInv', UNCHANGED <<refs, pool, frame, pub, ingest, queue, hand, gop, lost>>,
         pump'.pkt = pump.pkt, pump'.cur = pump.cur
  PROVE  LedgerInv'
  <1>1. ASSUME NEW p \in Packets PROVE AtPub(p)' + Elsewhere(p)' = AtPub(p) + Elsewhere(p)
    BY DEF AtPub, Elsewhere, InIngest, AtPump, AtPush, InQueues, InHands, InCaches, Thrown
  <1> QED
    BY <1>1, Moved

\* A packet appended to a channel, and one taken from its head.
LEMMA QueueAppend ==
  ASSUME TypeInv, NEW s \in Subs, NEW e \in Packets, Len(queue[s]) < SubBufSize,
         queue' = [queue EXCEPT ![s] = Append(@, e)], NEW p \in Packets
  PROVE  InQueues(p)' = InQueues(p) + One(e = p)
  <1> DEFINE v == Append(queue[s], e)
  <1>1. queue \in [Subs -> Seq(Packets)] /\ queue[s] \in Seq(Packets) /\ Len(queue[s]) <= SubBufSize
        /\ SubBufSize \in Nat
    BY LiveStreamAssumption DEF TypeInv, TypeOK, SubscriberTypes, Bounds
  <1>2. v \in Seq(Packets) /\ Len(v) <= SubBufSize
    BY <1>1, AppendProperties
  <1>3. Count(v)[p] = Count(queue[s])[p] + One(e = p)
    BY <1>1, CountAppend
  <1>4. queue' = [queue EXCEPT ![s] = v]
    OBVIOUS
  <1> HIDE DEF v
  <1>5. InQueues(p)' = InQueues(p) - Count(queue[s])[p] + Count(v)[p]
    <2> DEFINE g == [queue EXCEPT ![s] = v]
    <2>1. Cardinality(Places(g, Subs, SubBufSize, p)) =
            Cardinality(Places(queue, Subs, SubBufSize, p)) - Count(queue[s])[p] + Count(v)[p]
      BY <1>1, <1>2, PlacesUpdate
    <2>2. queue' = g
      BY <1>4
    <2> HIDE DEF g
    <2>3. InQueues(p)' = Cardinality(Places(g, Subs, SubBufSize, p))
      BY <2>2 DEF InQueues
    <2> QED
      BY <2>1, <2>3 DEF InQueues
  <1>6. Count(queue[s])[p] \in Nat /\ InQueues(p) \in Nat /\ One(e = p) \in Nat
    BY <1>1, CountType, PartsNat DEF Numbers, One
  <1> QED
    BY <1>3, <1>5, <1>6

\* A subscriber that takes the head of its queue takes one reference from the queues.
LEMMA QueueTail ==
  ASSUME TypeInv, NEW s \in Subs, queue[s] # <<>>, queue' = [queue EXCEPT ![s] = Tail(@)],
         NEW p \in Packets
  PROVE  InQueues(p)' = InQueues(p) - One(Head(queue[s]) = p)
  <1> DEFINE v == Tail(queue[s])
  <1>1. queue \in [Subs -> Seq(Packets)] /\ queue[s] \in Seq(Packets) /\ Len(queue[s]) <= SubBufSize
        /\ SubBufSize \in Nat
    BY LiveStreamAssumption DEF TypeInv, TypeOK, SubscriberTypes, Bounds
  <1>2. v \in Seq(Packets) /\ Len(v) <= SubBufSize
    BY <1>1, HeadTailProperties
  <1>3. Count(v)[p] = Count(queue[s])[p] - One(Head(queue[s]) = p)
    BY <1>1, CountTail
  <1>4. queue' = [queue EXCEPT ![s] = v]
    OBVIOUS
  <1> HIDE DEF v
  <1>5. InQueues(p)' = InQueues(p) - Count(queue[s])[p] + Count(v)[p]
    <2> DEFINE g == [queue EXCEPT ![s] = v]
    <2>1. Cardinality(Places(g, Subs, SubBufSize, p)) =
            Cardinality(Places(queue, Subs, SubBufSize, p)) - Count(queue[s])[p] + Count(v)[p]
      BY <1>1, <1>2, PlacesUpdate
    <2>2. queue' = g
      BY <1>4
    <2> HIDE DEF g
    <2>3. InQueues(p)' = Cardinality(Places(g, Subs, SubBufSize, p))
      BY <2>2 DEF InQueues
    <2> QED
      BY <2>1, <2>3 DEF InQueues
  <1>6. Count(queue[s])[p] \in Nat /\ InQueues(p) \in Nat /\ One(Head(queue[s]) = p) \in Nat
    BY <1>1, CountType, PartsNat DEF Numbers, One
  <1> QED
    BY <1>3, <1>5, <1>6

\* The pump: receive, fan out to channels and caches, push, release.
LEMMA PumpCount ==
  ASSUME CountInv, TypeInv', PumpStep
  PROVE  LedgerInv'
  <1> USE DEF CountInv
  <1>0. Numbers /\ Numbers' /\ TypeInv
    BY PartsNat, PartsNatNext DEF TypeInv
  <1>1. CASE PumpReceive
    <2>1. ingest \in Seq(Packets) /\ ingest # <<>> /\ pump.pkt = NoPacket
      BY <1>1 DEF PumpReceive, Shapes, TypeOK, StreamTypes
    <2>2. Head(ingest) \in Packets
      BY <2>1, HeadTailProperties
    <2>3. ASSUME NEW p \in Packets PROVE AtPub(p)' + Elsewhere(p)' = AtPub(p) + Elsewhere(p)
      <3>1. AtPump(p) = 0 /\ AtPump(p)' = One(Head(ingest) = p)
        BY <1>1, <2>1, LiveStreamAssumption DEF PumpReceive, AtPump, One
      <3>2. AtPush(p) = 0 /\ AtPush(p)' = 0
        BY <1>1, <2>1, LiveStreamAssumption DEF PumpReceive, AtPush, One
      <3>3. InIngest(p)' = InIngest(p) - One(Head(ingest) = p)
        BY <1>1, <2>1, CountTail DEF PumpReceive, InIngest, Count
      <3>4. /\ AtPub(p)' = AtPub(p) /\ InQueues(p)' = InQueues(p) /\ InHands(p)' = InHands(p)
            /\ InCaches(p)' = InCaches(p) /\ Thrown(p)' = Thrown(p)
        BY <1>1 DEF PumpReceive, subVars, AtPub, InQueues, InHands, InCaches, Thrown
      <3> QED
        BY <1>0, <3>1, <3>2, <3>3, <3>4 DEF Numbers, Elsewhere
    <2> QED
      BY <1>1, <2>3, Moved DEF PumpReceive, pktVars
  <1>2. CASE PumpQuit
    <2>1. pump'.pkt = pump.pkt /\ pump'.cur = pump.cur
      BY <1>2 DEF PumpQuit, PumpIdle, Shapes
    <2> QED
      BY <1>2, <2>1, Unmoved DEF PumpQuit, pktVars, subVars
  <1>3. CASE DeliverPush
    <2>1. pump.pkt \in Packets
      BY <1>3 DEF DeliverPush, Shapes
    <2> DEFINE dec == Count(<<pump.pkt>>)
    <2>2. dec \in [Packets -> Nat] /\ \A p \in Packets : dec[p] = One(pump.pkt = p)
      BY <2>1, CountSingle
    <2>3. RetainRelease(Nothing, dec) /\ UNCHANGED <<frame, pub>>
      BY <1>3 DEF DeliverPush, Release
    <2> HIDE DEF dec
    <2>4. ASSUME NEW p \in Packets
          PROVE  /\ Elsewhere(p)' = Elsewhere(p) + Nothing[p] - dec[p]
                 /\ Nothing[p] > 0 \/ dec[p] > 0 => Elsewhere(p) > 0
      <3>1. AtPump(p)' = AtPump(p) /\ AtPump(p) = One(pump.pkt = p)
        BY <1>3 DEF DeliverPush, TypeOK, StreamTypes, AtPump
      <3>2. AtPush(p) = One(pump.pkt = p) /\ AtPush(p)' = 0
        BY <1>3 DEF DeliverPush, TypeOK, StreamTypes, AtPush, One
      <3>3. /\ InIngest(p)' = InIngest(p) /\ InQueues(p)' = InQueues(p) /\ InHands(p)' = InHands(p)
            /\ InCaches(p)' = InCaches(p) /\ Thrown(p)' = Thrown(p)
        BY <1>3 DEF DeliverPush, InIngest, InQueues, InHands, InCaches, Thrown
      <3>4. Nothing[p] = 0 /\ dec[p] = One(pump.pkt = p)
        BY <2>2, NothingZero
      <3> QED
        BY <1>0, <3>1, <3>2, <3>3, <3>4 DEF Numbers, Elsewhere
    <2> QED
      BY <2>2, <2>3, <2>4, NothingZero, Ledger DEF LedgerInv
  <1>4. CASE PumpRelease
    <2>1. pump.pkt \in Packets
      BY <1>4 DEF PumpRelease, Shapes
    <2> DEFINE dec == Count(<<pump.pkt>>)
    <2>2. dec \in [Packets -> Nat] /\ \A p \in Packets : dec[p] = One(pump.pkt = p)
      BY <2>1, CountSingle
    <2>3. RetainRelease(Nothing, dec) /\ UNCHANGED <<frame, pub>>
      BY <1>4 DEF PumpRelease, Release
    <2> HIDE DEF dec
    <2>4. ASSUME NEW p \in Packets
          PROVE  /\ Elsewhere(p)' = Elsewhere(p) + Nothing[p] - dec[p]
                 /\ Nothing[p] > 0 \/ dec[p] > 0 => Elsewhere(p) > 0
      <3>1. AtPump(p)' = 0 /\ AtPump(p) = One(pump.pkt = p)
        BY <1>4, LiveStreamAssumption DEF PumpRelease, PumpIdle, AtPump, One
      <3>2. AtPush(p) = 0 /\ AtPush(p)' = 0
        BY <1>4 DEF PumpRelease, PumpIdle, AtPush, One
      <3>3. /\ InIngest(p)' = InIngest(p) /\ InQueues(p)' = InQueues(p) /\ InHands(p)' = InHands(p)
            /\ InCaches(p)' = InCaches(p) /\ Thrown(p)' = Thrown(p)
        BY <1>4 DEF PumpRelease, subVars, InIngest, InQueues, InHands, InCaches, Thrown
      <3>4. Nothing[p] = 0 /\ dec[p] = One(pump.pkt = p)
        BY <2>2, NothingZero
      <3> QED
        BY <1>0, <3>1, <3>2, <3>3, <3>4 DEF Numbers, Elsewhere
    <2> QED
      BY <2>2, <2>3, <2>4, NothingZero, Ledger DEF LedgerInv
  <1>5. ASSUME NEW s \in Subs, DeliverQueue(s)
        PROVE  LedgerInv'
    <2>1. pump.pkt \in Packets /\ pump.cur = NoSub
      BY <1>5 DEF DeliverQueue, Shapes
    <2> DEFINE one == Count(<<pump.pkt>>)
    <2>2. one \in [Packets -> Nat] /\ \A p \in Packets : one[p] = One(pump.pkt = p)
      BY <2>1, CountSingle
    <2>3. ASSUME NEW p \in Packets
          PROVE  /\ AtPump(p)' = AtPump(p) /\ AtPump(p) = One(pump.pkt = p)
                 /\ AtPush(p) = 0 /\ AtPush(p)' = 0
                 /\ InIngest(p)' = InIngest(p) /\ InHands(p)' = InHands(p)
                 /\ InCaches(p)' = InCaches(p) /\ Thrown(p)' = Thrown(p)
      <3>1. AtPump(p)' = AtPump(p) /\ AtPump(p) = One(pump.pkt = p)
        BY <1>5 DEF DeliverQueue, TypeOK, StreamTypes, AtPump
      <3>2. AtPush(p) = 0 /\ AtPush(p)' = 0
        BY <1>5, <2>1 DEF DeliverQueue, TypeOK, StreamTypes, AtPush, One
      <3>3. /\ InIngest(p)' = InIngest(p) /\ InHands(p)' = InHands(p)
            /\ InCaches(p)' = InCaches(p) /\ Thrown(p)' = Thrown(p)
        BY <1>5 DEF DeliverQueue, InIngest, InHands, InCaches, Thrown
      <3> QED
        BY <3>1, <3>2, <3>3
    <2>4. CASE Len(queue[s]) < SubBufSize
      <3>1. RetainRelease(one, Nothing) /\ UNCHANGED <<frame, pub>>
        BY <1>5, <2>4 DEF DeliverQueue, Retain
      <3> HIDE DEF one
      <3>2. ASSUME NEW p \in Packets
            PROVE  /\ Elsewhere(p)' = Elsewhere(p) + one[p] - Nothing[p]
                   /\ one[p] > 0 \/ Nothing[p] > 0 => Elsewhere(p) > 0
        <4>1. InQueues(p)' = InQueues(p) + One(pump.pkt = p)
          BY <1>0, <1>5, <2>1, <2>4, QueueAppend DEF DeliverQueue
        <4>2. Nothing[p] = 0 /\ one[p] = One(pump.pkt = p)
          BY <2>2, NothingZero
        <4> QED
          BY <1>0, <2>3, <4>1, <4>2 DEF Numbers, Elsewhere
      <3> QED
        BY <2>2, <3>1, <3>2, NothingZero, Ledger DEF LedgerInv
    <2>5. CASE ~(Len(queue[s]) < SubBufSize)
      <3>1. RetainRelease(one, one) /\ UNCHANGED <<frame, pub, queue>>
        BY <1>5, <2>5 DEF DeliverQueue
      <3> HIDE DEF one
      <3>2. ASSUME NEW p \in Packets
            PROVE  /\ Elsewhere(p)' = Elsewhere(p) + one[p] - one[p]
                   /\ one[p] > 0 \/ one[p] > 0 => Elsewhere(p) > 0
        <4>1. InQueues(p)' = InQueues(p)
          BY <3>1 DEF InQueues
        <4>2. one[p] \in Nat /\ one[p] = One(pump.pkt = p)
          BY <2>2
        <4> QED
          BY <1>0, <2>3, <4>1, <4>2 DEF Numbers, Elsewhere
      <3> QED
        BY <2>2, <3>1, <3>2, Ledger DEF LedgerInv
    <2> QED
      BY <2>4, <2>5
  <1>6. ASSUME NEW s \in Subs, DeliverCache(s)
        PROVE  LedgerInv'
    <2>1. pump.pkt \in Packets /\ pump.cur = NoSub
      BY <1>6 DEF DeliverCache, Shapes
    <2> DEFINE e == pump.pkt
               two == Count(<<pump.pkt, pump.pkt>>)
               v == NextGop(s, pump.pkt)
               dec == Count(GopDropped(s, pump.pkt))
    <2>2. two \in [Packets -> Nat] /\ \A p \in Packets : two[p] = One(e = p) + One(e = p)
      BY <2>1, CountDouble
    <2>3. gop \in [Subs -> Seq(Packets)] /\ gop[s] \in Seq(Packets) /\ Len(gop[s]) <= GopCacheMax
          /\ GopCacheMax \in Nat
      BY LiveStreamAssumption DEF TypeOK, SubscriberTypes, Bounds
    <2>4. /\ v \in Seq(Packets) /\ Len(v) <= GopCacheMax /\ GopDropped(s, e) \in Seq(Packets)
          /\ \A p \in Packets : Count(v)[p] = Count(gop[s])[p] + One(e = p) - dec[p]
      BY <2>1, <2>3, GopUpdate
    <2>5. dec \in [Packets -> Nat]
      BY <2>4, CountFun
    <2>6. RetainRelease(two, dec) /\ UNCHANGED <<frame, pub>> /\ gop' = [gop EXCEPT ![s] = v]
      BY <1>6 DEF DeliverCache
    <2> HIDE DEF two, v, dec
    <2>7. ASSUME NEW p \in Packets
          PROVE  /\ Elsewhere(p)' = Elsewhere(p) + two[p] - dec[p]
                 /\ two[p] > 0 \/ dec[p] > 0 => Elsewhere(p) > 0
      <3>1. AtPump(p)' = AtPump(p) /\ AtPump(p) = One(e = p)
        BY <1>6 DEF DeliverCache, TypeOK, StreamTypes, AtPump
      <3>2. AtPush(p) = 0 /\ AtPush(p)' = One(e = p)
        BY <1>6, <2>1, LiveStreamAssumption DEF DeliverCache, TypeOK, StreamTypes, AtPush, One
      <3>3. /\ InIngest(p)' = InIngest(p) /\ InHands(p)' = InHands(p)
            /\ InQueues(p)' = InQueues(p) /\ Thrown(p)' = Thrown(p)
        BY <1>6 DEF DeliverCache, InIngest, InHands, InQueues, Thrown
      <3>4. InCaches(p)' = InCaches(p) - Count(gop[s])[p] + Count(v)[p]
        BY <2>3, <2>4, <2>6, PlacesUpdate, ZenonT(60) DEF InCaches
      <3>5. Count(v)[p] = Count(gop[s])[p] + One(e = p) - dec[p] /\ Count(gop[s])[p] \in Nat
            /\ dec[p] \in Nat
        BY <2>3, <2>4, <2>5, CountType
      <3>6. two[p] = One(e = p) + One(e = p)
        BY <2>2
      <3>7. InCaches(p)' = InCaches(p) + One(e = p) - dec[p]
        <4>1. InCaches(p) \in Nat /\ One(e = p) \in Nat
          BY <1>0 DEF Numbers, One
        <4> QED
          BY <3>4, <3>5, <4>1
      <3> QED
        BY <1>0, <3>1, <3>2, <3>3, <3>5, <3>6, <3>7 DEF Numbers, Elsewhere
    <2> QED
      BY <2>2, <2>5, <2>6, <2>7, Ledger, ZenonT(60) DEF LedgerInv
  <1> QED
    BY <1>1, <1>2, <1>3, <1>4, <1>5, <1>6 DEF PumpStep

\* A subscriber's run goroutine: receive, write, leave, drain.
LEMMA RunCount ==
  ASSUME CountInv, TypeInv', NEW s \in Subs, RunStep(s)
  PROVE  LedgerInv'
  <1> USE DEF CountInv
  <1>0. Numbers /\ Numbers' /\ TypeInv /\ DOMAIN hand = Subs
    BY PartsNat, PartsNatNext DEF TypeInv, TypeOK, SubscriberTypes
  <1>1. CASE RunOpen(s) \/ RunLeave(s) \/ (RunDrain(s) /\ queue[s] = <<>>)
    BY <1>1, Unmoved DEF RunOpen, RunLeave, RunDrain, pktVars
  <1>2. CASE RunReceive(s)
    <2>1. queue[s] # <<>> /\ hand[s] = NoPacket
      BY <1>2 DEF RunReceive, Shapes
    <2>2. ASSUME NEW p \in Packets PROVE AtPub(p)' + Elsewhere(p)' = AtPub(p) + Elsewhere(p)
      <3>1. InQueues(p)' = InQueues(p) - One(Head(queue[s]) = p)
        BY <1>0, <1>2, <2>1, QueueTail DEF RunReceive
      <3>2. InHands(p)' = InHands(p) + One(Head(queue[s]) = p)
        <4>1. InHands(p)' = InHands(p) - One(hand[s] = p) + One(Head(queue[s]) = p)
          <5>1. hand' = [hand EXCEPT ![s] = Head(queue[s])]
            BY <1>2 DEF RunReceive
          <5>2. hand'[s] = Head(queue[s]) /\ \A x \in Subs \ {s} : hand'[x] = hand[x]
            BY <1>0, <5>1
          <5>3. InHands(p)' = InHands(p) - One(hand[s] = p) + One(hand'[s] = p)
            BY <5>2, HandChange
          <5> QED
            BY <5>2, <5>3
        <4>2. One(hand[s] = p) = 0 /\ InHands(p) \in Nat /\ One(Head(queue[s]) = p) \in Nat
          BY <1>0, <2>1, LiveStreamAssumption DEF One, Numbers
        <4> QED
          BY <4>1, <4>2
      <3>3. /\ AtPub(p)' = AtPub(p) /\ InIngest(p)' = InIngest(p) /\ AtPump(p)' = AtPump(p)
            /\ AtPush(p)' = AtPush(p) /\ InCaches(p)' = InCaches(p) /\ Thrown(p)' = Thrown(p)
        BY <1>2 DEF RunReceive, AtPub, InIngest, AtPump, AtPush, InCaches, Thrown
      <3>4. One(Head(queue[s]) = p) \in Nat
        BY DEF One
      <3> QED
        BY <1>0, <3>1, <3>2, <3>3, <3>4 DEF Numbers, Elsewhere
    <2> QED
      BY <1>2, <2>2, Moved DEF RunReceive, pktVars
  <1>3. CASE RunWrite(s)
    <2> DEFINE e == hand[s]
               dec == Count(<<hand[s]>>)
    <2>1. e \in Packets
      BY <1>3 DEF RunWrite, Shapes, TypeOK, SubscriberTypes
    <2>2. dec \in [Packets -> Nat] /\ \A p \in Packets : dec[p] = One(e = p)
      BY <2>1, CountSingle
    <2>3. RetainRelease(Nothing, dec) /\ UNCHANGED <<frame, pub>>
      BY <1>3 DEF RunWrite, Release
    <2> HIDE DEF dec
    <2>4. ASSUME NEW p \in Packets
          PROVE  /\ Elsewhere(p)' = Elsewhere(p) + Nothing[p] - dec[p]
                 /\ Nothing[p] > 0 \/ dec[p] > 0 => Elsewhere(p) > 0
      <3>1. InHands(p)' = InHands(p) - One(e = p)
        <4>1. InHands(p)' = InHands(p) - One(e = p) + One(NoPacket = p)
          <5>1. hand' = [hand EXCEPT ![s] = NoPacket]
            BY <1>3 DEF RunWrite
          <5>2. hand'[s] = NoPacket /\ \A x \in Subs \ {s} : hand'[x] = hand[x]
            BY <1>0, <5>1
          <5>3. InHands(p)' = InHands(p) - One(hand[s] = p) + One(hand'[s] = p)
            BY <5>2, HandChange
          <5> QED
            BY <5>2, <5>3
        <4>2. One(NoPacket = p) = 0 /\ InHands(p) \in Nat /\ One(e = p) \in Nat
          BY <1>0, LiveStreamAssumption DEF One, Numbers
        <4> QED
          BY <4>1, <4>2
      <3>2. /\ InIngest(p)' = InIngest(p) /\ AtPump(p)' = AtPump(p) /\ AtPush(p)' = AtPush(p)
            /\ InQueues(p)' = InQueues(p) /\ InCaches(p)' = InCaches(p) /\ Thrown(p)' = Thrown(p)
        BY <1>3 DEF RunWrite, InIngest, AtPump, AtPush, InQueues, InCaches, Thrown
      <3>3. Nothing[p] = 0 /\ dec[p] = One(e = p) /\ One(e = p) \in Nat
        BY <2>2, NothingZero DEF One
      <3> QED
        BY <1>0, <3>1, <3>2, <3>3 DEF Numbers, Elsewhere
    <2> QED
      BY <2>2, <2>3, <2>4, NothingZero, Ledger DEF LedgerInv
  <1>4. CASE RunDrain(s) /\ queue[s] # <<>>
    <2> DEFINE e == Head(queue[s])
               dec == Count(<<Head(queue[s])>>)
    <2>1. e \in Packets
      BY <1>4, HeadTailProperties DEF TypeOK, SubscriberTypes
    <2>2. dec \in [Packets -> Nat] /\ \A p \in Packets : dec[p] = One(e = p)
      BY <2>1, CountSingle
    <2>3. RetainRelease(Nothing, dec) /\ UNCHANGED <<frame, pub>>
      BY <1>4 DEF RunDrain, Release
    <2> HIDE DEF dec
    <2>4. ASSUME NEW p \in Packets
          PROVE  /\ Elsewhere(p)' = Elsewhere(p) + Nothing[p] - dec[p]
                 /\ Nothing[p] > 0 \/ dec[p] > 0 => Elsewhere(p) > 0
      <3>1. InQueues(p)' = InQueues(p) - One(e = p)
        BY <1>0, <1>4, QueueTail DEF RunDrain
      <3>2. /\ InIngest(p)' = InIngest(p) /\ AtPump(p)' = AtPump(p) /\ AtPush(p)' = AtPush(p)
            /\ InHands(p)' = InHands(p) /\ InCaches(p)' = InCaches(p) /\ Thrown(p)' = Thrown(p)
        BY <1>4 DEF RunDrain, InIngest, AtPump, AtPush, InHands, InCaches, Thrown
      <3>3. Nothing[p] = 0 /\ dec[p] = One(e = p) /\ One(e = p) \in Nat
        BY <2>2, NothingZero DEF One
      <3> QED
        BY <1>0, <3>1, <3>2, <3>3 DEF Numbers, Elsewhere
    <2> QED
      BY <2>2, <2>3, <2>4, NothingZero, Ledger DEF LedgerInv
  <1> QED
    BY <1>1, <1>2, <1>3, <1>4 DEF RunStep

\* Close of some subscribers gives back what their caches hold.
LEMMA CloseCount ==
  ASSUME CountInv, TypeInv', NEW S \in SUBSET Subs, CloseSubscribers(S),
         UNCHANGED <<frame, pub, ingest, pump, queue, hand, lost>>
  PROVE  LedgerInv'
  <1> USE DEF CountInv
  <1>0. Numbers /\ Numbers'
    BY PartsNat, PartsNatNext DEF TypeInv
  <1> DEFINE dec == Cached(S)
  <1>1. dec \in [Packets -> Nat] /\ \A p \in Packets : dec[p] = Cardinality(Places(gop, S, GopCacheMax, p))
    BY CachedFun
  <1>2. RetainRelease(Nothing, dec)
    BY DEF CloseSubscribers
  <1> HIDE DEF dec
  <1>3. ASSUME NEW p \in Packets
        PROVE  /\ Elsewhere(p)' = Elsewhere(p) + Nothing[p] - dec[p]
               /\ Nothing[p] > 0 \/ dec[p] > 0 => Elsewhere(p) > 0
    <2>1. InCaches(p)' = InCaches(p) - dec[p]
      <3>1. gop \in [Subs -> Seq(Packets)] /\ GopCacheMax \in Nat
        BY LiveStreamAssumption DEF TypeOK, SubscriberTypes
      <3>2. gop' = [s \in Subs |-> IF s \in S THEN <<>> ELSE gop[s]]
        BY DEF CloseSubscribers
      <3>3. Cardinality(Places(gop', Subs, GopCacheMax, p)) =
              Cardinality(Places(gop, Subs, GopCacheMax, p)) - Cardinality(Places(gop, S, GopCacheMax, p))
        BY <3>1, <3>2, PlacesCleared, ZenonT(60)
      <3> QED
        BY <1>1, <3>3 DEF InCaches
    <2>2. /\ InIngest(p)' = InIngest(p) /\ AtPump(p)' = AtPump(p) /\ AtPush(p)' = AtPush(p)
          /\ InQueues(p)' = InQueues(p) /\ InHands(p)' = InHands(p) /\ Thrown(p)' = Thrown(p)
      BY DEF InIngest, AtPump, AtPush, InQueues, InHands, Thrown
    <2>3. Nothing[p] = 0 /\ dec[p] \in Nat
      BY <1>1, NothingZero
    <2> QED
      BY <1>0, <2>1, <2>2, <2>3 DEF Numbers, Elsewhere
  <1> QED
    BY <1>1, <1>2, <1>3, NothingZero, Ledger DEF LedgerInv

\* Every step keeps the count of every packet equal to its holders.
LEMMA NextCount == CountInv /\ [Next]_vars => CountInv'
  <1> SUFFICES ASSUME CountInv, [Next]_vars
               PROVE  CountInv'
    OBVIOUS
  <1>1. TypeInv'
    BY NextType DEF CountInv, TypeInv
  <1>2. LedgerInv'
    <2>1. CASE BuildPacket \/ IngestCheck \/ IngestSend
      BY <1>1, <2>1, PublisherCount
    <2>2. CASE PumpStep
      BY <1>1, <2>2, PumpCount
    <2>3. CASE CloseMark \/ CloseDone
      BY <1>1, <2>3, Unmoved DEF CloseMark, CloseDone, pktVars, subVars
    <2>4. CASE CloseSubs
      <3>1. Attached \in SUBSET Subs
        BY DEF CountInv, TypeOK, StreamTypes, Attached
      <3> QED
        BY <1>1, <2>4, <3>1, CloseCount DEF CloseSubs
    <2>5. ASSUME NEW s \in Subs, RunStep(s) PROVE LedgerInv'
      BY <1>1, <2>5, RunCount
    <2>6. ASSUME NEW s \in Subs, OwnerStep(s) PROVE LedgerInv'
      <3>1. CASE NewSubscriber(s) \/ AddSubscriber(s) \/ SendGOPCopy(s) \/ SendGOPStep(s)
        BY <1>1, <3>1, Unmoved DEF NewSubscriber, AddSubscriber, SendGOPCopy, SendGOPStep, pktVars
      <3>2. CASE RemoveSubscriber(s)
        <4>1. {subs[ID[s]]} \ {NoSub} \in SUBSET Subs
          BY LiveStreamAssumption DEF CountInv, TypeOK, StreamTypes
        <4> QED
          BY <1>1, <3>2, <4>1, CloseCount DEF RemoveSubscriber
      <3>3. CASE CloseOwn(s)
        BY <1>1, <3>3, CloseCount DEF CloseOwn
      <3> QED
        BY <2>6, <3>1, <3>2, <3>3 DEF OwnerStep
    <2>7. CASE UNCHANGED vars
      BY <1>1, <2>7, Unmoved DEF vars, pktVars, subVars
    <2> QED
      BY <2>1, <2>2, <2>3, <2>4, <2>5, <2>6, <2>7 DEF Next, CloseStep
  <1> QED
    BY <1>1, <1>2 DEF CountInv, TypeInv, LedgerInv

\* The stream starts with no reference and no packet in use.
LEMMA InitCount == Init => CountInv
  <1> SUFFICES ASSUME Init
               PROVE  CountInv
    OBVIOUS
  <1>1. TypeInv /\ Numbers
    BY InitType, PartsNat
  <1>2. ASSUME NEW p \in Packets
        PROVE  Holders(p) = 0
    <2>1. AtPub(p) = 0 /\ AtPump(p) = 0 /\ AtPush(p) = 0 /\ Thrown(p) = 0
      BY LiveStreamAssumption DEF Init, PubIdle, PumpIdle, AtPub, AtPump, AtPush, Thrown, One
    <2>2. InIngest(p) = 0
      BY CountNothing DEF Init, InIngest, Count
    <2>3. InQueues(p) = 0 /\ InCaches(p) = 0
      <3>1. Places(queue, Subs, SubBufSize, p) = {} /\ Places(gop, Subs, GopCacheMax, p) = {}
        BY DEF Init, Places
      <3> QED
        BY <3>1, FS_EmptySet DEF InQueues, InCaches
    <2>4. InHands(p) = 0
      <3>1. {s \in Subs : hand[s] = p} = {}
        BY LiveStreamAssumption DEF Init
      <3> QED
        BY <3>1, FS_EmptySet DEF InHands
    <2> QED
      BY <1>1, <2>1, <2>2, <2>3, <2>4 DEF Numbers, Elsewhere
  <1>3. RefsMatchHolders /\ FreshUnheld /\ PubAlone
    BY <1>2 DEF RefsMatchHolders, FreshUnheld, PubAlone, Init, PubIdle
  <1> QED
    BY <1>1, <1>3 DEF CountInv, TypeInv

\* At every moment, in whatever order publisher, pump, run goroutines, viewers
\* and Close interleave, a packet's reference count is the number of places that
\* hold it, and the pool has exactly the used packets nobody holds.
THEOREM RefsAreHolders == Spec => []RefsMatchHolders
  <1>1. CountInv => RefsMatchHolders
    BY DEF CountInv
  <1> QED
    BY <1>1, InitCount, NextCount, PTL DEF Spec

-----------------------------------------------------------------------------
(* The order of frames.                                                    *)

\* A packet without references is in no channel and in nobody's hand.
LEMMA Unheld ==
  ASSUME CountInv, NEW p \in Packets, refs[p] = 0
  PROVE  /\ pump.pkt # p
         /\ \A i \in DOMAIN ingest : ingest[i] # p
         /\ \A s \in Subs : hand[s] # p /\ \A i \in DOMAIN queue[s] : queue[s][i] # p
  <1>1. AtPump(p) = 0 /\ InIngest(p) = 0 /\ InHands(p) = 0 /\ InQueues(p) = 0
    BY NowhereElse
  <1>2. IsFiniteSet(Subs) /\ SubBufSize \in Nat
    BY LiveStreamAssumption
  <1>3. pump.pkt # p
    BY <1>1 DEF AtPump, One
  <1>4. ASSUME NEW i \in DOMAIN ingest PROVE ingest[i] # p
    <2>1. ingest \in Seq(Packets)
      BY DEF CountInv, TypeOK, StreamTypes
    <2>2. {j \in DOMAIN ingest : ingest[j] = p} = {}
      BY <1>1, <2>1, CountType, FS_EmptySet DEF InIngest
    <2> QED
      BY <2>2
  <1>5. ASSUME NEW s \in Subs PROVE hand[s] # p
    <2>1. IsFiniteSet({x \in Subs : hand[x] = p})
      BY <1>2, FS_Subset
    <2>2. {x \in Subs : hand[x] = p} = {}
      BY <1>1, <2>1, FS_EmptySet DEF InHands
    <2> QED
      BY <2>2
  <1>6. ASSUME NEW s \in Subs, NEW i \in DOMAIN queue[s] PROVE queue[s][i] # p
    <2>1. Places(queue, Subs, SubBufSize, p) = {}
      BY <1>1, <1>2, PlacesFinite, FS_EmptySet DEF InQueues
    <2>2. queue[s] \in Seq(Packets) /\ Len(queue[s]) <= SubBufSize
      BY DEF CountInv, TypeOK, SubscriberTypes, Bounds
    <2>3. i \in 1 .. SubBufSize
      BY <1>2, <2>2, LenProperties
    <2>4. queue[s][i] = p => <<s, i>> \in Places(queue, Subs, SubBufSize, p)
      BY <2>3 DEF Places
    <2> QED
      BY <2>1, <2>4
  <1> QED
    BY <1>3, <1>4, <1>5, <1>6

\* The elements of a sequence with one appended, and of one without its head.
LEMMA AppendElements ==
  ASSUME NEW q \in Seq(Packets), NEW e \in Packets
  PROVE  \A i \in DOMAIN Append(q, e) :
           \/ i \in DOMAIN q /\ Append(q, e)[i] = q[i]
           \/ i = Len(q) + 1 /\ Append(q, e)[i] = e
  BY AppendProperties, LenProperties

\* The elements of a tail are those of the sequence, one place further on.
LEMMA TailElements ==
  ASSUME NEW q \in Seq(Packets), q # <<>>
  PROVE  /\ 1 \in DOMAIN q /\ Head(q) = q[1] /\ q[1] \in Packets
         /\ \A i \in DOMAIN Tail(q) : i + 1 \in DOMAIN q /\ Tail(q)[i] = q[i + 1] /\ 1 < i + 1 /\ i \in Int
  <1>1. Len(q) \in Nat \ {0} /\ DOMAIN q = 1 .. Len(q)
    BY EmptySeq, LenProperties
  <1>2. /\ Head(q) = q[1] /\ Head(q) \in Packets /\ Tail(q) \in Seq(Packets)
        /\ Len(Tail(q)) = Len(q) - 1 /\ \A i \in 1 .. Len(Tail(q)) : Tail(q)[i] = q[i + 1]
    BY HeadTailProperties
  <1>3. DOMAIN Tail(q) = 1 .. (Len(q) - 1)
    BY <1>2, LenProperties
  <1> QED
    BY <1>1, <1>2, <1>3

\* A later frame at the end, or one frame less at the head, keeps the order.
LEMMA RisingAppend ==
  ASSUME frame \in [Packets -> Nat], NEW q \in Seq(Packets), NEW e \in Packets, Rising(q),
         \A i \in DOMAIN q : frame[q[i]] < frame[e]
  PROVE  Rising(Append(q, e))
  <1> DEFINE a == Append(q, e)
  <1>1. \A i \in DOMAIN a : (i \in DOMAIN q /\ a[i] = q[i]) \/ (i = Len(q) + 1 /\ a[i] = e)
    BY AppendElements
  <1>2. DOMAIN q = 1 .. Len(q) /\ Len(q) \in Nat
    BY LenProperties
  <1> HIDE DEF a
  <1>3. ASSUME NEW i \in DOMAIN a, NEW j \in DOMAIN a, i < j
        PROVE  frame[a[i]] < frame[a[j]]
    <2>1. i \in DOMAIN q /\ a[i] = q[i]
      BY <1>1, <1>2, <1>3
    <2> QED
      BY <1>1, <1>2, <1>3, <2>1 DEF Rising
  <1> QED
    BY <1>3 DEF Rising, a

\* The tail of a rising queue rises, and its frames come after the head.
LEMMA RisingTail ==
  ASSUME NEW q \in Seq(Packets), q # <<>>, Rising(q)
  PROVE  Rising(Tail(q)) /\ \A i \in DOMAIN Tail(q) : frame[Head(q)] < frame[Tail(q)[i]]
  <1>1. /\ 1 \in DOMAIN q /\ Head(q) = q[1]
        /\ \A i \in DOMAIN Tail(q) : i + 1 \in DOMAIN q /\ Tail(q)[i] = q[i + 1] /\ 1 < i + 1 /\ i \in Int
    BY TailElements
  <1>2. ASSUME NEW i \in DOMAIN Tail(q), NEW j \in DOMAIN Tail(q), i < j
        PROVE  frame[Tail(q)[i]] < frame[Tail(q)[j]]
    <2>1. i + 1 < j + 1
      BY <1>1, <1>2
    <2> QED
      BY <1>1, <2>1 DEF Rising
  <1>3. ASSUME NEW i \in DOMAIN Tail(q) PROVE frame[Head(q)] < frame[Tail(q)[i]]
    BY <1>1 DEF Rising
  <1> QED
    BY <1>2, <1>3 DEF Rising

\* The types that the order is about.
OrderTypes ==
  /\ frame \in [Packets -> Nat] /\ last \in [Subs -> Nat] /\ sent \in Nat
  /\ ingest \in Seq(Packets) /\ \A i \in DOMAIN ingest : ingest[i] \in Packets
  /\ queue \in [Subs -> Seq(Packets)] /\ \A s \in Subs : \A i \in DOMAIN queue[s] : queue[s][i] \in Packets
  /\ hand \in [Subs -> Packets \cup {NoPacket}]
  /\ pub.pkt \in Packets \cup {NoPacket} /\ pump.pkt \in Packets \cup {NoPacket}
  /\ pump.todo \subseteq Subs /\ (pump.todo # {} => pump.pkt \in Packets)

\* The types the order of frames rests on.
LEMMA OrderTyped == TypeInv => OrderTypes
  <1> SUFFICES ASSUME TypeInv
               PROVE  OrderTypes
    OBVIOUS
  <1>1. Len(Frames) \in Nat
    BY LiveStreamAssumption, LenProperties
  <1>2. frame \in [Packets -> Nat] /\ last \in [Subs -> Nat] /\ sent \in Nat
    BY <1>1 DEF TypeInv, TypeOK, PacketTypes, StreamTypes, SubscriberTypes
  <1>3. /\ ingest \in Seq(Packets) /\ queue \in [Subs -> Seq(Packets)]
        /\ hand \in [Subs -> Packets \cup {NoPacket}]
    BY DEF TypeInv, TypeOK, StreamTypes, SubscriberTypes
  <1>4. /\ pub.pkt \in Packets \cup {NoPacket} /\ pump.pkt \in Packets \cup {NoPacket}
        /\ pump.todo \subseteq Subs /\ (pump.todo # {} => pump.pkt \in Packets)
    BY DEF TypeInv, TypeOK, StreamTypes, Shapes
  <1>5. ASSUME NEW q \in Seq(Packets), NEW i \in DOMAIN q PROVE q[i] \in Packets
    BY LenProperties, ElementOfSeq
  <1> QED
    BY <1>2, <1>3, <1>4, <1>5 DEF OrderTypes

\* Steps that move no packet between channels and hands.
LEMMA OrderKept ==
  ASSUME OrderTypes, OrderInv, UNCHANGED <<frame, sent, ingest, queue, hand, last>>,
         pub'.pkt = pub.pkt \/ pub'.pkt = NoPacket,
         \/ pump'.pkt = pump.pkt /\ pump'.todo \subseteq pump.todo
         \/ pump'.pkt = NoPacket /\ pump'.todo = {}
  PROVE  OrderInv'
  <1> USE DEF OrderTypes
  <1>1. Coming \in Nat /\ Coming' \in Nat /\ Coming <= Coming'
    BY DEF Coming
  <1>2. UpstreamInOrder'
    <2>1. pub'.pkt # NoPacket => frame'[pub'.pkt] = sent'
      BY DEF OrderInv, UpstreamInOrder
    <2>2. Rising(ingest)'
      BY DEF OrderInv, UpstreamInOrder, Rising
    <2>3. ASSUME NEW i \in DOMAIN ingest PROVE frame[ingest[i]] < Coming'
      BY <1>1 DEF OrderInv, UpstreamInOrder
    <2>4. ASSUME pump'.pkt # NoPacket
          PROVE  frame[pump'.pkt] < Coming' /\ \A i \in DOMAIN ingest : frame[pump'.pkt] < frame[ingest[i]]
      BY <1>1, <2>4 DEF OrderInv, UpstreamInOrder
    <2> QED
      BY <2>1, <2>2, <2>3, <2>4 DEF UpstreamInOrder
  <1>3. ASSUME NEW t \in Subs PROVE DownstreamInOrder(t)'
    <2>1. DownstreamInOrder(t)
      BY DEF OrderInv
    <2>2. Rising(queue[t])'
      BY <2>1 DEF DownstreamInOrder, Rising
    <2>3. Before(t, Coming)'
      BY <1>1, <2>1 DEF DownstreamInOrder, Before
    <2>4. ASSUME NEW i \in DOMAIN ingest' PROVE Before(t, frame[ingest[i]])'
      BY <2>1, <2>4 DEF DownstreamInOrder, Before
    <2>5. ASSUME t \in pump'.todo PROVE Before(t, frame[pump.pkt])'
      BY <2>1, <2>5 DEF DownstreamInOrder, Before
    <2>6. (\A i \in DOMAIN queue[t] :
             last[t] < frame[queue[t][i]] /\ (hand[t] # NoPacket => frame[hand[t]] < frame[queue[t][i]]))'
      BY <2>1 DEF DownstreamInOrder
    <2>7. (hand[t] # NoPacket => last[t] < frame[hand[t]])'
      BY <2>1 DEF DownstreamInOrder
    <2> QED
      BY <2>2, <2>3, <2>4, <2>5, <2>6, <2>7 DEF DownstreamInOrder
  <1> QED
    BY <1>2, <1>3 DEF OrderInv

\* A new frame is written into a packet nobody holds.
LEMMA OrderBuild ==
  ASSUME CountInv, OrderTypes, OrderInv, BuildPacket
  PROVE  OrderInv'
  <1> USE DEF OrderTypes
  <1>1. PICK p \in Allocatable :
          frame' = [frame EXCEPT ![p] = sent + 1] /\ pub' = [pc |-> "check", pkt |-> p]
    BY DEF BuildPacket
  <1>2. p \in Packets /\ refs[p] = 0
    BY <1>1 DEF Allocatable, CountInv, RefsMatchHolders, FreshUnheld, TypeOK, PacketTypes
  <1>3. /\ pump.pkt # p
        /\ \A i \in DOMAIN ingest : ingest[i] # p
        /\ \A s \in Subs : hand[s] # p /\ \A i \in DOMAIN queue[s] : queue[s][i] # p
    BY <1>2, Unheld
  <1>4. pub.pkt = NoPacket /\ UNCHANGED <<ingest, pump, queue, hand, last>> /\ sent' = sent + 1
    BY DEF BuildPacket, subVars, CountInv, Shapes
  <1>5. Coming' = Coming /\ frame'[p] = sent' /\ \A x \in Packets \ {p} : frame'[x] = frame[x]
    BY <1>1, <1>2, <1>4, LiveStreamAssumption DEF Coming
  <1>6. UpstreamInOrder'
    <2>1. Rising(ingest)'
      BY <1>3, <1>4, <1>5 DEF OrderInv, UpstreamInOrder, Rising
    <2>2. (\A i \in DOMAIN ingest : frame[ingest[i]] < Coming)'
      BY <1>3, <1>4, <1>5 DEF OrderInv, UpstreamInOrder
    <2>3. (pump.pkt # NoPacket =>
             frame[pump.pkt] < Coming /\ \A i \in DOMAIN ingest : frame[pump.pkt] < frame[ingest[i]])'
      BY <1>3, <1>4, <1>5 DEF OrderInv, UpstreamInOrder
    <2> QED
      BY <1>1, <1>5, <2>1, <2>2, <2>3 DEF UpstreamInOrder
  <1>7. ASSUME NEW t \in Subs PROVE DownstreamInOrder(t)'
    <2>1. DownstreamInOrder(t)
      BY DEF OrderInv
    <2>2. /\ \A i \in DOMAIN queue[t] : frame'[queue[t][i]] = frame[queue[t][i]]
          /\ hand[t] # NoPacket => frame'[hand[t]] = frame[hand[t]]
          /\ \A i \in DOMAIN ingest : frame'[ingest[i]] = frame[ingest[i]]
          /\ pump.pkt # NoPacket => frame'[pump.pkt] = frame[pump.pkt]
      BY <1>3, <1>5
    <2>3. Rising(queue[t])'
      BY <1>4, <2>1, <2>2 DEF DownstreamInOrder, Rising
    <2>4. Before(t, Coming)'
      BY <1>4, <1>5, <2>1, <2>2 DEF DownstreamInOrder, Before
    <2>5. ASSUME NEW i \in DOMAIN ingest' PROVE Before(t, frame[ingest[i]])'
      BY <1>4, <2>1, <2>2, <2>5 DEF DownstreamInOrder, Before
    <2>6. ASSUME t \in pump'.todo PROVE Before(t, frame[pump.pkt])'
      <3>1. frame'[pump.pkt] = frame[pump.pkt]
        BY <1>4, <2>2, <2>6, LiveStreamAssumption
      <3> QED
        BY <1>4, <2>1, <2>2, <2>6, <3>1 DEF DownstreamInOrder, Before
    <2>7. (\A i \in DOMAIN queue[t] :
             last[t] < frame[queue[t][i]] /\ (hand[t] # NoPacket => frame[hand[t]] < frame[queue[t][i]]))'
      BY <1>4, <2>1, <2>2 DEF DownstreamInOrder
    <2>8. (hand[t] # NoPacket => last[t] < frame[hand[t]])'
      BY <1>4, <2>1, <2>2 DEF DownstreamInOrder
    <2> QED
      BY <2>3, <2>4, <2>5, <2>6, <2>7, <2>8 DEF DownstreamInOrder
  <1> QED
    BY <1>6, <1>7 DEF OrderInv

\* Ingest sends the newest frame behind the older ones.
LEMMA OrderSend ==
  ASSUME OrderTypes, OrderInv, pub.pkt # NoPacket, pub'.pkt = NoPacket, ingest' = Append(ingest, pub.pkt),
         UNCHANGED <<frame, sent, pump, queue, hand, last>>
  PROVE  OrderInv'
  <1> USE DEF OrderTypes
  <1> DEFINE e == pub.pkt
             q == Append(ingest, pub.pkt)
  <1>1. e \in Packets /\ frame[e] = sent /\ Coming = sent /\ Coming' = sent + 1
    BY DEF Coming, OrderInv, UpstreamInOrder
  <1>2. \A i \in DOMAIN ingest : frame[ingest[i]] < frame[e]
    BY <1>1 DEF OrderInv, UpstreamInOrder
  <1>3. \A i \in DOMAIN q : (i \in DOMAIN ingest /\ q[i] = ingest[i]) \/ q[i] = e
    BY <1>1, AppendElements
  <1>4. Rising(q)
    BY <1>1, <1>2, RisingAppend DEF OrderInv, UpstreamInOrder
  <1>5. ingest' = q
    OBVIOUS
  <1> HIDE DEF e, q
  <1>6. UpstreamInOrder'
    <2>1. Rising(ingest)'
      BY <1>4, <1>5 DEF Rising
    <2>2. (\A i \in DOMAIN ingest : frame[ingest[i]] < Coming)'
      <3>1. ASSUME NEW i \in DOMAIN q PROVE frame[q[i]] < sent + 1
        <4>1. CASE i \in DOMAIN ingest /\ q[i] = ingest[i]
          <5>1. frame[ingest[i]] < sent /\ frame[ingest[i]] \in Nat
            BY <1>1, <1>2, <4>1
          <5> QED
            BY <4>1, <5>1
        <4>2. CASE q[i] = e
          BY <1>1, <4>2
        <4> QED
          BY <1>3, <4>1, <4>2
      <3> QED
        BY <1>1, <1>5, <3>1
    <2>3. (pump.pkt # NoPacket =>
             frame[pump.pkt] < Coming /\ \A i \in DOMAIN ingest : frame[pump.pkt] < frame[ingest[i]])'
      BY <1>1, <1>3, <1>5, SMTT(30) DEF OrderInv, UpstreamInOrder
    <2> QED
      BY <2>1, <2>2, <2>3 DEF UpstreamInOrder
  <1>7. ASSUME NEW t \in Subs PROVE DownstreamInOrder(t)'
    <2>1. DownstreamInOrder(t)
      BY DEF OrderInv
    <2>2. Before(t, sent)
      BY <1>1, <2>1 DEF DownstreamInOrder
    <2>3. Before(t, Coming)'
      BY <1>1, <2>2 DEF Before
    <2>4. ASSUME NEW i \in DOMAIN ingest' PROVE Before(t, frame[ingest[i]])'
      BY <1>1, <1>3, <1>5, <2>1, <2>2, <2>4 DEF DownstreamInOrder, Before
    <2>5. ASSUME t \in pump'.todo PROVE Before(t, frame[pump.pkt])'
      BY <2>1, <2>5 DEF DownstreamInOrder, Before
    <2>6. Rising(queue[t])'
      BY <2>1 DEF DownstreamInOrder, Rising
    <2> QED
      BY <2>1, <2>3, <2>4, <2>5, <2>6 DEF DownstreamInOrder
  <1> QED
    BY <1>6, <1>7 DEF OrderInv

\* The pump takes the oldest frame of the channel, later than what it fanned out before.
LEMMA OrderReceive ==
  ASSUME OrderTypes, OrderInv, ingest # <<>>, pump'.pkt = Head(ingest), ingest' = Tail(ingest),
         pump'.todo \subseteq Subs, UNCHANGED <<frame, sent, pub, queue, hand, last>>
  PROVE  OrderInv'
  <1> USE DEF OrderTypes
  <1> DEFINE e == Head(ingest)
             q == Tail(ingest)
  <1>1. Coming' = Coming
    BY DEF Coming
  <1>2. /\ 1 \in DOMAIN ingest /\ e = ingest[1] /\ e \in Packets
        /\ \A i \in DOMAIN q : i + 1 \in DOMAIN ingest /\ q[i] = ingest[i + 1]
    BY TailElements
  <1>3. Rising(q) /\ \A i \in DOMAIN q : frame[e] < frame[q[i]]
    BY RisingTail DEF OrderInv, UpstreamInOrder
  <1>4. ingest' = q /\ pump'.pkt = e
    OBVIOUS
  <1> HIDE DEF e, q
  <1>5. UpstreamInOrder'
    <2>1. Rising(ingest)'
      BY <1>3, <1>4 DEF Rising
    <2>2. (\A i \in DOMAIN ingest : frame[ingest[i]] < Coming)'
      BY <1>1, <1>2, <1>4 DEF OrderInv, UpstreamInOrder
    <2>3. (frame[pump.pkt] < Coming /\ \A i \in DOMAIN ingest : frame[pump.pkt] < frame[ingest[i]])'
      BY <1>1, <1>2, <1>3, <1>4 DEF OrderInv, UpstreamInOrder
    <2>4. (pub.pkt # NoPacket => frame[pub.pkt] = sent)'
      BY DEF OrderInv, UpstreamInOrder
    <2> QED
      BY <2>1, <2>2, <2>3, <2>4 DEF UpstreamInOrder
  <1>6. ASSUME NEW t \in Subs PROVE DownstreamInOrder(t)'
    <2>1. DownstreamInOrder(t)
      BY DEF OrderInv
    <2>2. Before(t, Coming)'
      BY <1>1, <2>1 DEF DownstreamInOrder, Before
    <2>3. ASSUME NEW i \in DOMAIN ingest' PROVE Before(t, frame[ingest[i]])'
      BY <1>2, <1>4, <2>1, <2>3, SMTT(30) DEF DownstreamInOrder, Before
    <2>4. Before(t, frame[pump.pkt])'
      BY <1>2, <1>4, <2>1 DEF DownstreamInOrder, Before
    <2>5. Rising(queue[t])'
      BY <2>1 DEF DownstreamInOrder, Rising
    <2> QED
      BY <2>1, <2>2, <2>3, <2>4, <2>5 DEF DownstreamInOrder
  <1> QED
    BY <1>5, <1>6 DEF OrderInv

\* Deliver puts the frame behind what the subscriber has, which is older.
LEMMA OrderDeliver ==
  ASSUME OrderTypes, OrderInv, NEW s \in pump.todo, queue' = [queue EXCEPT ![s] = Append(@, pump.pkt)],
         pump'.pkt = pump.pkt, pump'.todo = pump.todo \ {s},
         UNCHANGED <<frame, sent, pub, ingest, hand, last>>
  PROVE  OrderInv'
  <1> USE DEF OrderTypes
  <1> DEFINE e == pump.pkt
             q == Append(queue[s], pump.pkt)
  <1>1. Coming' = Coming /\ Coming \in Nat
    BY DEF Coming
  <1>2. s \in Subs /\ e \in Packets /\ Before(s, frame[e]) /\ Rising(queue[s])
    BY DEF OrderInv, DownstreamInOrder
  <1>3. \A i \in DOMAIN q : (i \in DOMAIN queue[s] /\ q[i] = queue[s][i]) \/ q[i] = e
    BY <1>2, AppendElements
  <1>4. Rising(q)
    BY <1>2, RisingAppend DEF Before
  <1>5. queue'[s] = q /\ \A t \in Subs \ {s} : queue'[t] = queue[t]
    BY <1>2
  <1>6. frame[e] < Coming /\ \A i \in DOMAIN ingest : frame[e] < frame[ingest[i]]
    BY <1>2, LiveStreamAssumption DEF OrderInv, UpstreamInOrder
  <1>7. pump'.pkt = e
    OBVIOUS
  <1>8. UpstreamInOrder'
    BY <1>1 DEF OrderInv, UpstreamInOrder, Rising
  <1> HIDE DEF e, q
  <1>9. ASSUME NEW t \in Subs, t # s PROVE DownstreamInOrder(t)'
    <2>1. DownstreamInOrder(t) /\ queue'[t] = queue[t]
      BY <1>5, <1>9 DEF OrderInv
    <2>2. Before(t, Coming)'
      BY <1>1, <2>1 DEF DownstreamInOrder, Before
    <2>3. ASSUME NEW i \in DOMAIN ingest' PROVE Before(t, frame[ingest[i]])'
      BY <2>1, <2>3 DEF DownstreamInOrder, Before
    <2>4. ASSUME t \in pump'.todo PROVE Before(t, frame[pump.pkt])'
      BY <2>1, <2>4 DEF DownstreamInOrder, Before
    <2>5. Rising(queue[t])'
      BY <2>1 DEF DownstreamInOrder, Rising
    <2> QED
      BY <2>1, <2>2, <2>3, <2>4, <2>5 DEF DownstreamInOrder
  <1>10. DownstreamInOrder(s)'
    <2>1. DownstreamInOrder(s)
      BY <1>2 DEF OrderInv
    <2>2. \A i \in DOMAIN q : /\ last[s] < frame[q[i]]
                              /\ hand[s] # NoPacket => frame[hand[s]] < frame[q[i]]
      BY <1>2, <1>3, <2>1 DEF DownstreamInOrder, Before
    <2>3. Before(s, Coming)'
      BY <1>1, <1>2, <1>3, <1>5, <1>6, <2>1 DEF DownstreamInOrder, Before
    <2>4. ASSUME NEW i \in DOMAIN ingest' PROVE Before(s, frame[ingest[i]])'
      BY <1>2, <1>3, <1>5, <1>6, <2>1, <2>4 DEF DownstreamInOrder, Before
    <2>5. Rising(queue[s])'
      BY <1>4, <1>5 DEF Rising
    <2>6. s \notin pump'.todo
      OBVIOUS
    <2>7. (hand[s] # NoPacket => last[s] < frame[hand[s]])'
      BY <2>1 DEF DownstreamInOrder
    <2> QED
      BY <1>5, <2>2, <2>3, <2>4, <2>5, <2>6, <2>7 DEF DownstreamInOrder
  <1> QED
    BY <1>8, <1>9, <1>10 DEF OrderInv

\* A run goroutine takes the oldest frame of its channel, to write or to drop it.
LEMMA OrderTake ==
  ASSUME OrderTypes, OrderInv, NEW s \in Subs, queue[s] # <<>>, queue' = [queue EXCEPT ![s] = Tail(@)],
         hand' = hand \/ (hand[s] = NoPacket /\ hand' = [hand EXCEPT ![s] = Head(queue[s])]),
         UNCHANGED <<frame, sent, pub, ingest, pump, last>>
  PROVE  OrderInv'
  <1> USE DEF OrderTypes
  <1> DEFINE e == Head(queue[s])
             q == Tail(queue[s])
  <1>1. Coming' = Coming /\ Coming \in Nat
    BY DEF Coming
  <1>2. /\ 1 \in DOMAIN queue[s] /\ e = queue[s][1] /\ e \in Packets
        /\ \A i \in DOMAIN q : i + 1 \in DOMAIN queue[s] /\ q[i] = queue[s][i + 1]
    BY TailElements
  <1>3. Rising(q) /\ \A i \in DOMAIN q : frame[e] < frame[q[i]]
    BY RisingTail DEF OrderInv, DownstreamInOrder
  <1>4. queue'[s] = q /\ \A t \in Subs \ {s} : queue'[t] = queue[t]
    OBVIOUS
  <1>5. /\ hand'[s] = hand[s] \/ (hand[s] = NoPacket /\ hand'[s] = e)
        /\ \A t \in Subs \ {s} : hand'[t] = hand[t]
    OBVIOUS
  <1>6. UpstreamInOrder'
    BY <1>1 DEF OrderInv, UpstreamInOrder, Rising
  <1> HIDE DEF e, q
  <1>7. ASSUME NEW t \in Subs, t # s PROVE DownstreamInOrder(t)'
    <2>1. DownstreamInOrder(t) /\ queue'[t] = queue[t] /\ hand'[t] = hand[t]
      BY <1>4, <1>5, <1>7 DEF OrderInv
    <2>2. Before(t, Coming)'
      BY <1>1, <2>1 DEF DownstreamInOrder, Before
    <2>3. ASSUME NEW i \in DOMAIN ingest' PROVE Before(t, frame[ingest[i]])'
      BY <2>1, <2>3 DEF DownstreamInOrder, Before
    <2>4. ASSUME t \in pump'.todo PROVE Before(t, frame[pump.pkt])'
      BY <2>1, <2>4 DEF DownstreamInOrder, Before
    <2>5. Rising(queue[t])'
      BY <2>1 DEF DownstreamInOrder, Rising
    <2> QED
      BY <2>1, <2>2, <2>3, <2>4, <2>5 DEF DownstreamInOrder
  <1>8. DownstreamInOrder(s)'
    <2>1. DownstreamInOrder(s)
      BY DEF OrderInv
    <2>2. ASSUME NEW n, Before(s, n)
          PROVE  /\ last[s] < n
                 /\ hand'[s] # NoPacket => frame[hand'[s]] < n
                 /\ \A i \in DOMAIN q : frame[q[i]] < n
      BY <1>2, <1>5, <2>2 DEF Before
    <2>3. Before(s, Coming)'
      BY <1>1, <1>4, <2>1, <2>2 DEF DownstreamInOrder, Before
    <2>4. ASSUME NEW i \in DOMAIN ingest' PROVE Before(s, frame[ingest[i]])'
      BY <1>4, <2>1, <2>2, <2>4 DEF DownstreamInOrder, Before
    <2>5. ASSUME s \in pump'.todo PROVE Before(s, frame[pump.pkt])'
      BY <1>4, <2>1, <2>2, <2>5 DEF DownstreamInOrder, Before
    <2>6. Rising(queue[s])'
      BY <1>3, <1>4 DEF Rising
    <2>7. \A i \in DOMAIN q : /\ last[s] < frame[q[i]]
                              /\ hand'[s] # NoPacket => frame[hand'[s]] < frame[q[i]]
      BY <1>2, <1>3, <1>5, <2>1 DEF DownstreamInOrder
    <2>8. hand'[s] # NoPacket => last[s] < frame[hand'[s]]
      BY <1>2, <1>5, <2>1 DEF DownstreamInOrder
    <2> QED
      BY <1>4, <2>3, <2>4, <2>5, <2>6, <2>7, <2>8 DEF DownstreamInOrder
  <1> QED
    BY <1>6, <1>7, <1>8 DEF OrderInv

\* A run goroutine writes the frame it has in hand.
LEMMA OrderWrite ==
  ASSUME OrderTypes, OrderInv, NEW s \in Subs, hand[s] # NoPacket, hand' = [hand EXCEPT ![s] = NoPacket],
         last' = [last EXCEPT ![s] = frame[hand[s]]],
         UNCHANGED <<frame, sent, pub, ingest, pump, queue>>
  PROVE  OrderInv'
  <1> USE DEF OrderTypes
  <1>1. Coming' = Coming /\ Coming \in Nat
    BY DEF Coming
  <1>2. /\ hand'[s] = NoPacket /\ last'[s] = frame[hand[s]]
        /\ \A t \in Subs \ {s} : hand'[t] = hand[t] /\ last'[t] = last[t]
    OBVIOUS
  <1>3. UpstreamInOrder'
    BY <1>1 DEF OrderInv, UpstreamInOrder, Rising
  <1>4. ASSUME NEW t \in Subs PROVE DownstreamInOrder(t)'
    <2>1. DownstreamInOrder(t) /\ (t = s \/ (hand'[t] = hand[t] /\ last'[t] = last[t]))
      BY <1>2 DEF OrderInv
    <2>2. Before(t, Coming)'
      BY <1>1, <1>2, <2>1 DEF DownstreamInOrder, Before
    <2>3. ASSUME NEW i \in DOMAIN ingest' PROVE Before(t, frame[ingest[i]])'
      BY <1>2, <2>1, <2>3 DEF DownstreamInOrder, Before
    <2>4. ASSUME t \in pump'.todo PROVE Before(t, frame[pump.pkt])'
      BY <1>2, <2>1, <2>4 DEF DownstreamInOrder, Before
    <2>5. Rising(queue[t])'
      BY <2>1 DEF DownstreamInOrder, Rising
    <2>6. (\A i \in DOMAIN queue[t] :
             last[t] < frame[queue[t][i]] /\ (hand[t] # NoPacket => frame[hand[t]] < frame[queue[t][i]]))'
      BY <1>2, <2>1 DEF DownstreamInOrder
    <2>7. (hand[t] # NoPacket => last[t] < frame[hand[t]])'
      BY <1>2, <2>1 DEF DownstreamInOrder
    <2> QED
      BY <2>2, <2>3, <2>4, <2>5, <2>6, <2>7 DEF DownstreamInOrder
  <1> QED
    BY <1>3, <1>4 DEF OrderInv

\* Every step keeps the frames in order.
LEMMA NextOrder == CountInv /\ OrderInv /\ [Next]_vars => OrderInv'
  <1> SUFFICES ASSUME CountInv, OrderInv, [Next]_vars
               PROVE  OrderInv'
    OBVIOUS
  <1>0. OrderTypes /\ Shapes /\ StreamTypes
    BY OrderTyped DEF CountInv, TypeInv, TypeOK
  <1>1. CASE BuildPacket
    BY <1>0, <1>1, OrderBuild
  <1>2. CASE IngestCheck \/ (IngestSend /\ ~(Len(ingest) < IngestBufSize))
    <2>1. pub'.pkt = pub.pkt \/ pub'.pkt = NoPacket
      BY <1>0, <1>2 DEF IngestCheck, IngestSend, PubIdle, StreamTypes
    <2> QED
      BY <1>0, <1>2, <2>1, OrderKept DEF IngestCheck, IngestSend, pktVars, subVars
  <1>3. CASE IngestSend /\ Len(ingest) < IngestBufSize
    <2>1. pub.pkt # NoPacket /\ pub'.pkt = NoPacket
      BY <1>0, <1>3 DEF IngestSend, PubIdle, Shapes
    <2> QED
      BY <1>0, <1>3, <2>1, OrderSend DEF IngestSend, pktVars, subVars
  <1>4. CASE PumpReceive
    <2>1. pump'.todo \subseteq Subs /\ pump'.pkt = Head(ingest)
      BY <1>0, <1>4 DEF PumpReceive, StreamTypes, Attached
    <2> QED
      BY <1>0, <1>4, <2>1, OrderReceive DEF PumpReceive, pktVars, subVars
  <1>5. CASE PumpQuit \/ PumpRelease
    <2>1. pump'.pkt = NoPacket /\ pump'.todo = {}
      BY <1>5 DEF PumpQuit, PumpRelease, PumpIdle
    <2> QED
      BY <1>0, <1>5, <2>1, OrderKept DEF PumpQuit, PumpRelease, pktVars, subVars
  <1>6. CASE DeliverPush
    <2>1. pump'.pkt = pump.pkt /\ pump'.todo \subseteq pump.todo
      BY <1>0, <1>6 DEF DeliverPush, StreamTypes
    <2> QED
      BY <1>0, <1>6, <2>1, OrderKept DEF DeliverPush
  <1>7. ASSUME NEW s \in Subs, DeliverQueue(s) PROVE OrderInv'
    <2>1. pump'.pkt = pump.pkt /\ pump'.todo = pump.todo \ {s} /\ s \in pump.todo
      BY <1>0, <1>7 DEF DeliverQueue, StreamTypes
    <2>2. CASE Len(queue[s]) < SubBufSize
      BY <1>0, <1>7, <2>1, <2>2, OrderDeliver DEF DeliverQueue
    <2>3. CASE ~(Len(queue[s]) < SubBufSize)
      BY <1>0, <1>7, <2>1, <2>3, OrderKept DEF DeliverQueue
    <2> QED
      BY <2>2, <2>3
  <1>8. ASSUME NEW s \in Subs, DeliverCache(s) PROVE OrderInv'
    <2>1. pump'.pkt = pump.pkt /\ pump'.todo \subseteq pump.todo
      BY <1>0, <1>8 DEF DeliverCache, StreamTypes
    <2> QED
      BY <1>0, <1>8, <2>1, OrderKept DEF DeliverCache
  <1>9. CASE CloseMark \/ CloseDone \/ CloseSubs
    BY <1>0, <1>9, OrderKept DEF CloseMark, CloseDone, CloseSubs, pktVars, subVars
  <1>10. ASSUME NEW s \in Subs, RunStep(s) PROVE OrderInv'
    <2>1. CASE RunOpen(s) \/ RunLeave(s) \/ (RunDrain(s) /\ queue[s] = <<>>)
      BY <1>0, <2>1, OrderKept DEF RunOpen, RunLeave, RunDrain, pktVars
    <2>2. CASE RunReceive(s)
      <3>1. hand[s] = NoPacket
        BY <1>0, <2>2 DEF RunReceive, Shapes
      <3> QED
        BY <1>0, <2>2, <3>1, OrderTake DEF RunReceive, pktVars
    <2>3. CASE RunWrite(s)
      <3>1. hand[s] # NoPacket
        BY <1>0, <2>3 DEF RunWrite, Shapes
      <3> QED
        BY <1>0, <2>3, <3>1, OrderWrite DEF RunWrite
    <2>4. CASE RunDrain(s) /\ queue[s] # <<>>
      BY <1>0, <2>4, OrderTake DEF RunDrain
    <2> QED
      BY <1>10, <2>1, <2>2, <2>3, <2>4 DEF RunStep
  <1>11. ASSUME NEW s \in Subs, OwnerStep(s) PROVE OrderInv'
    <2>1. UNCHANGED <<frame, sent, ingest, queue, hand, last, pub, pump>>
      BY <1>11 DEF OwnerStep, NewSubscriber, AddSubscriber, RemoveSubscriber, CloseOwn, SendGOPCopy,
                   SendGOPStep, pktVars
    <2> QED
      BY <1>0, <2>1, OrderKept
  <1>12. CASE UNCHANGED vars
    BY <1>0, <1>12, OrderKept DEF vars, pktVars, subVars
  <1> QED
    BY <1>1, <1>2, <1>3, <1>4, <1>5, <1>6, <1>7, <1>8, <1>9, <1>10, <1>11, <1>12
    DEF Next, PumpStep, CloseStep

\* Nothing has been sent at first.
LEMMA InitOrder == Init => OrderInv
  BY LiveStreamAssumption
  DEF Init, OrderInv, UpstreamInOrder, DownstreamInOrder, Rising, Before, Coming, PubIdle, PumpIdle

\* A run goroutine writes each frame at most once and in the order the camera
\* sent them, although packets are recycled while channels hold them.
THEOREM FramesWrittenInOrder == Spec => []WritesInOrder
  <1>1. OrderInv => WritesInOrder
    BY OrderTyped DEF OrderInv, DownstreamInOrder, WritesInOrder, QueueSubs
  <1>2. CountInv /\ OrderInv /\ [Next]_vars => (CountInv /\ OrderInv)'
    BY NextCount, NextOrder
  <1> QED
    BY <1>1, <1>2, InitCount, InitOrder, PTL DEF Spec

-----------------------------------------------------------------------------
(* Viewers that come and go.                                               *)

\* Steps that change neither the map of subscribers nor a cache.
LEMMA ViewerKept ==
  ASSUME ViewerInv, UNCHANGED <<subs, owner, gop>>, pump'.todo \subseteq pump.todo \cup Attached
  PROVE  ViewerInv'
  <1>1. \A s \in Subs : Unknown(s) => Unknown(s)'
    BY DEF Unknown, Attached
  <1> QED
    BY <1>1 DEF ViewerInv, LiveSubs

\* Every step of a stream keeps departed viewers unknown and without cache.
LEMMA NextViewer == TypeInv /\ ViewerInv /\ [Next]_vars => ViewerInv'
  <1> SUFFICES ASSUME TypeInv, ViewerInv, [Next]_vars
               PROVE  ViewerInv'
    OBVIOUS
  <1>0. /\ Shapes /\ pump.todo \subseteq Subs
        /\ subs \in [SubIDs -> Subs \cup {NoSub}] /\ gop \in [Subs -> Seq(Packets)] /\ DOMAIN owner = Subs
        /\ DOMAIN pump = {"pc", "pkt", "todo", "cur"}
    BY DEF TypeInv, TypeOK, StreamTypes, SubscriberTypes
  <1>1. CASE BuildPacket \/ IngestCheck \/ IngestSend
    BY <1>1, ViewerKept DEF BuildPacket, IngestCheck, IngestSend, subVars
  <1>2. CASE PumpReceive \/ PumpQuit \/ PumpRelease
    <2>1. pump'.todo \subseteq pump.todo \cup Attached
      BY <1>2 DEF PumpReceive, PumpQuit, PumpRelease, PumpIdle
    <2> QED
      BY <1>2, <2>1, ViewerKept DEF PumpReceive, PumpQuit, PumpRelease, subVars
  <1>3. CASE DeliverPush \/ \E s \in Subs : DeliverQueue(s)
    <2>1. pump'.todo \subseteq pump.todo
      BY <1>0, <1>3 DEF DeliverPush, DeliverQueue
    <2> QED
      BY <1>3, <2>1, ViewerKept DEF DeliverPush, DeliverQueue
  <1>4. ASSUME NEW s \in Subs, DeliverCache(s) PROVE ViewerInv'
    <2>1. pump'.todo \subseteq pump.todo /\ UNCHANGED <<subs, owner>>
      BY <1>0, <1>4 DEF DeliverCache
    <2>2. \A t \in Subs : Unknown(t) => Unknown(t)'
      BY <2>1 DEF Unknown, Attached
    <2>3. \A t \in Subs \ {s} : gop'[t] = gop[t]
      BY <1>0, <1>4 DEF DeliverCache
    <2>4. owner[s] # "left"
      BY <1>4 DEF DeliverCache, ViewerInv, Unknown
    <2> QED
      BY <2>1, <2>2, <2>3, <2>4 DEF ViewerInv, LiveSubs
  <1>5. CASE CloseMark \/ CloseDone
    BY <1>5, ViewerKept DEF CloseMark, CloseDone, subVars
  <1>6. CASE CloseSubs
    <2>1. subs' = [i \in SubIDs |-> NoSub] /\ UNCHANGED <<pump, owner>>
      BY <1>6 DEF CloseSubs
    <2>2. \A t \in Subs : Unknown(t) => Unknown(t)'
      BY <2>1 DEF Unknown, Attached
    <2>3. \A t \in Subs : gop[t] = <<>> => gop'[t] = <<>>
      BY <1>6 DEF CloseSubs, CloseSubscribers
    <2> QED
      BY <2>1, <2>2, <2>3 DEF ViewerInv, LiveSubs
  <1>7. ASSUME NEW s \in Subs, RunStep(s) PROVE ViewerInv'
    <2>1. UNCHANGED <<subs, owner, gop, pump>>
      BY <1>7 DEF RunStep, RunOpen, RunReceive, RunWrite, RunLeave, RunDrain
    <2> QED
      BY <2>1, ViewerKept
  <1>8. ASSUME NEW s \in Subs, NewSubscriber(s) PROVE ViewerInv'
    <2>1. UNCHANGED <<subs, gop, pump>> /\ owner[s] = "none" /\ owner'[s] = "made"
          /\ \A t \in Subs \ {s} : owner'[t] = owner[t]
      BY <1>0, <1>8 DEF NewSubscriber
    <2>2. \A t \in Subs : Unknown(t) => Unknown(t)'
      BY <2>1 DEF Unknown, Attached
    <2> QED
      BY <2>1, <2>2 DEF ViewerInv, LiveSubs
  <1>9. ASSUME NEW s \in Subs, AddSubscriber(s) PROVE ViewerInv'
    <2>1. UNCHANGED <<gop, pump>> /\ owner'[s] = "added"
          /\ \A t \in Subs \ {s} : owner'[t] = owner[t]
      BY <1>0, <1>9 DEF AddSubscriber
    <2>2. subs' = [subs EXCEPT ![ID[s]] = s]
      BY <1>9 DEF AddSubscriber
    <2>3. \A i \in SubIDs : subs'[i] = subs[i] \/ (subs'[i] = s /\ i = ID[s])
      BY <1>0, <2>2
    <2>4. \A t \in Subs \ {s} : Unknown(t) => Unknown(t)'
      BY <2>1, <2>3 DEF Unknown, Attached
    <2>5. \A i \in SubIDs : subs'[i] # NoSub => ID[subs'[i]] = i
      BY <2>3 DEF ViewerInv
    <2> QED
      BY <2>1, <2>4, <2>5 DEF ViewerInv, LiveSubs
  <1>10. ASSUME NEW s \in Subs, RemoveSubscriber(s) PROVE ViewerInv'
    <2>1. UNCHANGED pump /\ pump.todo = {} /\ \A t \in Subs \ {s} : owner'[t] = owner[t]
      BY <1>0, <1>10 DEF RemoveSubscriber, RLocked, Shapes
    <2>2. owner'[s] = IF Kind[s] = "live" THEN "removed" ELSE "left"
      BY <1>0, <1>10 DEF RemoveSubscriber
    <2>3. subs' = [subs EXCEPT ![ID[s]] = NoSub]
      BY <1>10 DEF RemoveSubscriber
    <2>4. (\A i \in SubIDs : subs'[i] = subs[i] \/ subs'[i] = NoSub) /\ subs'[ID[s]] = NoSub
      BY <1>0, <2>3, LiveStreamAssumption
    <2>5. \A t \in Subs : Unknown(t) => Unknown(t)'
      BY <2>1, <2>4 DEF Unknown, Attached
    <2>6. Unknown(s)'
      <3>1. ASSUME NEW i \in SubIDs PROVE subs'[i] # s
        BY <2>4, LiveStreamAssumption DEF ViewerInv
      <3> QED
        BY <2>1, <3>1 DEF Unknown, Attached
    <2>7. \A t \in Subs : gop[t] = <<>> => gop'[t] = <<>>
      BY <1>10 DEF RemoveSubscriber, CloseSubscribers
    <2>8. \A i \in SubIDs : subs'[i] # NoSub => ID[subs'[i]] = i
      BY <2>4 DEF ViewerInv
    <2> QED
      BY <2>1, <2>2, <2>5, <2>6, <2>7, <2>8 DEF ViewerInv, LiveSubs
  <1>11. ASSUME NEW s \in Subs, CloseOwn(s) PROVE ViewerInv'
    <2>1. UNCHANGED <<subs, pump>> /\ owner[s] = "removed" /\ \A t \in Subs \ {s} : owner'[t] = owner[t]
      BY <1>0, <1>11 DEF CloseOwn
    <2>2. \A t \in Subs : Unknown(t) => Unknown(t)'
      BY <2>1 DEF Unknown, Attached
    <2>3. gop'[s] = <<>> /\ \A t \in Subs : gop[t] = <<>> => gop'[t] = <<>>
      BY <1>11 DEF CloseOwn, CloseSubscribers
    <2> QED
      BY <2>1, <2>2, <2>3 DEF ViewerInv, LiveSubs
  <1>12. ASSUME NEW s \in Subs, SendGOPCopy(s) \/ SendGOPStep(s) PROVE ViewerInv'
    <2>1. UNCHANGED <<subs, pump, gop>> /\ owner'[s] \in {"sending", "open"}
          /\ \A t \in Subs \ {s} : owner'[t] = owner[t]
      BY <1>0, <1>12 DEF SendGOPCopy, SendGOPStep
    <2>2. \A t \in Subs : Unknown(t) => Unknown(t)'
      BY <2>1 DEF Unknown, Attached
    <2> QED
      BY <2>1, <2>2 DEF ViewerInv, LiveSubs
  <1>13. CASE UNCHANGED vars
    BY <1>13, ViewerKept DEF vars, subVars
  <1> QED
    BY <1>1, <1>2, <1>3, <1>4, <1>5, <1>6, <1>7, <1>8, <1>9, <1>10, <1>11, <1>12, <1>13
    DEF Next, PumpStep, CloseStep, OwnerStep

\* Once a viewer's OnClose has run, its cache is empty and stays so, and the
\* stream does not know it: a fan-out under way cannot fill the cache again.
THEOREM DepartedHoldNothing == Spec => []DepartedViewerHoldsNothing
  <1>1. Init => ViewerInv
    BY DEF Init, ViewerInv, Unknown, Attached, PumpIdle, LiveSubs
  <1>2. ViewerInv => DepartedViewerHoldsNothing
    BY DEF ViewerInv, Unknown, DepartedViewerHoldsNothing
  <1>3. TypeInv /\ ViewerInv /\ [Next]_vars => (TypeInv /\ ViewerInv)'
    BY NextType, NextViewer
  <1> QED
    BY <1>1, <1>2, <1>3, InitType, PTL DEF Spec

-----------------------------------------------------------------------------
(* The refinement of FrameFlow.                                            *)

\* The frames of a sequence of packets are a sequence of frame numbers.
LEMMA FramesOfSeq ==
  ASSUME frame \in [Packets -> Nat], NEW q \in Seq(Packets)
  PROVE  /\ FramesOf(q) \in Seq(Nat) /\ Len(FramesOf(q)) = Len(q) /\ Len(q) \in Nat
         /\ \A i \in 1 .. Len(q) : q[i] \in Packets /\ FramesOf(q)[i] = frame[q[i]]
         /\ q # <<>> => FramesOf(q) # <<>>
  <1>1. Len(q) \in Nat /\ DOMAIN q = 1 .. Len(q) /\ \A i \in 1 .. Len(q) : q[i] \in Packets
    BY LenProperties, ElementOfSeq
  <1>2. FramesOf(q) = [i \in 1 .. Len(q) |-> frame[q[i]]]
    BY <1>1 DEF FramesOf
  <1>3. FramesOf(q) \in Seq(Nat)
    BY <1>1, <1>2, IsASeq
  <1>4. Len(FramesOf(q)) = Len(q)
    BY <1>1, <1>2, <1>3, LenProperties
  <1>5. q # <<>> => FramesOf(q) # <<>>
    BY <1>1, <1>3, <1>4, EmptySeq
  <1> QED
    BY <1>1, <1>2, <1>3, <1>4, <1>5

\* Appending a packet appends its frame.
LEMMA FramesOfAppend ==
  ASSUME frame \in [Packets -> Nat], NEW q \in Seq(Packets), NEW e \in Packets
  PROVE  FramesOf(Append(q, e)) = Append(FramesOf(q), frame[e])
  <1> DEFINE a == Append(q, e)
             f == FramesOf(q)
             b == Append(f, frame[e])
  <1>1. a \in Seq(Packets) /\ Len(a) = Len(q) + 1 /\ a[Len(q) + 1] = e /\ \A i \in 1 .. Len(q) : a[i] = q[i]
    BY AppendProperties
  <1>2. /\ f \in Seq(Nat) /\ Len(f) = Len(q) /\ Len(q) \in Nat /\ frame[e] \in Nat
        /\ \A i \in 1 .. Len(q) : f[i] = frame[q[i]]
    BY FramesOfSeq
  <1> HIDE DEF a, f
  <1>3. /\ b \in Seq(Nat) /\ Len(b) = Len(q) + 1 /\ b[Len(q) + 1] = frame[e]
        /\ \A i \in 1 .. Len(q) : b[i] = f[i]
    BY <1>2, AppendProperties
  <1>4. /\ FramesOf(a) \in Seq(Nat) /\ Len(FramesOf(a)) = Len(a)
        /\ \A i \in 1 .. Len(a) : FramesOf(a)[i] = frame[a[i]]
    BY <1>1, FramesOfSeq
  <1> HIDE DEF b
  <1> DEFINE g == FramesOf(a)
             n == Len(q)
  <1>5. ASSUME NEW i \in 1 .. n + 1 PROVE g[i] = b[i]
    <2>1. n \in Nat /\ Len(a) = n + 1
      BY <1>1, <1>2
    <2>2. g[i] = frame[a[i]]
      BY <1>4, <2>1
    <2> HIDE DEF n, g
    <2>3. i \in 1 .. n \/ i = n + 1
      BY <2>1
    <2>4. CASE i \in 1 .. n
      BY <1>1, <1>2, <1>3, <2>2, <2>4 DEF n
    <2>5. CASE i = n + 1
      BY <1>1, <1>3, <2>2, <2>5 DEF n
    <2> QED
      BY <2>3, <2>4, <2>5
  <1>6. g = b
    BY <1>1, <1>3, <1>4, <1>5, SeqEqual
  <1> QED
    BY <1>6 DEF a, b, f, g

\* A part of a sequence of packets has the same part of the frames.
LEMMA FramesOfSubSeq ==
  ASSUME frame \in [Packets -> Nat], NEW q \in Seq(Packets), NEW k \in 1 .. Len(q) + 1
  PROVE  FramesOf(SubSeq(q, k, Len(q))) = SubSeq(FramesOf(q), k, Len(q))
  <1> DEFINE n == Len(q)
             a == SubSeq(q, k, n)
             f == FramesOf(q)
             b == SubSeq(f, k, n)
  <1>1. /\ f \in Seq(Nat) /\ Len(f) = n /\ n \in Nat /\ k \in Nat \ {0} /\ k <= n + 1
        /\ \A i \in 1 .. n : q[i] \in Packets /\ f[i] = frame[q[i]] /\ f[i] \in Nat
    BY FramesOfSeq
  <1> HIDE DEF n, f
  <1>2. \A i \in k .. n : i \in 1 .. n
    BY <1>1
  <1>3. \A i \in k .. n : q[i] \in Packets /\ f[i] \in Nat
    BY <1>1, <1>2
  <1>4. /\ a \in Seq(Packets) /\ Len(a) = (IF k <= n THEN n - k + 1 ELSE 0)
        /\ \A i \in 1 .. (n - k + 1) : a[i] = q[k + i - 1]
    BY <1>1, <1>3, SubSeqProperties
  <1>5. /\ b \in Seq(Nat) /\ Len(b) = (IF k <= n THEN n - k + 1 ELSE 0)
        /\ \A i \in 1 .. (n - k + 1) : b[i] = f[k + i - 1]
    BY <1>1, <1>3, SubSeqProperties
  <1> HIDE DEF a, b
  <1>6. /\ FramesOf(a) \in Seq(Nat) /\ Len(FramesOf(a)) = Len(a) /\ Len(a) \in Nat
        /\ \A i \in 1 .. Len(a) : FramesOf(a)[i] = frame[a[i]]
    BY <1>4, FramesOfSeq
  <1> DEFINE g == FramesOf(a)
             m == Len(a)
  <1>7. ASSUME NEW i \in 1 .. m PROVE g[i] = b[i]
    <2>1. g[i] = frame[a[i]] /\ m \in Nat /\ m = IF k <= n THEN n - k + 1 ELSE 0
      BY <1>4, <1>6
    <2> HIDE DEF g, m
    <2>2. i \in 1 .. (n - k + 1) /\ k + i - 1 \in 1 .. n
      <3>1. k <= n /\ m = n - k + 1
        BY <1>1, <2>1
      <3> QED
        BY <1>1, <3>1
    <2>3. a[i] = q[k + i - 1] /\ b[i] = f[k + i - 1]
      BY <1>4, <1>5, <2>2
    <2>4. f[k + i - 1] = frame[q[k + i - 1]]
      BY <1>1, <2>2
    <2> QED
      BY <2>1, <2>3, <2>4
  <1>8. g = b
    BY <1>4, <1>5, <1>6, <1>7, SeqEqual
  <1> QED
    BY <1>8 DEF a, b, n, f, g

\* The last packet of a sequence, on its own.
LEMMA LastAlone ==
  ASSUME NEW q \in Seq(Packets), NEW n \in Nat \ {0}, Len(q) = n
  PROVE  SubSeq(q, n, n) = <<q[n]>>
  <1> DEFINE a == SubSeq(q, n, n)
             b == <<q[n]>>
  <1>1. q[n] \in Packets
    BY ElementOfSeq
  <1>2. a \in Seq(Packets) /\ Len(a) = 1 /\ a[1] = q[n]
    <2>1. \A i \in n .. n : q[i] \in Packets
      BY <1>1
    <2>2. /\ a \in Seq(Packets) /\ Len(a) = (IF n <= n THEN n - n + 1 ELSE 0)
          /\ \A i \in 1 .. (n - n + 1) : a[i] = q[n + i - 1]
      BY <2>1, SubSeqProperties
    <2> HIDE DEF a
    <2> QED
      BY <2>2
  <1>3. b \in Seq(Packets) /\ Len(b) = 1 /\ b[1] = q[n]
    BY <1>1
  <1> HIDE DEF a, b
  <1>4. a = b
    BY <1>2, <1>3, SeqEqual
  <1> QED
    BY <1>4 DEF a, b

\* Taking the head of a sequence of packets takes the head of the frames.
LEMMA FramesOfTail ==
  ASSUME frame \in [Packets -> Nat], NEW q \in Seq(Packets), q # <<>>
  PROVE  /\ FramesOf(Tail(q)) = Tail(FramesOf(q))
         /\ Head(q) \in Packets /\ Head(FramesOf(q)) = frame[Head(q)]
  <1> DEFINE f == FramesOf(q)
  <1>1. Len(q) \in Nat \ {0} /\ Head(q) = q[1] /\ Head(q) \in Packets
    BY EmptySeq, HeadTailProperties
  <1>2. f \in Seq(Nat) /\ f # <<>> /\ Len(f) = Len(q) /\ f[1] = frame[q[1]]
    BY <1>1, FramesOfSeq
  <1>3. Tail(q) = SubSeq(q, 2, Len(q))
    BY TailIsSubSeq
  <1> HIDE DEF f
  <1>4. Tail(f) = SubSeq(f, 2, Len(f)) /\ Head(f) = f[1]
    BY <1>2, TailIsSubSeq, HeadTailProperties
  <1>5. 2 \in 1 .. Len(q) + 1
    BY <1>1
  <1>6. FramesOf(SubSeq(q, 2, Len(q))) = SubSeq(f, 2, Len(q))
    BY <1>5, FramesOfSubSeq DEF f
  <1> QED
    BY <1>1, <1>2, <1>3, <1>4, <1>6 DEF f

\* The types the frames in channels, hands and caches rest on.
FlowTypes ==
  /\ frame \in [Packets -> Nat] /\ sent \in Nat
  /\ ingest \in Seq(Packets) /\ pub.pkt \in Packets \cup {NoPacket} /\ pump.pkt \in Packets \cup {NoPacket}
  /\ queue \in [Subs -> Seq(Packets)] /\ gop \in [Subs -> Seq(Packets)]
  /\ hand \in [Subs -> Packets \cup {NoPacket}] /\ DOMAIN last = Subs
  /\ pump.todo \subseteq Subs

\* They follow from the types of the stream.
LEMMA FlowTyped == TypeInv => FlowTypes
  <1> SUFFICES ASSUME TypeInv PROVE FlowTypes
    OBVIOUS
  <1>1. OrderTypes
    BY OrderTyped
  <1> QED
    BY <1>1 DEF OrderTypes, FlowTypes, TypeInv, TypeOK, SubscriberTypes

\* A packet somebody holds carries a frame: the publisher's, the pump's, and the
\* one in a hand.
LEMMA HeldCarriesFrame ==
  ASSUME CountInv, NEW p \in Packets, pub.pkt = p \/ pump.pkt = p \/ \E s \in Subs : hand[s] = p
  PROVE  frame[p] # 0
  <1> SUFFICES ASSUME frame[p] = 0 PROVE FALSE
    OBVIOUS
  <1>1. refs[p] = 0
    BY DEF CountInv, FreshUnheld
  <1>2. pub.pkt # p
    BY <1>1, LiveStreamAssumption DEF CountInv, PubAlone
  <1> QED
    BY <1>1, <1>2, Unheld

\* A packet without references is in no cache.
LEMMA Uncached ==
  ASSUME CountInv, NEW p \in Packets, refs[p] = 0, NEW s \in Subs, NEW i \in DOMAIN gop[s]
  PROVE  gop[s][i] # p
  <1>1. InCaches(p) = 0
    BY NowhereElse
  <1>2. IsFiniteSet(Subs) /\ GopCacheMax \in Nat
    BY LiveStreamAssumption
  <1>3. Places(gop, Subs, GopCacheMax, p) = {}
    BY <1>1, <1>2, PlacesFinite, FS_EmptySet DEF InCaches
  <1>4. gop[s] \in Seq(Packets) /\ Len(gop[s]) <= GopCacheMax
    BY DEF CountInv, TypeOK, SubscriberTypes, Bounds
  <1>5. i \in 1 .. GopCacheMax
    BY <1>2, <1>4, LenProperties
  <1>6. gop[s][i] = p => <<s, i>> \in Places(gop, Subs, GopCacheMax, p)
    BY <1>5 DEF Places
  <1> QED
    BY <1>3, <1>6

\* What is where stays, as frames, when nothing moves and nothing is built.
LEMMA FlowKept ==
  ASSUME UNCHANGED frame
  PROVE  /\ pub'.pkt = pub.pkt => Making' = Making
         /\ UNCHANGED ingest => Arriving' = Arriving
         /\ pump'.pkt = pump.pkt => Fanning' = Fanning
         /\ UNCHANGED queue => Queued' = Queued
         /\ UNCHANGED hand => Writing' = Writing
         /\ UNCHANGED gop => Keeping' = Keeping
  BY DEF Making, Arriving, Fanning, Queued, Writing, Keeping, FramesOf, FrameIn

\* NewAVPacket and the builder: the buffer that is written over is nowhere, so
\* no frame anywhere changes.
LEMMA FlowBuild ==
  ASSUME CountInv, BuildPacket
  PROVE  F!Make
  <1>0. FlowTypes /\ Shapes
    BY FlowTyped DEF CountInv, TypeInv
  <1>1. PICK p \in Allocatable :
          frame' = [frame EXCEPT ![p] = sent + 1] /\ pub' = [pc |-> "check", pkt |-> p]
    BY DEF BuildPacket
  <1>2. p \in Packets /\ refs[p] = 0
    BY <1>1 DEF Allocatable, CountInv, RefsMatchHolders, FreshUnheld, TypeOK, PacketTypes
  <1>3. /\ frame'[p] = sent + 1 /\ \A q \in Packets : q # p => frame'[q] = frame[q]
    BY <1>0, <1>1, <1>2 DEF FlowTypes
  <1>4. /\ UNCHANGED <<ingest, pump, queue, hand, last, gop>> /\ sent' = sent + 1
        /\ pub.pkt = NoPacket /\ pub'.pkt = p
    BY <1>0, <1>1 DEF BuildPacket, subVars, Shapes
  <1>5. /\ pump.pkt # p /\ \A i \in DOMAIN ingest : ingest[i] # p
        /\ \A s \in Subs : hand[s] # p /\ \A i \in DOMAIN queue[s] : queue[s][i] # p
    BY <1>2, Unheld
  <1>6. \A s \in Subs : \A i \in DOMAIN gop[s] : gop[s][i] # p
    BY <1>2, Uncached
  <1>7. ASSUME NEW q \in Seq(Packets), \A i \in DOMAIN q : q[i] # p
        PROVE  \A i \in DOMAIN q : frame'[q[i]] = frame[q[i]]
    <2>1. \A i \in DOMAIN q : q[i] \in Packets
      BY LenProperties, ElementOfSeq
    <2> QED
      BY <1>3, <1>7, <2>1
  <1>8. Arriving' = Arriving
    <2>1. \A i \in DOMAIN ingest : frame'[ingest[i]] = frame[ingest[i]]
      BY <1>0, <1>5, <1>7 DEF FlowTypes
    <2> QED
      BY <1>4, <2>1 DEF Arriving, FramesOf
  <1>9. Queued' = Queued
    <2>1. \A s \in Subs : \A i \in DOMAIN queue[s] : frame'[queue[s][i]] = frame[queue[s][i]]
      BY <1>0, <1>5, <1>7 DEF FlowTypes
    <2> QED
      BY <1>4, <2>1 DEF Queued, FramesOf
  <1>10. Keeping' = Keeping
    <2>1. \A s \in Subs : \A i \in DOMAIN gop[s] : frame'[gop[s][i]] = frame[gop[s][i]]
      BY <1>0, <1>6, <1>7 DEF FlowTypes
    <2> QED
      BY <1>4, <2>1 DEF Keeping, FramesOf
  <1>11. Writing' = Writing
    <2>1. \A s \in Subs : hand[s] # NoPacket => frame'[hand[s]] = frame[hand[s]]
      BY <1>0, <1>3, <1>5 DEF FlowTypes
    <2> QED
      BY <1>4, <2>1 DEF Writing, FrameIn
  <1>12. Fanning' = Fanning
    BY <1>0, <1>3, <1>4, <1>5 DEF Fanning, FrameIn, FlowTypes
  <1>13. Making = 0 /\ Making' = sent + 1
    BY <1>2, <1>3, <1>4, LiveStreamAssumption DEF Making, FrameIn
  <1> QED
    BY <1>4, <1>8, <1>9, <1>10, <1>11, <1>12, <1>13 DEF F!Make

\* liveStream.Ingest sends the frame the publisher has, or drops it.
LEMMA FlowPublish ==
  ASSUME CountInv, IngestCheck \/ IngestSend
  PROVE  [F!Next]_(F!vars)
  <1>0. FlowTypes /\ Shapes
    BY FlowTyped DEF CountInv, TypeInv
  <1>1. /\ UNCHANGED <<frame, sent, pump, queue, hand, last, gop>> /\ pub.pkt \in Packets
    BY <1>0 DEF IngestCheck, IngestSend, pktVars, subVars, Shapes, FlowTypes
  <1>2. /\ Fanning' = Fanning /\ Queued' = Queued /\ Writing' = Writing /\ Keeping' = Keeping
        /\ UNCHANGED ingest => Arriving' = Arriving
        /\ pub'.pkt = pub.pkt => Making' = Making
    BY <1>1, FlowKept
  <1>3. CASE IngestCheck /\ ~closed
    <2>1. UNCHANGED ingest /\ pub'.pkt = pub.pkt
      BY <1>3 DEF IngestCheck, CountInv, TypeOK, StreamTypes
    <2> QED
      BY <1>1, <1>2, <2>1 DEF F!vars
  <1>4. CASE ~(IngestCheck /\ ~closed)
    <2>1. pub'.pkt = NoPacket /\ (UNCHANGED ingest \/ ingest' = Append(ingest, pub.pkt))
      BY <1>4 DEF IngestCheck, IngestSend, PubIdle
    <2>2. Making # 0 /\ Making = frame[pub.pkt] /\ Making' = 0
      BY <1>1, <2>1, HeldCarriesFrame, LiveStreamAssumption DEF Making, FrameIn
    <2>3. Arriving' = Arriving \/ Arriving' = Append(Arriving, Making)
      <3>1. CASE UNCHANGED ingest
        BY <1>2, <3>1
      <3>2. CASE ingest' = Append(ingest, pub.pkt)
        <4>1. Arriving' = FramesOf(Append(ingest, pub.pkt))
          BY <1>1, <3>2 DEF Arriving, FramesOf
        <4>2. FramesOf(Append(ingest, pub.pkt)) = Append(FramesOf(ingest), frame[pub.pkt])
          BY <1>0, <1>1, FramesOfAppend DEF FlowTypes
        <4> QED
          BY <2>2, <4>1, <4>2 DEF Arriving
      <3> QED
        BY <2>1, <3>1, <3>2
    <2>4. F!Send
      BY <1>1, <1>2, <2>2, <2>3 DEF F!Send
    <2> QED
      BY <2>4 DEF F!Next
  <1> QED
    BY <1>3, <1>4

\* The pump begins and ends a fan-out.
LEMMA FlowPump ==
  ASSUME CountInv, PumpReceive \/ PumpQuit \/ DeliverPush \/ PumpRelease
  PROVE  [F!Next]_(F!vars)
  <1>0. FlowTypes /\ Shapes
    BY FlowTyped DEF CountInv, TypeInv
  <1>1. /\ UNCHANGED <<frame, sent, pub, queue, hand, last, gop>>
        /\ PumpReceive \/ UNCHANGED ingest
    BY DEF PumpReceive, PumpQuit, DeliverPush, PumpRelease, pktVars, subVars
  <1>2. /\ Making' = Making /\ Queued' = Queued /\ Writing' = Writing /\ Keeping' = Keeping
        /\ UNCHANGED ingest => Arriving' = Arriving
        /\ pump'.pkt = pump.pkt => Fanning' = Fanning
    BY <1>1, FlowKept
  <1>3. CASE PumpReceive
    <2>1. /\ ingest # <<>> /\ ingest' = Tail(ingest) /\ pump'.pkt = Head(ingest) /\ pump'.todo = Attached
          /\ pump.pkt = NoPacket
      BY <1>0, <1>3 DEF PumpReceive, Shapes
    <2>2. /\ FramesOf(ingest) # <<>> /\ FramesOf(Tail(ingest)) = Tail(FramesOf(ingest))
          /\ Head(ingest) \in Packets /\ Head(FramesOf(ingest)) = frame[Head(ingest)]
      BY <1>0, <2>1, FramesOfSeq, FramesOfTail DEF FlowTypes
    <2>3. Arriving' = FramesOf(Tail(ingest))
      BY <1>1, <2>1 DEF Arriving, FramesOf
    <2>4. Fanning = 0 /\ Fanning' = Head(Arriving)
      BY <1>1, <2>1, <2>2, LiveStreamAssumption DEF Fanning, FrameIn, Arriving
    <2>5. pump'.todo \subseteq Subs
      BY <2>1 DEF Attached, CountInv, TypeOK, StreamTypes
    <2>6. F!BeginFan
      BY <1>1, <1>2, <2>2, <2>3, <2>4, <2>5 DEF F!BeginFan, Arriving
    <2> QED
      BY <2>6 DEF F!Next
  <1>4. CASE PumpQuit
    <2>1. pump'.pkt = pump.pkt /\ pump'.todo = pump.todo /\ UNCHANGED ingest
      BY <1>0, <1>4 DEF PumpQuit, PumpIdle, Shapes
    <2> QED
      BY <1>1, <1>2, <2>1 DEF F!vars
  <1>5. CASE DeliverPush
    <2>1. pump'.pkt = pump.pkt /\ pump'.todo = pump.todo /\ UNCHANGED ingest
      BY <1>5 DEF DeliverPush, CountInv, TypeOK, StreamTypes
    <2> QED
      BY <1>1, <1>2, <2>1 DEF F!vars
  <1>6. CASE PumpRelease
    <2>1. /\ pump'.pkt = NoPacket /\ pump.todo = {} /\ pump'.todo = {} /\ UNCHANGED ingest
          /\ pump.pkt \in Packets
      BY <1>0, <1>6 DEF PumpRelease, PumpIdle, Shapes
    <2>2. Fanning # 0 /\ Fanning' = 0
      BY <2>1, HeldCarriesFrame, LiveStreamAssumption DEF Fanning, FrameIn
    <2>3. F!EndFan
      BY <1>1, <1>2, <2>1, <2>2 DEF F!EndFan
    <2> QED
      BY <2>3 DEF F!Next
  <1> QED
    BY <1>3, <1>4, <1>5, <1>6

\* Deliver offers the frame to a subscriber that queues it, or drops it because
\* its channel is full.
LEMMA FlowDeliverQueue ==
  ASSUME CountInv, NEW s \in Subs, DeliverQueue(s)
  PROVE  F!Offer(s)
  <1>0. FlowTypes /\ Shapes
    BY FlowTyped DEF CountInv, TypeInv
  <1>1. /\ UNCHANGED <<frame, sent, pub, ingest, hand, last, gop>>
        /\ pump.pkt \in Packets /\ s \in pump.todo /\ pump'.pkt = pump.pkt /\ pump'.todo = pump.todo \ {s}
    BY <1>0 DEF DeliverQueue, Shapes, CountInv, TypeOK, StreamTypes
  <1>2. /\ Making' = Making /\ Arriving' = Arriving /\ Fanning' = Fanning /\ Writing' = Writing
        /\ Keeping' = Keeping
        /\ UNCHANGED queue => Queued' = Queued
    BY <1>1, FlowKept
  <1>3. Fanning # 0 /\ Fanning = frame[pump.pkt]
    BY <1>1, HeldCarriesFrame, LiveStreamAssumption DEF Fanning, FrameIn
  <1>4. Queued' = Queued \/ Queued' = [Queued EXCEPT ![s] = Append(Queued[s], Fanning)]
    <2>1. CASE UNCHANGED queue
      BY <1>2, <2>1
    <2>2. CASE queue' = [queue EXCEPT ![s] = Append(queue[s], pump.pkt)]
      <3> DEFINE a == Append(queue[s], pump.pkt)
      <3>1. FramesOf(a) = Append(FramesOf(queue[s]), frame[pump.pkt])
        BY <1>0, <1>1, FramesOfAppend DEF FlowTypes
      <3>2. queue'[s] = a /\ \A x \in Subs : x # s => queue'[x] = queue[x]
        BY <1>0, <2>2 DEF FlowTypes
      <3> HIDE DEF a
      <3>3. Queued' = [x \in Subs |-> FramesOf(queue'[x])]
        BY <1>1 DEF Queued, FramesOf
      <3>4. Queued[s] = FramesOf(queue[s]) /\ Queued = [x \in Subs |-> FramesOf(queue[x])]
        BY DEF Queued
      <3> QED
        BY <1>3, <3>1, <3>2, <3>3, <3>4
    <2> QED
      BY <2>1, <2>2 DEF DeliverQueue
  <1> QED
    BY <1>1, <1>2, <1>3, <1>4 DEF F!Offer

\* Deliver offers the frame to a viewer, whose cache keeps it and a part of what
\* it had.
LEMMA FlowDeliverCache ==
  ASSUME CountInv, NEW s \in Subs, DeliverCache(s)
  PROVE  F!Offer(s)
  <1>0. FlowTypes /\ Shapes
    BY FlowTyped DEF CountInv, TypeInv
  <1>1. /\ UNCHANGED <<frame, sent, pub, ingest, hand, last, queue>>
        /\ pump.pkt \in Packets /\ s \in pump.todo /\ pump'.pkt = pump.pkt /\ pump'.todo = pump.todo \ {s}
        /\ gop' = [gop EXCEPT ![s] = NextGop(s, pump.pkt)]
    BY <1>0 DEF DeliverCache, Shapes, CountInv, TypeOK, StreamTypes
  <1>2. /\ Making' = Making /\ Arriving' = Arriving /\ Fanning' = Fanning /\ Writing' = Writing
        /\ Queued' = Queued
    BY <1>1, FlowKept
  <1>3. Fanning # 0 /\ Fanning = frame[pump.pkt]
    BY <1>1, HeldCarriesFrame, LiveStreamAssumption DEF Fanning, FrameIn
  <1> DEFINE e == pump.pkt
             a == Append(gop[s], e)
             g == Append(Keeping[s], Fanning)
             n == Len(a)
  <1>4. a \in Seq(Packets) /\ gop[s] \in Seq(Packets) /\ Len(gop[s]) \in Nat /\ n = Len(gop[s]) + 1
    BY <1>0, <1>1, AppendProperties, LenProperties DEF FlowTypes
  <1>5. PICK k \in 1 .. n : NextGop(s, e) = SubSeq(a, k, n)
    <2>1. CASE IsKeyframe(frame[e])
      <3>1. GopKept(s, e) = <<>> /\ NextGop(s, e) = SubSeq(Append(<<>>, e), GopCut(s, e) + 1, Len(Append(<<>>, e)))
        BY <2>1 DEF NextGop, GopKept
      <3>2. GopCut(s, e) = 0
        <4>1. GopCacheMax \in Nat \ {0} /\ Len(GopKept(s, e)) = 0
          BY <3>1, LiveStreamAssumption
        <4> QED
          BY <4>1 DEF GopCut
      <3>3. Append(<<>>, e) = <<e>> /\ <<e>> \in Seq(Packets) /\ Len(<<e>>) = 1 /\ <<e>>[1] = e
        BY <1>1
      <3>4. NextGop(s, e) = <<e>>
        <4>1. GopCut(s, e) + 1 = 1
          BY <3>2
        <4>2. NextGop(s, e) = SubSeq(<<e>>, 1, 1)
          BY <3>1, <3>3, <4>1
        <4>3. SubSeq(<<e>>, 1, 1) = <<<<e>>[1]>>
          <5> DEFINE q == <<e>>
          <5>1. q \in Seq(Packets) /\ Len(q) = 1 /\ 1 \in Nat \ {0}
            BY <3>3
          <5> HIDE DEF q
          <5>2. SubSeq(q, 1, 1) = <<q[1]>>
            BY <5>1, LastAlone
          <5> QED
            BY <5>2 DEF q
        <4> QED
          BY <3>3, <4>2, <4>3
      <3>5. SubSeq(a, n, n) = <<e>>
        <4>1. n \in Nat \ {0} /\ a[n] = e
          BY <1>1, <1>4, AppendProperties
        <4> HIDE DEF a, e
        <4> QED
          BY <1>4, <4>1, LastAlone
      <3>6. n \in 1 .. n
        <4> HIDE DEF n
        <4> QED
          BY <1>4
      <3> QED
        BY <3>4, <3>5, <3>6
    <2>2. CASE ~IsKeyframe(frame[e])
      <3>1. GopKept(s, e) = gop[s] /\ NextGop(s, e) = SubSeq(a, GopCut(s, e) + 1, n)
        BY <2>2 DEF NextGop, GopKept
      <3>2. GopCut(s, e) + 1 \in 1 .. n
        <4>1. GopCacheMax \in Nat \ {0} /\ Len(gop[s]) <= GopCacheMax
          BY LiveStreamAssumption DEF CountInv, Bounds
        <4>2. GopCut(s, e) = IF n - GopCacheMax > 0 THEN n - GopCacheMax ELSE 0
          <5>1. GopCut(s, e) = IF Len(GopKept(s, e)) + 1 - GopCacheMax > 0
                               THEN Len(GopKept(s, e)) + 1 - GopCacheMax ELSE 0
            BY DEF GopCut
          <5>2. Len(GopKept(s, e)) + 1 = n
            BY <1>4, <3>1
          <5>3. n \in Nat /\ Len(GopKept(s, e)) \in Nat
            BY <1>4, <3>1
          <5> HIDE DEF n
          <5> QED
            BY <4>1, <5>1, <5>2, <5>3
        <4> HIDE DEF a, n, e
        <4> QED
          BY <1>4, <4>1, <4>2
      <3> QED
        BY <3>1, <3>2
    <2> QED
      BY <2>1, <2>2
  <1>6. FramesOf(a) = g
    <2>1. FramesOf(a) = Append(FramesOf(gop[s]), frame[e])
      BY <1>0, <1>1, <1>4, FramesOfAppend DEF FlowTypes
    <2> QED
      BY <1>3, <2>1 DEF Keeping
  <1>7. Len(g) = n
    BY <1>0, <1>4, <1>6, FramesOfSeq DEF FlowTypes
  <1>8. FramesOf(SubSeq(a, k, n)) = SubSeq(g, k, n)
    <2>1. k \in 1 .. n + 1
      BY <1>4, <1>5
    <2> QED
      BY <1>0, <1>4, <1>6, <2>1, FramesOfSubSeq DEF FlowTypes
  <1>9. Keeping' = [Keeping EXCEPT ![s] = SubSeq(g, k, n)]
    <2> DEFINE v == NextGop(s, e)
    <2>1. gop'[s] = v /\ \A x \in Subs : x # s => gop'[x] = gop[x]
      BY <1>0, <1>1 DEF FlowTypes
    <2>2. Keeping' = [x \in Subs |-> FramesOf(gop'[x])] /\ Keeping = [x \in Subs |-> FramesOf(gop[x])]
      BY <1>1 DEF Keeping, FramesOf
    <2>3. FramesOf(v) = SubSeq(g, k, n)
      BY <1>5, <1>8
    <2> HIDE DEF v, g, n
    <2> QED
      BY <2>1, <2>2, <2>3
  <1>10. \E j \in 1 .. Len(g) : Keeping' = [Keeping EXCEPT ![s] = SubSeq(g, j, Len(g))]
    BY <1>5, <1>7, <1>9
  <1> QED
    BY <1>1, <1>2, <1>3, <1>10 DEF F!Offer

\* The run goroutine of a subscriber receives, writes, or drains its channel.
LEMMA FlowRun ==
  ASSUME CountInv, NEW s \in Subs, RunStep(s)
  PROVE  [F!Next]_(F!vars)
  <1>0. FlowTypes /\ Shapes
    BY FlowTyped DEF CountInv, TypeInv
  <1>1. UNCHANGED <<frame, sent, pub, ingest, pump, gop>>
    BY DEF RunStep, RunOpen, RunReceive, RunWrite, RunLeave, RunDrain, pktVars
  <1>2. /\ Making' = Making /\ Arriving' = Arriving /\ Fanning' = Fanning /\ Keeping' = Keeping
        /\ UNCHANGED queue => Queued' = Queued
        /\ UNCHANGED hand => Writing' = Writing
    BY <1>1, FlowKept
  <1>3. /\ Queued[s] = FramesOf(queue[s]) /\ Queued = [x \in Subs |-> FramesOf(queue[x])]
        /\ Queued' = [x \in Subs |-> FramesOf(queue'[x])]
        /\ Writing[s] = FrameIn(hand[s]) /\ Writing = [x \in Subs |-> FrameIn(hand[x])]
        /\ Writing' = [x \in Subs |-> FrameIn(hand'[x])]
    BY <1>1 DEF Queued, Writing, FramesOf, FrameIn
  <1>4. ASSUME queue[s] # <<>>
        PROVE  /\ Head(queue[s]) \in Packets /\ Queued[s] # <<>>
               /\ FramesOf(Tail(queue[s])) = Tail(Queued[s])
               /\ FrameIn(Head(queue[s])) = Head(Queued[s])
    <2>1. queue[s] \in Seq(Packets)
      BY <1>0 DEF FlowTypes
    <2> QED
      BY <1>0, <1>3, <1>4, <2>1, FramesOfSeq, FramesOfTail, LiveStreamAssumption DEF FlowTypes, FrameIn
  <1>5. CASE RunOpen(s) \/ RunLeave(s) \/ (RunDrain(s) /\ queue[s] = <<>>)
    <2>1. UNCHANGED <<queue, hand, last>>
      BY <1>5 DEF RunOpen, RunLeave, RunDrain
    <2> QED
      BY <1>1, <1>2, <2>1 DEF F!vars
  <1>6. ASSUME queue[s] # <<>>, queue' = [queue EXCEPT ![s] = Tail(queue[s])]
        PROVE  Queued' = [Queued EXCEPT ![s] = Tail(Queued[s])]
    <2> DEFINE v == Tail(queue[s])
    <2>1. queue'[s] = v /\ \A x \in Subs : x # s => queue'[x] = queue[x]
      BY <1>0, <1>6 DEF FlowTypes
    <2>2. FramesOf(v) = Tail(Queued[s])
      BY <1>4, <1>6
    <2> HIDE DEF v
    <2> QED
      BY <1>3, <2>1, <2>2
  <1>7. CASE RunReceive(s)
    <2>1. /\ queue[s] # <<>> /\ queue' = [queue EXCEPT ![s] = Tail(queue[s])]
          /\ hand' = [hand EXCEPT ![s] = Head(queue[s])] /\ UNCHANGED last /\ hand[s] = NoPacket
      BY <1>0, <1>7 DEF RunReceive, Shapes
    <2>2. Queued' = [Queued EXCEPT ![s] = Tail(Queued[s])]
      BY <1>6, <2>1
    <2>3. Writing[s] = 0 /\ Queued[s] # <<>>
      BY <1>3, <1>4, <2>1 DEF FrameIn
    <2>4. Writing' = [Writing EXCEPT ![s] = Head(Queued[s])]
      <3> DEFINE v == Head(queue[s])
      <3>1. hand'[s] = v /\ \A x \in Subs : x # s => hand'[x] = hand[x]
        BY <1>0, <2>1 DEF FlowTypes
      <3>2. FrameIn(v) = Head(Queued[s])
        BY <1>4, <2>1
      <3> HIDE DEF v
      <3> QED
        BY <1>3, <3>1, <3>2
    <2>5. F!Receive(s)
      BY <1>1, <1>2, <2>1, <2>2, <2>3, <2>4 DEF F!Receive
    <2> QED
      BY <2>5 DEF F!Next
  <1>8. CASE RunWrite(s)
    <2>1. /\ last' = [last EXCEPT ![s] = frame[hand[s]]] /\ UNCHANGED queue
          /\ hand' = [hand EXCEPT ![s] = NoPacket] /\ hand[s] \in Packets
      BY <1>0, <1>8 DEF RunWrite, Shapes, FlowTypes
    <2>2. Writing[s] # 0 /\ Writing[s] = frame[hand[s]]
      BY <1>3, <2>1, HeldCarriesFrame, LiveStreamAssumption DEF FrameIn
    <2>3. Writing' = [Writing EXCEPT ![s] = 0]
      <3>1. hand'[s] = NoPacket /\ \A x \in Subs : x # s => hand'[x] = hand[x]
        BY <1>0, <2>1 DEF FlowTypes
      <3>2. FrameIn(NoPacket) = 0
        BY DEF FrameIn
      <3> QED
        BY <1>3, <3>1, <3>2
    <2>4. F!Write(s)
      BY <1>1, <1>2, <2>1, <2>2, <2>3 DEF F!Write
    <2> QED
      BY <2>4 DEF F!Next
  <1>9. CASE RunDrain(s) /\ queue[s] # <<>>
    <2>1. queue' = [queue EXCEPT ![s] = Tail(queue[s])] /\ UNCHANGED <<hand, last>>
      BY <1>9 DEF RunDrain
    <2>2. Queued' = [Queued EXCEPT ![s] = Tail(Queued[s])] /\ Queued[s] # <<>>
      BY <1>4, <1>6, <1>9, <2>1
    <2>3. F!Discard(s)
      BY <1>1, <1>2, <2>1, <2>2 DEF F!Discard
    <2> QED
      BY <2>3 DEF F!Next
  <1> QED
    BY <1>5, <1>7, <1>8, <1>9 DEF RunStep

\* Closing subscribers drops their caches.
LEMMA FlowClose ==
  ASSUME CountInv, NEW S \in SUBSET Subs, CloseSubscribers(S),
         UNCHANGED <<frame, sent, pub, ingest, pump, queue, hand, last>>
  PROVE  F!Next
  <1>1. /\ Making' = Making /\ Arriving' = Arriving /\ Fanning' = Fanning
        /\ Queued' = Queued /\ Writing' = Writing
    BY FlowKept
  <1>2. Keeping' = [x \in Subs |-> IF x \in S THEN <<>> ELSE Keeping[x]]
    <2>1. gop' = [x \in Subs |-> IF x \in S THEN <<>> ELSE gop[x]]
      BY DEF CloseSubscribers
    <2>2. Keeping' = [x \in Subs |-> FramesOf(gop'[x])] /\ Keeping = [x \in Subs |-> FramesOf(gop[x])]
      BY DEF Keeping, FramesOf
    <2>3. FramesOf(<<>>) = <<>>
      BY DEF FramesOf
    <2> QED
      BY <2>1, <2>2, <2>3
  <1>3. F!Forget(S)
    BY <1>1, <1>2 DEF F!Forget
  <1> QED
    BY <1>3 DEF F!Next

\* Every step of the stream moves its frames as FrameFlow does, or not at all.
LEMMA StepFlows == CountInv /\ [Next]_vars => [F!Next]_(F!vars)
  <1> SUFFICES ASSUME CountInv, [Next]_vars
               PROVE  [F!Next]_(F!vars)
    OBVIOUS
  <1>1. ASSUME UNCHANGED <<frame, sent, pub, ingest, pump, queue, hand, last, gop>>
        PROVE  UNCHANGED F!vars
    BY <1>1, FlowKept DEF F!vars
  <1>2. CASE BuildPacket
    BY <1>2, FlowBuild DEF F!Next
  <1>3. CASE IngestCheck \/ IngestSend
    BY <1>3, FlowPublish
  <1>4. CASE PumpStep
    <2>1. ASSUME NEW s \in Subs, DeliverQueue(s) \/ DeliverCache(s) PROVE F!Next
      BY <2>1, FlowDeliverQueue, FlowDeliverCache DEF F!Next
    <2> QED
      BY <1>4, <2>1, FlowPump DEF PumpStep
  <1>5. CASE CloseMark \/ CloseDone
    BY <1>1, <1>5 DEF CloseMark, CloseDone, pktVars, subVars
  <1>6. CASE CloseSubs
    <2>1. Attached \in SUBSET Subs
      BY DEF CountInv, TypeOK, StreamTypes, Attached
    <2> QED
      BY <1>6, <2>1, FlowClose DEF CloseSubs
  <1>7. ASSUME NEW s \in Subs, RunStep(s) PROVE [F!Next]_(F!vars)
    BY <1>7, FlowRun
  <1>8. ASSUME NEW s \in Subs, OwnerStep(s) PROVE [F!Next]_(F!vars)
    <2>1. CASE NewSubscriber(s) \/ AddSubscriber(s) \/ SendGOPCopy(s) \/ SendGOPStep(s)
      BY <1>1, <2>1 DEF NewSubscriber, AddSubscriber, SendGOPCopy, SendGOPStep, pktVars
    <2>2. CASE RemoveSubscriber(s)
      <3>1. {subs[ID[s]]} \ {NoSub} \in SUBSET Subs
        BY LiveStreamAssumption DEF CountInv, TypeOK, StreamTypes
      <3> QED
        BY <2>2, <3>1, FlowClose DEF RemoveSubscriber
    <2>3. CASE CloseOwn(s)
      BY <2>3, FlowClose DEF CloseOwn
    <2> QED
      BY <1>8, <2>1, <2>2, <2>3 DEF OwnerStep
  <1>9. CASE UNCHANGED vars
    BY <1>1, <1>9 DEF vars, pktVars, subVars
  <1> QED
    BY <1>2, <1>3, <1>4, <1>5, <1>6, <1>7, <1>8, <1>9 DEF Next, CloseStep

\* A new stream has no frame anywhere.
LEMMA InitFlows == Init => F!Init
  BY DEF Init, F!Init, PubIdle, PumpIdle, Making, Arriving, Fanning, Queued, Writing, Keeping, FramesOf, FrameIn

\* The recycling of buffers can not be seen in any channel, hand or cache: with
\* packets that are counted, pooled and written over by any number of goroutines,
\* each behaves as if it held the frames themselves, for any packets, frames,
\* buffer sizes and finite set of subscribers.
THEOREM StreamImplementsFlow == Spec => ImplementsFlow
  <1>1. Spec => []CountInv
    BY InitCount, NextCount, PTL DEF Spec
  <1> QED
    BY <1>1, InitFlows, StepFlows, PTL DEF Spec, ImplementsFlow, F!Spec
=============================================================================
