------------------------- MODULE RelaySessionProofs -------------------------
(***************************************************************************)
(* Relay sessions for any ids, requests, timeouts and delays: what the     *)
(* reaper takes, how late it is, and who is served.                        *)
(***************************************************************************)
EXTENDS RelaySession, SequenceTheorems, WellFoundedInduction, TLAPS

\* The gateway speaks the protocol it negotiates, whatever the client asks for.
LEMMA NegotiateType ==
  ASSUME NEW list, Len(list) \in Nat
  PROVE  Negotiate(list) \in Protocols
  <1> DEFINE known == {k \in 1 .. Len(list) : list[k] \in Protocols}
             R == OpToRel(<, Nat)
  <1>1. CASE known = {}
    BY <1>1 DEF Negotiate, Protocols
  <1>2. CASE known # {}
    <2>1. known \subseteq Nat
      OBVIOUS
    <2>2. IsWellFoundedOn(R, Nat)
      BY NatLessThanWellFounded
    <2>3. \A x, y \in Nat : y < x => <<y, x>> \in R
      BY DEF OpToRel
    <2> HIDE DEF R
    <2>4. PICK k \in known : \A j \in known : ~(<<j, k>> \in R)
      BY <1>2, <2>1, <2>2, WFMin
    <2>5. ASSUME NEW j \in known PROVE k <= j
      <3>1. j \in Nat /\ k \in Nat
        BY <2>1
      <3>2. ~(j < k)
        BY <2>3, <2>4, <3>1
      <3> QED
        BY <3>1, <3>2
    <2>6. (CHOOSE c \in known : \A j \in known : c <= j) \in known
      BY <2>5
    <2> QED
      BY <1>2, <2>6 DEF Negotiate
  <1> QED
    BY <1>1, <1>2

-----------------------------------------------------------------------------
\* What the variables hold.
Session == [protocol : Protocols, last : Nat]
Request == [at : {"idle", "lookup", "served", "refused"}, id : Ids \cup {None},
            protocol : Protocols \cup {None}, late : BOOLEAN]

Types ==
  /\ now \in Nat /\ due \in Nat /\ cutoff \in Int \cup {None}
  /\ sessions \in [Ids -> Session \cup {None}]
  /\ req \in [Requests -> Request]
  /\ ended \subseteq Ids

\* A session that has ended is not in the map, and a request that came too late
\* names a session that has ended and is not served.
EndedInv ==
  /\ ended \cap Active = {}
  /\ \A r \in Requests : req[r].late => req[r].id \in ended /\ req[r].at # "served"

\* The ticker is late by at most Delay, and so is the sweep after the cutoff was
\* computed.
ReaperOnTime ==
  /\ due - Period <= now /\ now <= due + Delay
  /\ cutoff # None =>
       /\ due - Period - Idle <= cutoff /\ cutoff <= due - Period + Delay - Idle
       /\ cutoff <= now - Idle /\ now <= cutoff + Idle + Delay

\* What the last sweep left was used after its cutoff.
SweptInv ==
  \A i \in Active :
    /\ sessions[i].last <= now
    /\ sessions[i].last >= due - Period - Idle - (IF cutoff = None THEN 0 ELSE Period)

\* The inductive invariant.
RelayInv == Types /\ EndedInv /\ ReaperOnTime /\ SweptInv

\* Everything starts at time zero, with no session.
LEMMA InitRelay == Init => RelayInv
  BY RelayAssumption
  DEF Init, RelayInv, Types, EndedInv, ReaperOnTime, SweptInv, Active, NoRequest, Request, Session

\* Creating a session, under a fresh id or over one that is there.
LEMMA CreateRelay ==
  ASSUME RelayInv, NEW i \in Ids, NEW list, Len(list) \in Nat, NEW life, Create(i, list, life)
  PROVE  RelayInv'
  <1> USE RelayAssumption DEF RelayInv
  <1>0. PICK read \in {t \in 0 .. now : now - t <= Lag} :
          sessions' = [sessions EXCEPT ![i] = [protocol |-> Negotiate(list), last |-> read]]
    BY DEF Create
  <1> DEFINE n == [protocol |-> Negotiate(list), last |-> read]
  <1>1. /\ n \in Session /\ n.last = read
        /\ read \in Nat /\ read <= now /\ now - read <= Idle
    BY NegotiateType DEF Types, Session
  <1>2. /\ sessions' = [sessions EXCEPT ![i] = n] /\ ended' = ended \ {i}
        /\ req' = [r \in Requests |-> IF req[r].id = i THEN [req[r] EXCEPT !.late = FALSE] ELSE req[r]]
        /\ UNCHANGED <<now, due, cutoff>>
    BY <1>0 DEF Create
  <1> HIDE DEF n
  <1>3. Types'
    <2>1. sessions' \in [Ids -> Session \cup {None}] /\ ended' \subseteq Ids
      BY <1>1, <1>2 DEF Types
    <2>2. ASSUME NEW r \in Requests PROVE req'[r] \in Request
      BY <1>2 DEF Types, Request
    <2> QED
      BY <1>2, <2>1, <2>2 DEF Types
  <1>4. EndedInv'
    <2>1. ended' \cap Active' = {}
      BY <1>2 DEF EndedInv, Active, Types
    <2>2. ASSUME NEW r \in Requests, req'[r].late PROVE req'[r].id \in ended' /\ req'[r].at # "served"
      BY <1>2, <2>2 DEF EndedInv, Types, Request
    <2> QED
      BY <2>1, <2>2 DEF EndedInv
  <1>5. ReaperOnTime'
    BY <1>2 DEF ReaperOnTime
  <1>6. SweptInv'
    <2>1. ASSUME NEW j \in Active', j # i
          PROVE  j \in Active /\ sessions'[j] = sessions[j]
      BY <1>2, <2>1 DEF Active, Types
    <2>2. sessions'[i] = n
      BY <1>2 DEF Types
    <2>3. now \in Nat /\ due \in Nat /\ due - Period <= now
      BY DEF Types, ReaperOnTime
    <2> QED
      BY <1>1, <1>2, <2>1, <2>2, <2>3 DEF SweptInv
  <1> QED
    BY <1>3, <1>4, <1>5, <1>6

\* Closing, requests, the reaper and the clock.
LEMMA NextRelay == RelayInv /\ [Next]_vars => RelayInv'
  <1> SUFFICES ASSUME RelayInv, [Next]_vars
               PROVE  RelayInv'
    OBVIOUS
  <1> USE RelayAssumption DEF RelayInv
  <1>0. now \in Nat /\ due \in Nat /\ cutoff \in Int \cup {None} /\ \A i \in Active : sessions[i].last \in Nat
    BY DEF Types, Session, Active
  <1>1. ASSUME NEW list \in ProtocolLists, createLiveSessionV1(list)
        PROVE  RelayInv'
    <2> DEFINE l == IF list = <<>> THEN <<"webrtc", "hls">> ELSE list
    <2>1. Len(l) \in Nat
      <3>1. Len(list) \in Nat
        BY LenProperties
      <3>2. Len(<<"webrtc", "hls">>) = 2
        OBVIOUS
      <3> QED
        BY <3>1, <3>2
    <2>2. PICK i \in Ids : Create(i, l, TokenLife)
      BY <1>1 DEF createLiveSessionV1
    <2> HIDE DEF l
    <2> QED
      BY <2>1, <2>2, CreateRelay
  <1>2. ASSUME NEW list \in ProtocolLists, CreateSession(list)
        PROVE  RelayInv'
    <2>1. PICK i \in Ids, life \in {1, TokenLife} : Create(i, list, life)
      BY <1>2 DEF CreateSession
    <2>2. Len(list) \in Nat
      BY LenProperties
    <2> QED
      BY <2>1, <2>2, CreateRelay
  <1>3. ASSUME NEW i \in Ids, Close(i)
        PROVE  RelayInv'
    <2>1. sessions' = [sessions EXCEPT ![i] = None] /\ ended' = ended \cup ({i} \cap Active)
          /\ UNCHANGED <<now, due, cutoff, req>>
      BY <1>3 DEF Close
    <2>2. sessions'[i] = None /\ \A j \in Ids \ {i} : sessions'[j] = sessions[j]
      BY <2>1 DEF Types
    <2>3. Active' = Active \ {i}
      BY <2>2 DEF Active
    <2>4. Types'
      BY <2>1 DEF Types
    <2>5. EndedInv'
      BY <2>1, <2>3 DEF EndedInv
    <2>6. ReaperOnTime' /\ SweptInv'
      BY <2>1, <2>2, <2>3 DEF ReaperOnTime, SweptInv, Active
    <2> QED
      BY <2>4, <2>5, <2>6
  <1>4. ASSUME NEW r \in Requests, NEW i \in Ids, NEW p \in Protocols, VerifyToken(r, i, p)
        PROVE  RelayInv'
    <2> DEFINE q == [at |-> "lookup", id |-> i, protocol |-> p, late |-> i \in ended]
    <2>1. q \in Request /\ q.at # "served" /\ (q.late => q.id \in ended)
      <3>1. q.at = "lookup" /\ q.id = i /\ q.late = (i \in ended)
        OBVIOUS
      <3>2. ASSUME NEW b \in BOOLEAN PROVE [at |-> "lookup", id |-> i, protocol |-> p, late |-> b] \in Request
        BY DEF Request
      <3>3. (i \in ended) \in BOOLEAN
        OBVIOUS
      <3>4. q \in Request
        BY <3>2, <3>3
      <3> HIDE DEF q
      <3> QED
        BY <3>1, <3>4
    <2>2. req' = [req EXCEPT ![r] = q] /\ UNCHANGED <<now, sessions, due, cutoff, ended>>
      BY <1>4 DEF VerifyToken
    <2> HIDE DEF q
    <2>3. Types' /\ req'[r] = q /\ \A x \in Requests \ {r} : req'[x] = req[x]
      BY <2>1, <2>2 DEF Types
    <2>4. EndedInv'
      BY <2>1, <2>2, <2>3 DEF EndedInv, Active
    <2>5. ReaperOnTime' /\ SweptInv'
      BY <2>2 DEF ReaperOnTime, SweptInv, Active
    <2> QED
      BY <2>3, <2>4, <2>5
  <1>5. ASSUME NEW r \in Requests, RefuseToken(r) \/ NextRequest(r)
        PROVE  RelayInv'
    <2>1. UNCHANGED <<now, sessions, due, cutoff, ended>> /\ \A x \in Requests \ {r} : req'[x] = req[x]
      BY <1>5 DEF RefuseToken, NextRequest, Types
    <2>2. Types' /\ req'[r].at # "served" /\ (req'[r].late => req'[r].id \in ended)
      <3>1. CASE RefuseToken(r)
        <4>1. req' = [req EXCEPT ![r] = [req[r] EXCEPT !.at = "refused"]]
          BY <3>1 DEF RefuseToken
        <4>2. [req[r] EXCEPT !.at = "refused"] \in Request
          BY DEF Types, Request
        <4> QED
          BY <2>1, <4>1, <4>2 DEF Types, EndedInv, Request
      <3>2. CASE NextRequest(r)
        <4>1. req' = [req EXCEPT ![r] = NoRequest]
          BY <3>2 DEF NextRequest
        <4>2. NoRequest \in Request
          BY DEF Request, NoRequest
        <4> QED
          BY <2>1, <4>1, <4>2 DEF Types, NoRequest
      <3> QED
        BY <1>5, <3>1, <3>2
    <2>3. EndedInv'
      BY <2>1, <2>2 DEF EndedInv, Active
    <2>4. ReaperOnTime' /\ SweptInv'
      BY <2>1 DEF ReaperOnTime, SweptInv, Active
    <2> QED
      BY <2>2, <2>3, <2>4
  <1>6. ASSUME NEW r \in Requests, LookupSession(r)
        PROVE  RelayInv'
    <2> DEFINE i == req[r].id
               ok == i \in Active /\ sessions[i].protocol = req[r].protocol
               a == IF ok THEN "served" ELSE "refused"
    <2>1. /\ GetSession(i) /\ req' = [req EXCEPT ![r] = [req[r] EXCEPT !.at = a]]
          /\ UNCHANGED <<now, due, cutoff, ended>>
      BY <1>6 DEF LookupSession
    <2>2. [req[r] EXCEPT !.at = a] \in Request
      BY DEF Types, Request
    <2>3. req'[r].at = a /\ req'[r].late = req[r].late /\ req'[r].id = i
          /\ \A x \in Requests \ {r} : req'[x] = req[x]
      BY <2>1 DEF Types, Request
    <2>4. /\ sessions' \in [Ids -> Session \cup {None}]
          /\ \A j \in Active' : j \in Active /\ (sessions'[j] = sessions[j] \/ sessions'[j].last = now)
      <3>1. CASE i \in Active
        <4>1. sessions' = [sessions EXCEPT ![i] = [sessions[i] EXCEPT !.last = now]]
          BY <2>1, <3>1 DEF GetSession
        <4>2. [sessions[i] EXCEPT !.last = now] \in Session /\ [sessions[i] EXCEPT !.last = now].last = now
          BY <3>1 DEF Types, Session, Active
        <4> QED
          BY <3>1, <4>1, <4>2 DEF Types, Active
      <3>2. CASE i \notin Active
        BY <2>1, <3>2 DEF GetSession, Types, Active
      <3> QED
        BY <3>1, <3>2
    <2>5. Types'
      BY <2>1, <2>2, <2>4 DEF Types
    <2>6. EndedInv'
      <3>1. ended' \cap Active' = {}
        BY <2>1, <2>4 DEF EndedInv
      <3>2. req[r].late => a # "served"
        BY DEF EndedInv
      <3> HIDE DEF a
      <3> QED
        BY <2>1, <2>3, <3>1, <3>2 DEF EndedInv
    <2>7. ReaperOnTime'
      BY <2>1 DEF ReaperOnTime
    <2>8. SweptInv'
      <3>1. due - Period <= now
        BY DEF ReaperOnTime
      <3> QED
        BY <1>0, <2>1, <2>4, <3>1 DEF SweptInv
    <2> QED
      BY <2>5, <2>6, <2>7, <2>8
  <1>7. CASE ReapCutoff
    <2>1. /\ cutoff = None /\ now >= due /\ cutoff' = now - Idle /\ due' = due + Period
          /\ UNCHANGED <<now, sessions, req, ended>>
      BY <1>7 DEF ReapCutoff
    <2>2. Types' /\ EndedInv'
      BY <1>0, <2>1 DEF Types, EndedInv, Active
    <2>3. ReaperOnTime'
      BY <1>0, <2>1 DEF ReaperOnTime
    <2>4. cutoff' # None
      BY <1>0, <2>1
    <2>5. SweptInv'
      BY <1>0, <2>1, <2>4 DEF SweptInv, Active
    <2> QED
      BY <2>2, <2>3, <2>5
  <1>8. CASE ReapSweep
    <2> DEFINE idle == {i \in Active : sessions[i].last < cutoff}
    <2>1. /\ cutoff # None /\ cutoff' = None /\ ended' = ended \cup idle
          /\ sessions' = [i \in Ids |-> IF i \in idle THEN None ELSE sessions[i]]
          /\ UNCHANGED <<now, req, due>>
      BY <1>8 DEF ReapSweep, Sweep
    <2>2. Active' = Active \ idle /\ \A i \in Active' : sessions'[i] = sessions[i]
      BY <2>1 DEF Active
    <2>3. Types'
      BY <2>1 DEF Types, Active
    <2>4. EndedInv'
      BY <2>1, <2>2 DEF EndedInv
    <2>5. ReaperOnTime'
      BY <2>1 DEF ReaperOnTime
    <2>6. cutoff \in Int /\ due - Period - Idle <= cutoff
      BY <1>0, <2>1 DEF ReaperOnTime
    <2>7. SweptInv'
      BY <1>0, <2>1, <2>2, <2>6 DEF SweptInv
    <2> QED
      BY <2>3, <2>4, <2>5, <2>7
  <1>9. CASE Tick
    <2>1. /\ now' = now + 1 /\ now < due + Delay /\ (cutoff # None => now < cutoff + Idle + Delay)
          /\ UNCHANGED <<sessions, req, due, cutoff, ended>>
      BY <1>9 DEF Tick
    <2>2. Types' /\ EndedInv'
      BY <1>0, <2>1 DEF Types, EndedInv, Active
    <2>3. ReaperOnTime'
      BY <1>0, <2>1 DEF ReaperOnTime
    <2>4. SweptInv'
      BY <1>0, <2>1 DEF SweptInv, Active
    <2> QED
      BY <2>2, <2>3, <2>4
  <1>10. CASE UNCHANGED vars
    BY <1>10 DEF vars, Types, EndedInv, ReaperOnTime, SweptInv, Active
  <1> QED
    BY <1>1, <1>2, <1>3, <1>4, <1>5, <1>6, <1>7, <1>8, <1>9, <1>10 DEF Next

\* A session nobody uses leaves the map within the idle timeout, one period of the
\* ticker and the two delays of the reaper.
THEOREM IdleSessionsAreReaped == Spec => []IdleIsReaped
  <1>1. RelayInv => IdleIsReaped
    <2> SUFFICES ASSUME RelayInv, NEW i \in Active
                 PROVE  now - sessions[i].last <= Idle + Period + 2 * Delay
      BY DEF IdleIsReaped
    <2>1. now \in Nat /\ due \in Nat /\ sessions[i].last \in Nat /\ cutoff \in Int \cup {None}
      BY DEF RelayInv, Types, Session, Active
    <2>2. now <= due + Delay /\ (cutoff # None => now <= cutoff + Idle + Delay /\ cutoff <= due - Period + Delay - Idle)
      BY DEF RelayInv, ReaperOnTime
    <2>3. sessions[i].last >= due - Period - Idle - (IF cutoff = None THEN 0 ELSE Period)
      BY DEF RelayInv, SweptInv
    <2>4. Idle \in Nat /\ Period \in Nat /\ Delay \in Nat
      BY RelayAssumption
    <2>5. CASE cutoff = None
      BY <2>1, <2>2, <2>3, <2>4, <2>5
    <2>6. CASE cutoff # None
      <3>1. /\ cutoff \in Int /\ now <= cutoff + Idle + Delay /\ cutoff <= due - Period + Delay - Idle
            /\ sessions[i].last >= due - Period - Idle - Period
        BY <2>1, <2>2, <2>3, <2>6
      <3> QED
        BY <2>1, <2>4, <3>1
    <2> QED
      BY <2>5, <2>6
  <1> QED
    BY <1>1, InitRelay, NextRelay, PTL DEF Spec

\* A request that came after its session was closed or reaped is not served, even
\* if its token is still valid, unless the session was created anew.
THEOREM ClosedSessionsAreRefused == Spec => []ClosedIsRefused
  <1>1. RelayInv => ClosedIsRefused
    BY DEF RelayInv, EndedInv, ClosedIsRefused
  <1> QED
    BY <1>1, InitRelay, NextRelay, PTL DEF Spec

\* The reaper takes no session used within the idle timeout, although it computes
\* the cutoff before it takes the lock.
THEOREM ReapedSessionsWereIdle == Spec => ReapedWasIdle
  <1> DEFINE Was == cutoff # None /\ cutoff' = None =>
                      \A i \in Active : sessions'[i] = None => now - sessions[i].last > Idle
  <1>1. RelayInv /\ [Next]_vars => [Was]_vars
    <2> SUFFICES ASSUME RelayInv, Next, cutoff # None, cutoff' = None, NEW i \in Active, sessions'[i] = None
                 PROVE  now - sessions[i].last > Idle
      OBVIOUS
    <2>1. ReapSweep
      BY DEF Next, createLiveSessionV1, CreateSession, Create, Close, VerifyToken, RefuseToken,
             LookupSession, NextRequest, ReapCutoff, Tick
    <2>2. sessions[i].last < cutoff /\ cutoff <= now - Idle
      BY <2>1 DEF ReapSweep, Sweep, RelayInv, ReaperOnTime, Active
    <2>3. now \in Nat /\ cutoff \in Int /\ sessions[i].last \in Nat /\ Idle \in Nat
      BY RelayAssumption DEF RelayInv, Types, Session, Active
    <2> QED
      BY <2>2, <2>3
  <1> QED
    BY <1>1, InitRelay, NextRelay, PTL DEF Spec, ReapedWasIdle
=============================================================================
