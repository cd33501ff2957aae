---------------------------- MODULE RelaySession ----------------------------
(***************************************************************************)
(* Relay sessions: a viewer's session and token, and the idle reaper.      *)
(*   internal/relay/manager.go, token.go, handlers.go                      *)
(*   internal/api/live_session_handler.go   create and delete              *)
(*   internal/api/relay_live.go             serveRelayLiveStream           *)
(* A session is closed by a request, by the control plane or by the reaper *)
(* while requests with its token are on their way.  Time is discrete; the  *)
(* reaper is late by at most Delay.  The control plane chooses its ids and *)
(* may repeat a create; the public endpoint draws fresh ones.              *)
(***************************************************************************)
EXTENDS Integers, Sequences

CONSTANTS
  Ids, Requests,
  ProtocolLists,  \* what clients ask for
  Idle, Period,   \* the idle timeout, the ticker of StartReaper
  Delay,          \* how late the reaper may be
  Lag,            \* from Create's clock reading to its lock: a token is signed
  TokenLife,      \* eight hours
  MaxTime, None

ASSUME RelayAssumption ==
  /\ Idle \in Nat /\ Period \in Nat \ {0} /\ Delay \in Nat
  /\ Lag \in 0 .. Idle
  /\ TokenLife \in Nat /\ MaxTime \in Nat
  /\ None \notin Ids /\ None \notin Int
  /\ ProtocolLists \subseteq Seq(STRING)

VARIABLES
  now,
  sessions, \* Manager.sessions: [protocol, last] or None
  expiry,   \* until when some token of each id is valid, None before the first
  req,      \* the requests for a stream: [at, id, protocol, late]
  due,      \* when the ticker fires next
  cutoff,   \* what ReapIdle has computed, or None
  ended     \* ids whose session was closed or reaped since it was created (history)

vars == <<now, sessions, expiry, req, due, cutoff, ended>>

Protocols == {"webrtc", "hls"}
Active == {i \in Ids : sessions[i] # None}
NoRequest == [at |-> "idle", id |-> None, protocol |-> None, late |-> FALSE]

TypeOK ==
  /\ now \in 0 .. MaxTime
  /\ \A i \in Active : sessions[i] \in [protocol : Protocols, last : 0 .. MaxTime]
  /\ expiry \in [Ids -> 0 .. MaxTime + TokenLife \cup {None}]
  /\ ended \subseteq {i \in Ids : expiry[i] # None}
  /\ \A r \in Requests : req[r].at \in {"idle", "lookup", "served", "refused"}
  /\ due \in 0 .. MaxTime + Period /\ cutoff \in (-Idle) .. MaxTime \cup {None}

Init ==
  /\ now = 0
  /\ sessions = [i \in Ids |-> None]
  /\ expiry = [i \in Ids |-> None] /\ ended = {}
  /\ req = [r \in Requests |-> NoRequest]
  /\ due = Period /\ cutoff = None

-----------------------------------------------------------------------------
\* The first protocol of the client's list that the gateway speaks, else HLS.
Negotiate(list) ==
  LET known == {k \in 1 .. Len(list) : list[k] \in Protocols}
  IN  IF known = {} THEN "hls" ELSE list[CHOOSE k \in known : \A j \in known : k <= j]

\* TokenService: a token holds the id of its session and an expiry.
IssueToken(i, exp) == expiry' = [expiry EXCEPT ![i] = IF @ = None \/ @ < exp THEN exp ELSE @]
Verify(i) == expiry[i] # None /\ now < expiry[i]

\* Manager.Create: the clock is read, the token is issued, then the session is put
\* into the map, over the one that has its id.  Nobody has the token before that, so
\* the reading is all that is older than the insertion.
Create(i, list, life) ==
  \E read \in {t \in 0 .. now : now - t <= Lag} :
    /\ IssueToken(i, read + life)
    /\ sessions' = [sessions EXCEPT ![i] = [protocol |-> Negotiate(list), last |-> read]]
    /\ ended' = ended \ {i}
    /\ req' = [r \in Requests |-> IF req[r].id = i THEN [req[r] EXCEPT !.late = FALSE] ELSE req[r]]
    /\ UNCHANGED <<now, due, cutoff>>

\* POST /api/v1/live-sessions, once EnsureStream has returned the stream.  On an
\* error of EnsureStream nothing changes here.
createLiveSessionV1(list) ==
  \E i \in {j \in Ids : expiry[j] = None} :
    Create(i, IF list = <<>> THEN <<"webrtc", "hls">> ELSE list, TokenLife)

\* POST /internal/relay/sessions: the id and the expiry are the caller's.
CreateSession(list) ==
  \E i \in Ids, life \in {1, TokenLife} : Create(i, list, life)

\* A faulty Close that marks the session and leaves it to the reaper.
CloseMarks(i) ==
  /\ ended' = ended \cup ({i} \cap Active)
  /\ UNCHANGED <<now, sessions, expiry, req, due, cutoff>>

\* DELETE of a session, from a client or from the control plane.
Close(i) ==
  /\ sessions' = [sessions EXCEPT ![i] = None]
  /\ ended' = ended \cup ({i} \cap Active)
  /\ UNCHANGED <<now, expiry, req, due, cutoff>>

-----------------------------------------------------------------------------
\* serveRelayLiveStream up to VerifyAndGetSession's lock: there is no token, it has
\* expired (jwt: it is valid before its expiry), or it names another session.
RefuseToken(r) ==
  /\ req[r].at = "idle"
  /\ req' = [req EXCEPT ![r].at = "refused"]
  /\ UNCHANGED <<now, sessions, expiry, due, cutoff, ended>>

\* The token is valid and names the session of the URL.
VerifyToken(r, i, p) ==
  /\ req[r].at = "idle"
  /\ Verify(i)
  /\ req' = [req EXCEPT ![r] = [at |-> "lookup", id |-> i, protocol |-> p, late |-> i \in ended]]
  /\ UNCHANGED <<now, sessions, expiry, due, cutoff, ended>>

\* VerifyAndGetSession under the lock: a session that is there is active now.
GetSession(i) ==
  sessions' = IF i \in Active THEN [sessions EXCEPT ![i].last = now] ELSE sessions

\* It is so too when the protocol turns out to be the wrong one.  Then the playlist
\* or the offer URL is served, or a playlist that is not there yet is reported.
LookupSession(r) ==
  /\ req[r].at = "lookup"
  /\ LET i == req[r].id
         ok == i \in Active /\ sessions[i].protocol = req[r].protocol
     IN  /\ GetSession(i)
         /\ req' = [req EXCEPT ![r].at = IF ok THEN "served" ELSE "refused"]
  /\ UNCHANGED <<now, expiry, due, cutoff, ended>>

\* The client polls again.
NextRequest(r) ==
  /\ req[r].at \in {"served", "refused"}
  /\ req' = [req EXCEPT ![r] = NoRequest]
  /\ UNCHANGED <<now, sessions, expiry, due, cutoff, ended>>

-----------------------------------------------------------------------------
\* ReapIdle computes the cutoff before it takes the lock ...
ReapCutoff ==
  /\ cutoff = None
  /\ now >= due
  /\ cutoff' = now - Idle
  /\ due' = due + Period
  /\ UNCHANGED <<now, sessions, expiry, req, ended>>

Sweep(idle) ==
  /\ sessions' = [i \in Ids |-> IF i \in idle THEN None ELSE sessions[i]]
  /\ ended' = ended \cup idle
  /\ cutoff' = None
  /\ UNCHANGED <<now, expiry, req, due>>

\* Faulty sweeps: the comparison is not strict; sessions with a request are spared.
ReapSweepLoose == cutoff # None /\ Sweep({i \in Active : sessions[i].last <= cutoff})
ReapSweepBusy ==
  /\ cutoff # None
  /\ Sweep({i \in Active : sessions[i].last < cutoff /\ \A r \in Requests : req[r].id # i})

\* ... and deletes, under the lock, the sessions that were active before it.
ReapSweep ==
  /\ cutoff # None
  /\ Sweep({i \in Active : sessions[i].last < cutoff})

\* The clock; the reaper is late by at most Delay.
Tick ==
  /\ now < MaxTime
  /\ now < due + Delay
  /\ cutoff # None => now < cutoff + Idle + Delay
  /\ now' = now + 1
  /\ UNCHANGED <<sessions, expiry, req, due, cutoff, ended>>

Next ==
  \/ \E list \in ProtocolLists : createLiveSessionV1(list) \/ CreateSession(list)
  \/ \E i \in Ids : Close(i)
  \/ \E r \in Requests :
       \/ \E i \in Ids, p \in Protocols : VerifyToken(r, i, p)
       \/ RefuseToken(r) \/ LookupSession(r) \/ NextRequest(r)
  \/ ReapCutoff \/ ReapSweep \/ Tick

Spec == Init /\ [][Next]_vars

-----------------------------------------------------------------------------
\* The reaper never takes a session that was used within the idle timeout, although
\* it computes the cutoff before it has the lock.
ReapedWasIdle ==
  [][cutoff # None /\ cutoff' = None =>
       \A i \in Active : sessions'[i] = None => now - sessions[i].last > Idle]_vars

\* A request that comes after its session was closed or reaped is not served, even
\* with a token that is still valid, unless the session is created anew.
ClosedIsRefused == \A r \in Requests : req[r].at = "served" => ~req[r].late

\* An unused session is gone after the idle timeout, one period of the ticker and
\* the delays of the reaper.
IdleIsReaped == \A i \in Active : now - sessions[i].last <= Idle + Period + 2 * Delay
=============================================================================
