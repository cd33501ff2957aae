----------------------------- MODULE PionBridge -----------------------------
(***************************************************************************)
(* The Pion WebRTC bridge: an offer becomes a session that owns an RTSP    *)
(* client and a peer connection, and four callers may close it.            *)
(*   internal/pionbridge/service.go   HandleOffer, CloseSession, Close,    *)
(*                                    putSession, closeSession             *)
(*   internal/api/pion.go             pionOffer, pionCloseSession          *)
(* An offer and the session it creates share one name, for a session id is *)
(* a fresh UUID.  What an RTSP server or a peer does is nondeterministic.  *)
(* The session TTL is only reported to the client: no step enforces it.    *)
(***************************************************************************)
EXTENDS FiniteSets

CONSTANT Offers

VARIABLES
  at,       \* where HandleOffer is, for each offer
  rtsp,     \* the RTSP client of the offer
  pc,       \* its peer connection
  conn,     \* the state of the peer connection, as Pion reports it
  handled,  \* offers whose OnConnectionStateChange handler is installed
  missed,   \* offers whose connection failed with no handler (history)
  sessions, \* Service.sessions
  calls,    \* closeSession calls on their way: <<session, caller>>
  closing,  \* what closeSession still has to close of a deleted session
  waiter,   \* the goroutine that waits for the RTSP client
  service,  \* main: "serving", "closing" or "closed"
  seen      \* the ids Close has read

offerVars == <<at, rtsp, pc>>
peerVars == <<conn, handled, missed>>
closeVars == <<calls, closing, service, seen>>
bridgeVars == <<offerVars, peerVars, sessions, closeVars, waiter>>

Callers == {"request", "peer", "source", "shutdown"}
OfferPCs == {"idle", "rtsp", "peer", "gather", "put", "handler", "wait", "answered", "failed"}

BridgeTypeOK ==
  /\ at \in [Offers -> OfferPCs]
  /\ rtsp \in [Offers -> {"none", "open", "ended", "closed"}]
  /\ pc \in [Offers -> {"none", "open", "closed"}]
  /\ conn \in [Offers -> {"new", "connected", "disconnected", "failed", "closed"}]
  /\ handled \subseteq Offers /\ missed \subseteq Offers /\ seen \subseteq Offers
  /\ sessions \subseteq Offers
  /\ calls \subseteq Offers \X Callers
  /\ closing \in [Offers -> {"none", "pc", "rtsp", "done"}]
  /\ waiter \in [Offers -> {"none", "waiting", "done"}]
  /\ service \in {"serving", "closing", "closed"}

BridgeInit ==
  /\ at = [o \in Offers |-> "idle"]
  /\ rtsp = [o \in Offers |-> "none"]
  /\ pc = [o \in Offers |-> "none"]
  /\ conn = [o \in Offers |-> "new"]
  /\ handled = {} /\ missed = {} /\ seen = {}
  /\ sessions = {}
  /\ calls = {}
  /\ closing = [o \in Offers |-> "none"]
  /\ waiter = [o \in Offers |-> "none"]
  /\ service = "serving"

-----------------------------------------------------------------------------
\* client.Close: a client that has ended by itself only gets the mark.
CloseRTSP(o) == rtsp' = [rtsp EXCEPT ![o] = "closed"]

\* pionOffer: the body is invalid, or client.Start fails.
Refuse(o) ==
  /\ at[o] = "idle"
  /\ at' = [at EXCEPT ![o] = "failed"]
  /\ UNCHANGED <<rtsp, pc, peerVars, sessions, closeVars, waiter>>

\* pionOffer and HandleOffer up to client.Start.
Start(o) ==
  /\ at[o] = "idle"
  /\ at' = [at EXCEPT ![o] = "rtsp"]
  /\ rtsp' = [rtsp EXCEPT ![o] = "open"]
  /\ UNCHANGED <<pc, peerVars, sessions, closeVars, waiter>>

\* Describe, selectTracks, SetupAll or NewPeerConnection fails.
SourceFails(o) ==
  /\ at[o] = "rtsp"
  /\ at' = [at EXCEPT ![o] = "failed"]
  /\ CloseRTSP(o)
  /\ UNCHANGED <<pc, peerVars, sessions, closeVars, waiter>>

\* They succeed, and the peer connection exists.
NewPeerConnection(o) ==
  /\ at[o] = "rtsp" /\ rtsp[o] = "open"
  /\ at' = [at EXCEPT ![o] = "peer"]
  /\ pc' = [pc EXCEPT ![o] = "open"]
  /\ UNCHANGED <<rtsp, peerVars, sessions, closeVars, waiter>>

\* A faulty PeerFails that forgets the RTSP client.
PeerFailsHalf(o) ==
  /\ at[o] = "peer"
  /\ at' = [at EXCEPT ![o] = "failed"]
  /\ pc' = [pc EXCEPT ![o] = "closed"]
  /\ UNCHANGED <<rtsp, peerVars, sessions, closeVars, waiter>>

\* AddTrack, Play, SetRemoteDescription, CreateAnswer or SetLocalDescription fails.
PeerFails(o) ==
  /\ at[o] = "peer"
  /\ at' = [at EXCEPT ![o] = "failed"]
  /\ pc' = [pc EXCEPT ![o] = "closed"]
  /\ CloseRTSP(o)
  /\ UNCHANGED <<peerVars, sessions, closeVars, waiter>>

\* They succeed; candidates are gathered and the peer may begin to connect.  The
\* source may have ended since Play.
SetLocalDescription(o) ==
  /\ at[o] = "peer"
  /\ at' = [at EXCEPT ![o] = "gather"]
  /\ UNCHANGED <<rtsp, pc, peerVars, sessions, closeVars, waiter>>

\* The wait for gatherComplete, which no context interrupts.
GatherComplete(o) ==
  /\ at[o] = "gather"
  /\ at' = [at EXCEPT ![o] = "put"]
  /\ UNCHANGED <<rtsp, pc, peerVars, sessions, closeVars, waiter>>

putSession(o) ==
  /\ at[o] = "put"
  /\ sessions' = sessions \cup {o}
  /\ at' = [at EXCEPT ![o] = "handler"]
  /\ UNCHANGED <<rtsp, pc, peerVars, closeVars, waiter>>

OnConnectionStateChange(o) ==
  /\ at[o] = "handler"
  /\ handled' = handled \cup {o}
  /\ at' = [at EXCEPT ![o] = "wait"]
  /\ UNCHANGED <<rtsp, pc, conn, missed, sessions, closeVars, waiter>>

\* A faulty Answer without the goroutine: the handler alone ends the session.
AnswerAlone(o) ==
  /\ at[o] = "wait"
  /\ at' = [at EXCEPT ![o] = "answered"]
  /\ UNCHANGED <<rtsp, pc, peerVars, sessions, closeVars, waiter>>

\* The goroutine is started and the answer returned.
Answer(o) ==
  /\ at[o] = "wait"
  /\ waiter' = [waiter EXCEPT ![o] = "waiting"]
  /\ at' = [at EXCEPT ![o] = "answered"]
  /\ UNCHANGED <<rtsp, pc, peerVars, sessions, closeVars>>

-----------------------------------------------------------------------------
\* The RTSP server, or the camera behind it, ends the session.
SourceEnds(o) ==
  /\ rtsp[o] = "open"
  /\ rtsp' = [rtsp EXCEPT ![o] = "ended"]
  /\ UNCHANGED <<at, pc, peerVars, sessions, closeVars, waiter>>

\* What Pion reports of a peer: it connects, is lost, comes back, fails.
PeerEdges ==
  { <<"new", "connected">>, <<"new", "failed">>, <<"connected", "disconnected">>,
    <<"disconnected", "connected">>, <<"disconnected", "failed">> }

\* The handler runs for a change it is installed for, and calls closeSession.
PeerChanges(o, s) ==
  /\ pc[o] = "open" /\ at[o] \in {"gather", "put", "handler", "wait", "answered"}
  /\ <<conn[o], s>> \in PeerEdges
  /\ conn' = [conn EXCEPT ![o] = s]
  /\ IF s = "connected" THEN UNCHANGED <<calls, missed>>
     ELSE IF o \in handled
       THEN calls' = calls \cup {<<o, "peer">>} /\ UNCHANGED missed
       ELSE missed' = (IF s = "failed" THEN missed \cup {o} ELSE missed) /\ UNCHANGED calls
  /\ UNCHANGED <<offerVars, handled, sessions, closing, service, seen, waiter>>

\* client.Wait returns, for the client has ended or was closed.
WaitReturns(o) ==
  /\ waiter[o] = "waiting" /\ rtsp[o] # "open"
  /\ waiter' = [waiter EXCEPT ![o] = "done"]
  /\ calls' = calls \cup {<<o, "source">>}
  /\ UNCHANGED <<offerVars, peerVars, sessions, closing, service, seen>>

\* pionCloseSession: the client knows the id once it has the answer.  A request
\* for a session that is gone finds nothing and is left out.
CloseSession(o) ==
  /\ at[o] = "answered" /\ o \in sessions
  /\ calls' = calls \cup {<<o, "request">>}
  /\ UNCHANGED <<offerVars, peerVars, sessions, closing, service, seen, waiter>>

\* Close reads the ids under the lock, in main's deferred calls ...
Close ==
  /\ service = "serving"
  /\ service' = "closing"
  /\ seen' = sessions
  /\ calls' = calls \cup {<<o, "shutdown">> : o \in sessions}
  /\ UNCHANGED <<offerVars, peerVars, sessions, closing, waiter>>

\* A faulty closeSession that leaves the entry in the map.
closeDeleteLate(o, c) ==
  /\ <<o, c>> \in calls
  /\ calls' = calls \ {<<o, c>>}
  /\ IF o \in sessions THEN closing' = [closing EXCEPT ![o] = "pc"] ELSE UNCHANGED closing
  /\ UNCHANGED <<offerVars, peerVars, sessions, service, seen, waiter>>

\* closeSession: one caller deletes the entry, and that one goes on; the others
\* find nothing.  An id is put once, so the flag closed never stops anyone.
closeDelete(o, c) ==
  /\ <<o, c>> \in calls
  /\ calls' = calls \ {<<o, c>>}
  /\ IF o \in sessions
       THEN /\ sessions' = sessions \ {o}
            /\ closing' = [closing EXCEPT ![o] = "pc"]
       ELSE UNCHANGED <<sessions, closing>>
  /\ UNCHANGED <<offerVars, peerVars, service, seen, waiter>>

\* pc.Close makes Pion report the state closed to the handler, whose call of
\* closeSession finds no entry any more.
closePeer(o) ==
  /\ closing[o] = "pc"
  /\ pc' = [pc EXCEPT ![o] = "closed"]
  /\ closing' = [closing EXCEPT ![o] = "rtsp"]
  /\ conn' = [conn EXCEPT ![o] = "closed"]
  /\ missed' = missed \ {o}
  /\ UNCHANGED <<at, rtsp, handled, sessions, calls, service, seen, waiter>>

closeSource(o) ==
  /\ closing[o] = "rtsp"
  /\ CloseRTSP(o)
  /\ closing' = [closing EXCEPT ![o] = "done"]
  /\ UNCHANGED <<at, pc, peerVars, sessions, calls, service, seen, waiter>>

\* ... and returns when its own calls have.  It closes one id after the other; a
\* call of its own that loses the race for the entry returns at once.
CloseReturns ==
  /\ service = "closing"
  /\ \A o \in seen : <<o, "shutdown">> \notin calls
  /\ service' = "closed"
  /\ UNCHANGED <<offerVars, peerVars, sessions, calls, closing, seen, waiter>>

HandleOffer(o) ==
  \/ Refuse(o) \/ Start(o) \/ SourceFails(o) \/ NewPeerConnection(o) \/ PeerFails(o)
  \/ SetLocalDescription(o) \/ GatherComplete(o) \/ putSession(o)
  \/ OnConnectionStateChange(o) \/ Answer(o)
closeSession(o) ==
  (\E c \in Callers : closeDelete(o, c)) \/ closePeer(o) \/ closeSource(o)

\* Between the main goroutine's return from Close and the end of the process the
\* other goroutines go on.
BridgeNext ==
  \/ \E o \in Offers :
       \/ HandleOffer(o) \/ closeSession(o)
       \/ SourceEnds(o) \/ WaitReturns(o) \/ CloseSession(o)
       \/ \E s \in {"connected", "disconnected", "failed"} : PeerChanges(o, s)
  \/ Close \/ CloseReturns

BridgeSpec == BridgeInit /\ [][BridgeNext]_bridgeVars

\* Goroutines are scheduled, and gathering ends; nobody has to send an offer.
Work(o) == (at[o] # "idle" /\ HandleOffer(o)) \/ WaitReturns(o) \/ closePeer(o) \/ closeSource(o)
BridgeFairSpec ==
  /\ BridgeSpec
  /\ \A o \in Offers : WF_bridgeVars(Work(o)) /\ WF_bridgeVars(\E c \in Callers : closeDelete(o, c))

-----------------------------------------------------------------------------
\* HandleOffer still holds what it opened; afterwards the session does.
InFlight(o) == at[o] \in {"rtsp", "peer", "gather", "put"}
Open(o) == rtsp[o] = "open" \/ pc[o] = "open"

\* Nothing leaks: an open RTSP client or peer connection belongs to an offer in
\* progress, to a session of the map, or to the one closeSession that deleted it.
NoLeak ==
  \A o \in Offers : Open(o) => \/ InFlight(o)
                              \/ o \in sessions
                              \/ closing[o] \in {"pc", "rtsp"}

\* A session does not outlive either of its ends.  A source that ends takes its
\* session with it, also when it ends while the offer is still being answered and
\* nothing waits for it yet; so does a peer that fails, unless it had failed before
\* HandleOffer installed the handler.
LostEndIsReleased ==
  \A o \in Offers :
    (rtsp[o] = "ended" \/ (conn[o] = "failed" /\ o \notin missed)) ~> ~Open(o)

\* Close leaves no session it has seen in the map, whoever closed it, although the
\* parts of a session that another call is closing may still be open.
CloseForgetsSeen == service = "closed" => seen \cap sessions = {}
=============================================================================
