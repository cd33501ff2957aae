------------------------------- MODULE Ingest -------------------------------
(***************************************************************************)
(* The life of one stream key: the in-process registry of live streams and *)
(* the RTSP pulls that feed it.                                            *)
(*   internal/stream/manager.go  StreamManager.Register, Unregister        *)
(*   internal/rtsp/ingester.go   IngestManager.Start, Stop, remove, ingest *)
(*   internal/api/hooks.go       onPublish, onUnpublish                    *)
(*                                                                         *)
(* Every map of the two managers is keyed by the stream key and no         *)
(* operation touches two keys, so one key is modelled.  A pull is one      *)
(* ingest goroutine; it registers at most one stream, which is named after *)
(* it.                                                                     *)
(***************************************************************************)
EXTENDS Naturals, FiniteSets

CONSTANTS
  Pulls,            \* ingest goroutines that may be started
  None

ASSUME IngestAssumption == None \notin Pulls

VARIABLES
  sessions,   \* IngestManager.sessions[key]: the pull whose cancel it holds
  streams,    \* StreamManager.streams[key]
  pc,         \* where each pull is
  cancelled,  \* pulls whose context is cancelled
  closing,    \* the stream a pull has unregistered and has yet to Close
  closed      \* streams that are closed

ingestVars == <<sessions, streams, pc, cancelled, closing, closed>>

\* A pull is connected, or connecting, until its deferred client.Close.
Pulling == {"connect", "register", "attach", "play", "stream"}
\* A pull's own stream may be in the registry.
Registered == {"attach", "play", "stream", "remove", "unregister"}
PCs == {"idle"} \cup Pulling \cup {"remove", "unregister", "close", "gone"}

Goto(g, l) == pc' = [pc EXCEPT ![g] = l]

-----------------------------------------------------------------------------
(* IngestManager.                                                          *)

\* Start: nothing if a session is recorded, else record one and go ingest.
StartPull ==
  IF sessions # None
  THEN UNCHANGED ingestVars
  ELSE \E g \in Pulls :
         /\ pc[g] = "idle"
         /\ Goto(g, "connect")
         /\ sessions' = g
         /\ UNCHANGED <<streams, cancelled, closing, closed>>

\* onPublish calls Start.
OnPublish == StartPull

\* Stop: forget the session and cancel its context.
StopPull ==
  /\ sessions # None
  /\ sessions' = None
  /\ cancelled' = cancelled \cup {sessions}
  /\ UNCHANGED <<streams, pc, closing, closed>>

\* onUnpublish calls Stop.
OnUnpublish == StopPull

\* Faulty variant: an early return before the deferred remove is in place.
ConnectLeaves(g) ==
  /\ pc[g] = "connect"
  /\ \E ok \in BOOLEAN : Goto(g, IF ok THEN "register" ELSE "unregister")
  /\ UNCHANGED <<sessions, streams, cancelled, closing, closed>>

\* Everything up to SetupAll; none of it looks at the context.
Connect(g) ==
  /\ pc[g] = "connect"
  /\ \E ok \in BOOLEAN : Goto(g, IF ok THEN "register" ELSE "remove")
  /\ UNCHANGED <<sessions, streams, cancelled, closing, closed>>

\* StreamManager.Register: an error if the key is taken.
Register(g) ==
  /\ pc[g] = "register"
  /\ IF streams = None
     THEN /\ streams' = g
          /\ Goto(g, "attach")
     ELSE /\ Goto(g, "remove")
          /\ UNCHANGED streams
  /\ UNCHANGED <<sessions, cancelled, closing, closed>>

\* AddSubscriber for the default subscribers (LiveStream), sequence headers,
\* callbacks; a decoder that cannot be created ends the pull.
Attach(g) ==
  /\ pc[g] = "attach"
  /\ \E ok \in BOOLEAN : Goto(g, IF ok THEN "play" ELSE "remove")
  /\ UNCHANGED <<sessions, streams, cancelled, closing, closed>>

Play(g) ==
  /\ pc[g] = "play"
  /\ \E ok \in BOOLEAN : Goto(g, IF ok THEN "stream" ELSE "remove")
  /\ UNCHANGED <<sessions, streams, cancelled, closing, closed>>

\* Upstream may end at any time.
UpstreamEnds(g) ==
  /\ pc[g] = "stream"
  /\ Goto(g, "remove")
  /\ UNCHANGED <<sessions, streams, cancelled, closing, closed>>

\* Faulty variant: the goroutine looks for its session, which Stop deleted,
\* and not at its context.
NoticeCancelBySession(g) ==
  /\ pc[g] = "stream"
  /\ sessions = g
  /\ g \in cancelled
  /\ Goto(g, "remove")
  /\ UNCHANGED <<sessions, streams, cancelled, closing, closed>>

NoticeCancel(g) ==
  /\ pc[g] = "stream"
  /\ g \in cancelled
  /\ Goto(g, "remove")
  /\ UNCHANGED <<sessions, streams, cancelled, closing, closed>>

\* Faulty variant: the deferred Unregister is missing.
RemoveOnly(g) ==
  /\ pc[g] = "remove"
  /\ sessions' = None
  /\ Goto(g, "gone")
  /\ UNCHANGED <<streams, cancelled, closing, closed>>

\* The deferred calls: client.Close, then remove(key) ...
Remove(g) ==
  /\ pc[g] = "remove"
  /\ sessions' = None
  /\ Goto(g, "unregister")
  /\ UNCHANGED <<streams, cancelled, closing, closed>>

\* Faulty variant: Close before the key is deleted.
UnregisterCloseFirst(g) ==
  /\ pc[g] = "unregister"
  /\ closing' = [closing EXCEPT ![g] = streams]
  /\ Goto(g, IF streams = None THEN "gone" ELSE "close")
  /\ UNCHANGED <<sessions, streams, cancelled, closed>>

\* ... then Unregister(key): delete whatever stream the key names, under the
\* registry's lock, and Close it after the unlock.
Unregister(g) ==
  /\ pc[g] = "unregister"
  /\ streams' = None
  /\ closing' = [closing EXCEPT ![g] = streams]
  /\ Goto(g, IF streams = None THEN "gone" ELSE "close")
  /\ UNCHANGED <<sessions, cancelled, closed>>

CloseStream(g) ==
  /\ pc[g] = "close"
  /\ closed' = closed \cup {closing[g]}
  /\ closing' = [closing EXCEPT ![g] = None]
  /\ Goto(g, "gone")
  /\ UNCHANGED <<sessions, streams, cancelled>>

-----------------------------------------------------------------------------
IngestInit ==
  /\ sessions = None
  /\ streams = None
  /\ pc = [g \in Pulls |-> "idle"]
  /\ cancelled = {}
  /\ closing = [g \in Pulls |-> None]
  /\ closed = {}

\* What the goroutine does by itself; UpstreamEnds is the camera's doing.
PullStep(g) ==
  \/ Connect(g) \/ Register(g) \/ Attach(g) \/ Play(g) \/ NoticeCancel(g)
  \/ Remove(g) \/ Unregister(g) \/ CloseStream(g)

IngestNext ==
  \/ OnPublish \/ OnUnpublish
  \/ \E g \in Pulls : PullStep(g) \/ UpstreamEnds(g)

-----------------------------------------------------------------------------
\* Types of the session table, the registry and the pulls' program counters;
\* only a stream is ever closed, never the absence of one.
IngestTypeOK ==
  /\ sessions \in Pulls \cup {None}
  /\ streams \in Pulls \cup {None}
  /\ pc \in [Pulls -> PCs]
  /\ cancelled \subseteq Pulls
  /\ closing \in [Pulls -> Pulls \cup {None}]
  /\ closed \subseteq Pulls

\* The registry never hands out a stream that is closed or about to be: the
\* key is deleted before Close, whichever pull's defer runs.
RegisteredStreamIsOpen ==
  streams # None => streams \notin closed /\ \A g \in Pulls : closing[g] # streams

\* A registered stream has a goroutine that feeds it or is on its way to
\* unregister it: no stream is left behind for the key to be blocked by.
NoOrphanStream == streams # None => pc[streams] \in Registered

\* The session that makes Start return at once ("already ingesting") is that of
\* a pull which still runs and was not told to stop, though any pull's deferred
\* remove and any hook may take it away: a key is never blocked by the session
\* of a dead pull, and a caller that polls after Start waits for a live one.
SessionIsAlive ==
  sessions # None => pc[sessions] \in Pulling \cup {"remove"} /\ sessions \notin cancelled

\* As long as nothing was stopped, at most one goroutine pulls the key, however
\* often Start is called and however pulls fail (ingester.go: "one per stream
\* key").
AtMostOnePull ==
  cancelled = {} =>
    \A g, h \in Pulls : pc[g] \in Pulling /\ pc[h] \in Pulling => g = h

\* A pull stopped by on-unpublish ends, and its stream is closed.
StoppedPullEnds ==
  \A g \in Pulls : g \in cancelled ~> pc[g] = "gone" /\ streams # g /\ \A h \in Pulls : closing[h] # g

\* hooks.go on onUnpublish: "Stops the RTSP pull ingestion for the stream."
\* A pull no session records can not be stopped by the hook any more.
StopReachesEveryPull ==
  \A g \in Pulls : pc[g] \in Pulling => sessions = g \/ g \in cancelled
=============================================================================
