---------------------------- MODULE ClusterRelay ----------------------------
(***************************************************************************)
(* One stream key in a cluster: which node has it, what Redis says of it,  *)
(* and the relays that pull it from node to node.                          *)
(*   internal/node/registry.go    AnnounceStream, RevokeStream, FindStream,*)
(*                                AllNodes                                 *)
(*   internal/node/relay.go       EnsureRelay, pull, remove                *)
(*   internal/api/streams.go      serveHLSPlaylist                         *)
(*   internal/api/relay.go        serveRelay                               *)
(*   internal/stream/manager.go   Register, Unregister and their callbacks *)
(* Keys are independent of each other, so one is enough.  A relay request  *)
(* and the pull goroutine it starts share one name; the name is used again *)
(* when the goroutine has ended.  How an ingest comes to register a camera *)
(* is the subject of Ingest and Engine.                                    *)
(***************************************************************************)
EXTENDS Naturals, FiniteSets

CONSTANTS
  Nodes, Pulls, Camera, None,
  MaxPending   \* a node starts nothing new with as many callbacks of a kind waiting

ASSUME ClusterAssumption ==
  /\ Camera \notin Pulls /\ None \notin Nodes \cup Pulls \cup {Camera}
  /\ MaxPending \in Nat \ {0}

VARIABLES
  up,         \* nodes that run
  owner,      \* stream:{key} in Redis
  stream,     \* StreamManager.streams[key] of each node: who publishes it
  ingests,    \* nodes where an ingest goroutine of the camera runs
  pending,    \* OnRegister and OnUnregister goroutines that have not run yet
  active,     \* nodes with an entry in RelayManager.active
  at,         \* where each relay is
  node, src,  \* the node of a relay, and the node it pulls from
  feed        \* the connection of a relay: "live", "ended" upstream, "lost"

relayVars == <<active, at, node, src>>
vars == <<up, owner, stream, ingests, pending, relayVars, feed>>

RelayPCs == {"none", "ensure", "nodes", "connect", "register", "streaming", "unregister", "remove"}
Callbacks == {"announce", "revoke"}

TypeOK ==
  /\ up \subseteq Nodes /\ owner \in Nodes \cup {None}
  /\ stream \in [Nodes -> Pulls \cup {Camera, None}]
  /\ ingests \subseteq up
  /\ pending \in [Nodes -> [Callbacks -> Nat]]
  /\ active \subseteq up
  /\ at \in [Pulls -> RelayPCs]
  /\ node \in [Pulls -> Nodes \cup {None}] /\ src \in [Pulls -> Nodes \cup {None}]
  /\ feed \in [Pulls -> {"none", "live", "ended", "lost"}]

Init ==
  /\ up = Nodes /\ owner = None
  /\ stream = [n \in Nodes |-> None]
  /\ ingests = {}
  /\ pending = [n \in Nodes |-> [k \in Callbacks |-> 0]]
  /\ active = {}
  /\ at = [p \in Pulls |-> "none"]
  /\ node = [p \in Pulls |-> None] /\ src = [p \in Pulls |-> None]
  /\ feed = [p \in Pulls |-> "none"]

-----------------------------------------------------------------------------
\* The bound on callbacks, for what starts a stream.
Room(n) == \A k \in Callbacks : pending[n][k] < MaxPending

\* StreamManager.Register of a key that is free: go OnRegister.
Register(n, pub) ==
  /\ stream[n] = None
  /\ stream' = [stream EXCEPT ![n] = pub]
  /\ pending' = [pending EXCEPT ![n]["announce"] = @ + 1]

\* StreamManager.Unregister takes whatever stream has the key: it closes it, which
\* leaves its relays connected and without data, and go OnUnregister.
Unregister(n) ==
  /\ stream' = [stream EXCEPT ![n] = None]
  /\ IF stream[n] = None THEN UNCHANGED <<pending, feed>>
     ELSE /\ pending' = [pending EXCEPT ![n]["revoke"] = @ + 1]
          /\ feed' = [p \in Pulls |-> IF src[p] = n /\ feed[p] = "live" THEN "ended" ELSE feed[p]]

\* AnnounceStream sets the key whoever had it; RevokeStream deletes it.
RunCallback(n, k) ==
  /\ pending[n][k] > 0
  /\ pending' = [pending EXCEPT ![n][k] = @ - 1]
  /\ owner' = IF k = "announce" THEN n ELSE None
  /\ UNCHANGED <<up, stream, ingests, relayVars, feed>>

\* Redis does not answer: the error is logged.
CallbackFails(n, k) ==
  /\ pending[n][k] > 0
  /\ pending' = [pending EXCEPT ![n][k] = @ - 1]
  /\ UNCHANGED <<up, owner, stream, ingests, relayVars, feed>>

\* The announcement lives for streamTTL and nothing renews it.
StreamKeyExpires ==
  /\ owner # None /\ owner' = None
  /\ UNCHANGED <<up, stream, ingests, pending, relayVars, feed>>

\* A camera's ingest registers its stream on a node, and ends.
CameraStarts(n) ==
  /\ n \in up /\ n \notin ingests /\ Room(n)
  /\ Register(n, Camera)
  /\ ingests' = ingests \cup {n}
  /\ UNCHANGED <<up, owner, relayVars, feed>>
CameraEnds(n) ==
  /\ n \in ingests
  /\ Unregister(n)
  /\ ingests' = ingests \ {n}
  /\ UNCHANGED <<up, owner, relayVars>>

\* An ingest that finds the key taken, by a relay, or can not reach its camera: its
\* deferred Unregister takes the stream of whoever has the key.
CameraFails(n) ==
  /\ n \in up /\ n \notin ingests /\ Room(n)
  /\ Unregister(n)
  /\ UNCHANGED <<up, owner, ingests, relayVars>>

\* A node goes down with everything it holds; its peers see the connection break.
Crash(n) ==
  /\ n \in up
  /\ up' = up \ {n} /\ ingests' = ingests \ {n} /\ active' = active \ {n}
  /\ stream' = [stream EXCEPT ![n] = None]
  /\ pending' = [pending EXCEPT ![n] = [k \in Callbacks |-> 0]]
  /\ LET mine(p) == node[p] = n
     IN  /\ at' = [p \in Pulls |-> IF mine(p) THEN "none" ELSE at[p]]
         /\ node' = [p \in Pulls |-> IF mine(p) THEN None ELSE node[p]]
         /\ src' = [p \in Pulls |-> IF mine(p) THEN None ELSE src[p]]
         /\ feed' = [p \in Pulls |-> IF mine(p) THEN "none"
                                     ELSE IF src[p] = n /\ feed[p] # "none" THEN "lost" ELSE feed[p]]
  /\ UNCHANGED owner
Restart(n) ==
  /\ n \notin up /\ up' = up \cup {n}
  /\ UNCHANGED <<owner, stream, ingests, pending, relayVars, feed>>

-----------------------------------------------------------------------------
Goto(p, pc) == at' = [at EXCEPT ![p] = pc]
\* The goroutine, or the request, has ended.
End(p) ==
  /\ Goto(p, "none")
  /\ node' = [node EXCEPT ![p] = None] /\ src' = [src EXCEPT ![p] = None]

\* serveHLSPlaylist: no playlist and no stream here; FindStream names another node.
serveHLSPlaylist(p, n) ==
  /\ at[p] = "none" /\ n \in up /\ Room(n)
  /\ stream[n] = None
  /\ owner \notin {None, n}
  /\ Goto(p, "ensure")
  /\ node' = [node EXCEPT ![p] = n] /\ src' = [src EXCEPT ![p] = owner]
  /\ UNCHANGED <<up, owner, stream, ingests, pending, active, feed>>

\* A faulty EnsureRelay that does not look at the map.
EnsureRelayUnchecked(p) ==
  /\ at[p] = "ensure"
  /\ active' = active \cup {node[p]}
  /\ Goto(p, "nodes")
  /\ UNCHANGED <<up, owner, stream, ingests, pending, node, src, feed>>

\* EnsureRelay, under the lock: the relay runs already, or it is entered.
EnsureRelay(p) ==
  /\ at[p] = "ensure"
  /\ \/ node[p] \in active /\ End(p) /\ UNCHANGED active
     \/ /\ node[p] \notin active /\ active' = active \cup {node[p]}
        /\ Goto(p, "nodes") /\ UNCHANGED <<node, src>>
  /\ UNCHANGED <<up, owner, stream, ingests, pending, feed>>

\* AllNodes fails, or does not list the source: remove.
AllNodesFails(p) ==
  /\ at[p] = "nodes"
  /\ End(p)
  /\ active' = active \ {node[p]}
  /\ UNCHANGED <<up, owner, stream, ingests, pending, feed>>

\* The source's address is known: go pull.  Whether Redis lists a node depends on
\* its heartbeats and on nodeTTL; a node that is down may be listed and one that
\* runs may be missing.
AllNodes(p) ==
  /\ at[p] = "nodes"
  /\ Goto(p, "connect")
  /\ UNCHANGED <<up, owner, stream, ingests, pending, active, node, src, feed>>

\* pull's request reaches serveRelay, which attaches it to the stream it finds ...
serveRelay(p) ==
  /\ at[p] = "connect"
  /\ src[p] \in up /\ stream[src[p]] # None
  /\ feed' = [feed EXCEPT ![p] = "live"]
  /\ Goto(p, "register")
  /\ UNCHANGED <<up, owner, stream, ingests, pending, active, node, src>>

\* ... or it fails, or the answer is 404, or the FLV header can not be read.
ConnectFails(p) ==
  /\ at[p] = "connect"
  /\ Goto(p, "unregister")
  /\ UNCHANGED <<up, owner, stream, ingests, pending, active, node, src, feed>>

\* The relay registers its stream under the same key, which announces this node as
\* an owner of the stream; when the key is taken, it gives up.
RegisterRelay(p) ==
  /\ at[p] = "register"
  /\ \/ Register(node[p], p) /\ Goto(p, "streaming")
     \/ stream[node[p]] # None /\ Goto(p, "unregister") /\ UNCHANGED <<stream, pending>>
  /\ UNCHANGED <<up, owner, ingests, active, node, src, feed>>

\* The network breaks a connection.
ConnectionBreaks(p) ==
  /\ feed[p] \in {"live", "ended"}
  /\ feed' = [feed EXCEPT ![p] = "lost"]
  /\ UNCHANGED <<up, owner, stream, ingests, pending, relayVars>>


\* reader.Next returns an error once the connection is gone.  The end of the stream
\* upstream does not end the connection: serveRelay waits for its request's context.
UpstreamEnded(p) ==
  /\ at[p] = "streaming" /\ feed[p] = "lost"
  /\ Goto(p, "unregister")
  /\ UNCHANGED <<up, owner, stream, ingests, pending, active, node, src, feed>>

\* A faulty pull that does not unregister.
NotUnregistered(p) ==
  /\ at[p] = "unregister"
  /\ feed' = [feed EXCEPT ![p] = "none"]
  /\ Goto(p, "remove")
  /\ UNCHANGED <<up, owner, stream, ingests, pending, active, node, src>>

\* The deferred calls: the body is closed, the key unregistered whoever published
\* it, and the entry removed.
UnregisterRelay(p) ==
  /\ at[p] = "unregister"
  /\ \/ stream[node[p]] = None /\ feed' = [feed EXCEPT ![p] = "none"] /\ UNCHANGED <<stream, pending>>
     \/ /\ stream[node[p]] # None
        /\ stream' = [stream EXCEPT ![node[p]] = None]
        /\ pending' = [pending EXCEPT ![node[p]]["revoke"] = @ + 1]
        /\ feed' = [q \in Pulls |-> IF q = p THEN "none"
                                    ELSE IF src[q] = node[p] /\ feed[q] = "live" THEN "ended" ELSE feed[q]]
  /\ Goto(p, "remove")
  /\ UNCHANGED <<up, owner, ingests, active, node, src>>
Remove(p) ==
  /\ at[p] = "remove"
  /\ active' = active \ {node[p]}
  /\ End(p)
  /\ UNCHANGED <<up, owner, stream, ingests, pending, feed>>

Pull(p) ==
  \/ EnsureRelay(p) \/ AllNodesFails(p) \/ AllNodes(p) \/ serveRelay(p) \/ ConnectFails(p)
  \/ RegisterRelay(p) \/ UpstreamEnded(p) \/ UnregisterRelay(p) \/ Remove(p)

Next ==
  \/ \E n \in Nodes :
       \/ \E k \in Callbacks : RunCallback(n, k) \/ CallbackFails(n, k)
       \/ CameraStarts(n) \/ CameraEnds(n) \/ CameraFails(n)
       \/ Crash(n) \/ Restart(n)
       \/ \E p \in Pulls : serveHLSPlaylist(p, n)
  \/ \E p \in Pulls : Pull(p) \/ ConnectionBreaks(p)
  \/ StreamKeyExpires

Spec == Init /\ [][Next]_vars

\* Goroutines are scheduled, and calls to Redis and to other nodes return.
FairSpec ==
  /\ Spec
  /\ \A p \in Pulls : WF_vars(Pull(p))
  /\ \A n \in Nodes, k \in Callbacks : WF_vars(RunCallback(n, k) \/ CallbackFails(n, k))

-----------------------------------------------------------------------------
Entered(p) == at[p] \in RelayPCs \ {"none", "ensure"}

\* "Prevents duplicate relay pulls": an entry of the map belongs to one relay of
\* its node, from EnsureRelay to the last deferred call; no other one runs there.
OneRelayPerEntry ==
  /\ \A p, q \in Pulls : Entered(p) /\ Entered(q) /\ node[p] = node[q] => p = q
  /\ \A n \in Nodes : n \in active <=> \E p \in Pulls : Entered(p) /\ node[p] = n

\* A stream that a relay has registered has that relay behind it, which will
\* unregister it; none is left over when the relay is gone.
RelayStreamHasRelay ==
  \A n \in Nodes : stream[n] \in Pulls =>
    /\ node[stream[n]] = n
    /\ at[stream[n]] \in {"streaming", "unregister"}


\* "Block until the requesting node (Node B) disconnects or stream ends"
\* (api/relay.go): a relay whose stream has ended at its source ends too.
RelayEndsWithStream == \A p \in Pulls : feed[p] = "ended" ~> at[p] # "streaming"
=============================================================================
