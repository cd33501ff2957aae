------------------------------- MODULE Engine -------------------------------
(***************************************************************************)
(* stream.Engine on top of the registry and the pulls of one key: callers  *)
(* of EnsureStream race each other, the MediaMTX hooks and pulls that end. *)
(*   internal/stream/engine.go   Engine.EnsureStream, StopStream           *)
(*   cmd/server/main.go          how the engine is given its IngestStarter *)
(* The stream ID of an entry is the caller that created it: uuid.New never *)
(* returns the same ID twice, and a caller creates at most one entry.      *)
(***************************************************************************)
EXTENDS Ingest

CONSTANTS
  Callers,          \* EnsureStream calls, one goroutine each
  MediaMTXEnabled   \* cfg.MediaMTX.Enabled: an IngestManager was created

ASSUME EngineAssumption == None \notin Callers /\ MediaMTXEnabled \in BOOLEAN

VARIABLES
  entry,   \* Engine.entries[key]: the ID of the entry, None if there is none
  state,   \* StreamEntry.state of the entry a caller created
  at,      \* where each caller is
  seen,    \* the entry a caller read on the fast path
  result,  \* what a caller returned: an ID and a stream
  stopping \* the entry StopStream has deleted and not yet stopped

engineVars == <<entry, state, at, seen, result, stopping>>
vars == <<ingestVars, engineVars>>

States  == {"none", "requested", "starting", "live", "stopped"}
Failure == [id |-> None, stream |-> None]

Return(c, id, s) ==
  /\ result' = [result EXCEPT ![c] = [id |-> id, stream |-> s]]
  /\ at' = [at EXCEPT ![c] = "returned"]

-----------------------------------------------------------------------------
\* The entry is read under the read lock ...
FastRead(c) ==
  /\ at[c] = "call"
  /\ seen' = [seen EXCEPT ![c] = entry]
  /\ at' = [at EXCEPT ![c] = "fast"]
  /\ UNCHANGED <<ingestVars, entry, state, result, stopping>>

\* ... and the registry is asked after the unlock.
FastGet(c) ==
  /\ at[c] = "fast"
  /\ IF seen[c] # None /\ streams # None
     THEN Return(c, seen[c], streams)
     ELSE /\ at' = [at EXCEPT ![c] = "slow"]
          /\ UNCHANGED result
  /\ UNCHANGED <<ingestVars, entry, state, seen, stopping>>

\* Double check under the write lock; an entry without a stream is replaced.
SlowPath(c) ==
  /\ at[c] = "slow"
  /\ IF entry # None /\ streams # None
     THEN /\ Return(c, entry, streams)
          /\ UNCHANGED <<entry, state>>
     ELSE /\ entry' = c
          /\ state' = [state EXCEPT ![c] = "requested"]
          /\ at' = [at EXCEPT ![c] = "start"]
          /\ UNCHANGED result
  /\ UNCHANGED <<ingestVars, seen, stopping>>

\* Faulty variant: the engine starts a pull itself, without IngestManager.Start.
StartIngestDirectly(c) ==
  /\ at[c] = "start"
  /\ state' = [state EXCEPT ![c] = "starting"]
  /\ \E g \in Pulls : pc[g] = "idle" /\ Goto(g, "connect") /\ sessions' = g
  /\ at' = [at EXCEPT ![c] = "poll"]
  /\ UNCHANGED <<streams, cancelled, closing, closed, entry, seen, result, stopping>>

\* setState(starting) and ingest.Start, which never returns an error.  Without
\* MediaMTX main.go passes a nil *IngestManager in a non-nil interface value:
\* the nil check in EnsureStream does not see it and Start dereferences it.
StartIngest(c) ==
  /\ at[c] = "start"
  /\ state' = [state EXCEPT ![c] = "starting"]
  /\ IF MediaMTXEnabled
     THEN StartPull /\ at' = [at EXCEPT ![c] = "poll"]
     ELSE UNCHANGED ingestVars /\ at' = [at EXCEPT ![c] = "panic"]
  /\ UNCHANGED <<entry, seen, result, stopping>>

\* The 50 ms poll finds the stream ...
PollFound(c) ==
  /\ at[c] = "poll"
  /\ streams # None
  /\ state' = [state EXCEPT ![c] = "live"]
  /\ Return(c, c, streams)
  /\ UNCHANGED <<ingestVars, entry, seen, stopping>>

\* ... or five seconds pass.  The entry stays in the map.
PollTimeout(c) ==
  /\ at[c] = "poll"
  /\ state' = [state EXCEPT ![c] = "stopped"]
  /\ Return(c, None, None)
  /\ UNCHANGED <<ingestVars, entry, seen, stopping>>

\* StopStream deletes the entry under the lock ...
StopStream ==
  /\ entry # None /\ stopping = None
  /\ stopping' = entry
  /\ entry' = None
  /\ UNCHANGED <<ingestVars, state, at, seen, result>>

\* ... and marks it stopped and stops the key's pull after the unlock.
StopStreamIngest ==
  /\ stopping # None
  /\ state' = [state EXCEPT ![stopping] = "stopped"]
  /\ stopping' = None
  /\ IF MediaMTXEnabled /\ sessions # None THEN StopPull ELSE UNCHANGED ingestVars
  /\ UNCHANGED <<entry, at, seen, result>>

-----------------------------------------------------------------------------
Init ==
  /\ IngestInit
  /\ entry = None
  /\ state = [c \in Callers |-> "none"]
  /\ at = [c \in Callers |-> "call"]
  /\ seen = [c \in Callers |-> None]
  /\ result = [c \in Callers |-> Failure]
  /\ stopping = None

CallerStep(c) ==
  \/ FastRead(c) \/ FastGet(c) \/ SlowPath(c)
  \/ StartIngest(c) \/ PollFound(c) \/ PollTimeout(c)

\* The hooks return at once when there is no IngestManager.
Next ==
  \/ MediaMTXEnabled /\ IngestNext /\ UNCHANGED engineVars
  \/ \E c \in Callers : CallerStep(c)
  \/ StopStream \/ StopStreamIngest

Spec == Init /\ [][Next]_vars

\* Connecting, describing and setting up end (the RTSP client has timeouts), and
\* the scheduler runs every pull's goroutine, whatever the callers do.
FairSpec == Spec /\ \A g \in Pulls : WF_vars(PullStep(g) /\ UNCHANGED engineVars)

-----------------------------------------------------------------------------
\* Types of the engine's entries and of what its callers hold and return.
TypeOK ==
  /\ IngestTypeOK
  /\ entry \in Callers \cup {None}
  /\ state \in [Callers -> States]
  /\ at \in [Callers -> {"call", "fast", "slow", "start", "poll", "panic", "returned"}]
  /\ seen \in [Callers -> Callers \cup {None}]
  /\ result \in [Callers -> [id : Callers \cup {None}, stream : Pulls \cup {None}]]
  /\ stopping \in Callers \cup {None}

\* docs/hld/wave2-auth-relay.md: EnsureStream "prevents duplicate ingest starts
\* for the same key".  Callers that race each other, and pulls that fail under
\* them, never make two goroutines pull one key as long as nothing stopped one
\* of them.
NoDuplicateIngest == AtMostOnePull

\* docs/api/live-sessions.md: stream_id is the "UUID of the shared stream
\* (stable across multiple viewer sessions)": two sessions on one stream have
\* been given one ID.
StableStreamID ==
  \A c, d \in Callers :
    /\ result[c].stream # None
    /\ result[c].stream = result[d].stream
    => result[c].id = result[d].id
=============================================================================
