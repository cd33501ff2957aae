---------------------------- MODULE EngineProofs ----------------------------
(***************************************************************************)
(* Safety of the registry and the pulls of a key under the hooks and       *)
(* EnsureStream, for any number of pulls and of callers.  The invariants   *)
(* only speak of the pulls; the engine acts on them through Start and Stop *)
(* (EngineSteps), so that it is enough to look at the steps of Ingest.     *)
(***************************************************************************)
EXTENDS Engine, TLAPS

-----------------------------------------------------------------------------
(* The ingest manager and the registry.                                    *)

\* A stream that has not been registered yet is neither closed nor about to
\* be; without this a new stream could be registered under a pending Close.
UnregisteredIsFresh ==
  \A g \in Pulls :
    pc[g] \in {"idle", "connect", "register"} =>
      g \notin closed /\ \A h \in Pulls : closing[h] # g

\* A pull that is about to call Close holds the stream it took.
ClosePending == \A g \in Pulls : pc[g] = "close" => closing[g] \in Pulls

\* Only a pull that was started can have been stopped.
FreshNotCancelled == \A g \in Pulls : pc[g] = "idle" => g \notin cancelled

\* The inductive invariant.
IInv ==
  /\ IngestTypeOK
  /\ RegisteredStreamIsOpen
  /\ NoOrphanStream
  /\ UnregisteredIsFresh
  /\ ClosePending
  /\ SessionIsAlive
  /\ FreshNotCancelled

\* Until a pull is stopped, the session of a pull stays recorded until the pull
\* itself removes it.
SessionRecorded ==
  cancelled = {} => \A g \in Pulls : pc[g] \in Pulling \cup {"remove"} => sessions = g

-----------------------------------------------------------------------------
\* The empty session table and registry satisfy the inductive invariant.
LEMMA IngestInitInv == IngestInit => IInv
  BY IngestAssumption
  DEF IngestInit, IInv, IngestTypeOK, RegisteredStreamIsOpen, NoOrphanStream,
      UnregisteredIsFresh, ClosePending, SessionIsAlive, FreshNotCancelled, PCs, Pulling

\* Each operation on the session table, the registry and the pulls keeps the
\* registry's streams open and owned.
LEMMA IngestNextInv == IInv /\ [IngestNext]_ingestVars => IInv'
  <1> SUFFICES ASSUME IInv, [IngestNext]_ingestVars
               PROVE  IInv'
    OBVIOUS
  <1> USE IngestAssumption DEF IInv, IngestTypeOK, RegisteredStreamIsOpen, NoOrphanStream,
          UnregisteredIsFresh, ClosePending, SessionIsAlive, FreshNotCancelled, PCs, Pulling, Registered, Goto
  <1>1. CASE OnPublish
    BY <1>1 DEF OnPublish, StartPull, ingestVars
  <1>2. CASE OnUnpublish
    BY <1>2 DEF OnUnpublish, StopPull
  <1>3. ASSUME NEW g \in Pulls, Connect(g)
        PROVE  IInv'
    BY <1>3 DEF Connect
  <1>4. ASSUME NEW g \in Pulls, Register(g)
        PROVE  IInv'
    BY <1>4 DEF Register
  <1>5. ASSUME NEW g \in Pulls, Attach(g)
        PROVE  IInv'
    BY <1>5 DEF Attach
  <1>6. ASSUME NEW g \in Pulls, Play(g)
        PROVE  IInv'
    BY <1>6 DEF Play
  <1>7. ASSUME NEW g \in Pulls, NoticeCancel(g) \/ UpstreamEnds(g)
        PROVE  IInv'
    BY <1>7 DEF NoticeCancel, UpstreamEnds
  <1>8. ASSUME NEW g \in Pulls, Remove(g)
        PROVE  IInv'
    BY <1>8 DEF Remove
  <1>9. ASSUME NEW g \in Pulls, Unregister(g)
        PROVE  IInv'
    BY <1>9 DEF Unregister
  <1>10. ASSUME NEW g \in Pulls, CloseStream(g)
         PROVE  IInv'
    BY <1>10 DEF CloseStream
  <1>11. CASE UNCHANGED ingestVars
    BY <1>11 DEF ingestVars
  <1> QED
    BY <1>1, <1>2, <1>3, <1>4, <1>5, <1>6, <1>7, <1>8, <1>9, <1>10, <1>11
    DEF IngestNext, PullStep

\* Until a pull is stopped, its session stays recorded, whatever happens to other
\* pulls.
LEMMA SessionStays == IngestTypeOK /\ SessionRecorded /\ [IngestNext]_ingestVars => SessionRecorded'
  <1> SUFFICES ASSUME IngestTypeOK, SessionRecorded, [IngestNext]_ingestVars, cancelled' = {}
               PROVE  \A g \in Pulls : pc'[g] \in Pulling \cup {"remove"} => sessions' = g
    BY DEF SessionRecorded
  <1> USE IngestAssumption DEF IngestTypeOK, SessionRecorded, Pulling, Goto
  <1>1. CASE OnPublish
    BY <1>1 DEF OnPublish, StartPull, ingestVars
  <1>2. CASE OnUnpublish
    BY <1>2 DEF OnUnpublish, StopPull
  <1>3. CASE \E g \in Pulls : PullStep(g) \/ UpstreamEnds(g)
    BY <1>3 DEF PullStep, UpstreamEnds, Connect, Register, Attach, Play, NoticeCancel,
                Remove, Unregister, CloseStream
  <1>4. CASE UNCHANGED ingestVars
    BY <1>4 DEF ingestVars
  <1> QED
    BY <1>1, <1>2, <1>3, <1>4 DEF IngestNext

-----------------------------------------------------------------------------
(* The engine.                                                             *)

\* What EnsureStream and StopStream do to the pulls, a hook or a pull could do.
LEMMA EngineSteps == [Next]_vars => [IngestNext]_ingestVars
  <1> SUFFICES ASSUME [Next]_vars
               PROVE  [IngestNext]_ingestVars
    OBVIOUS
  <1>1. CASE MediaMTXEnabled /\ IngestNext /\ UNCHANGED engineVars
    BY <1>1
  <1>2. ASSUME NEW c \in Callers, CallerStep(c)
        PROVE  [IngestNext]_ingestVars
    <2>1. CASE StartIngest(c)
      BY <2>1 DEF StartIngest, IngestNext, OnPublish
    <2>2. CASE FastRead(c) \/ FastGet(c) \/ SlowPath(c) \/ PollFound(c) \/ PollTimeout(c)
      BY <2>2 DEF FastRead, FastGet, SlowPath, PollFound, PollTimeout
    <2> QED
      BY <1>2, <2>1, <2>2 DEF CallerStep
  <1>3. CASE StopStream \/ StopStreamIngest
    BY <1>3 DEF StopStream, StopStreamIngest, IngestNext, OnUnpublish
  <1>4. CASE UNCHANGED vars
    BY <1>4 DEF vars
  <1> QED
    BY <1>1, <1>2, <1>3, <1>4 DEF Next

\* The inductive invariant holds throughout, whatever callers and hooks do.
THEOREM IngestInvariant == Spec => []IInv
  <1>1. Init => IngestInit
    BY DEF Init
  <1> QED
    BY <1>1, IngestInitInv, IngestNextInv, EngineSteps, PTL DEF Spec

\* For any number of pulls and callers, whatever they interleave with: the
\* session table, the registry and the program counters keep their types.
THEOREM IngestTypeCorrect == Spec => []IngestTypeOK
  BY IngestInvariant, PTL DEF IInv

\* The registry never names a stream that is closed or that some deferred
\* Unregister is about to close.
THEOREM RegistryHoldsOpenStreams == Spec => []RegisteredStreamIsOpen
  BY IngestInvariant, PTL DEF IInv

\* Every registered stream has a goroutine that will unregister it.
THEOREM RegistryHasNoOrphans == Spec => []NoOrphanStream
  BY IngestInvariant, PTL DEF IInv

\* The session that makes Start return at once is that of a pull that runs and was
\* not stopped.
THEOREM SessionsAreAlive == Spec => []SessionIsAlive
  BY IngestInvariant, PTL DEF IInv

\* However many callers of EnsureStream race, at most one goroutine pulls the
\* key until StopStream or MediaMTX's on-unpublish stops one.
THEOREM EnsureStreamStartsOnePull == Spec => []NoDuplicateIngest
  <1>1. Init => SessionRecorded
    BY DEF Init, IngestInit, SessionRecorded, Pulling
  <1>2. SessionRecorded => NoDuplicateIngest
    BY DEF SessionRecorded, NoDuplicateIngest, AtMostOnePull
  <1> QED
    BY <1>1, <1>2, SessionStays, EngineSteps, IngestTypeCorrect, PTL DEF Spec
=============================================================================
