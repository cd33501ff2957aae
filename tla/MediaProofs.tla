---------------------------- MODULE MediaProofs ----------------------------
(***************************************************************************)
(* Safety of the two parts of the server that own foreign resources: the   *)
(* supervisor of the MediaMTX process, for any number of process           *)
(* identifiers and any limits of the back-off, and the Pion bridge, for    *)
(* any number of offers.  They share no state; each has a specification    *)
(* and an invariant of its own.                                            *)
(***************************************************************************)
EXTENDS MediaMTXProc, PionBridge, TLAPS

-----------------------------------------------------------------------------
(* The supervisor.                                                         *)

\* supervise runs after Start has succeeded.
SuperviseAfterStart == main \in {"launch", "record", "ready"} => sup = "none"

\* What runs is what cmd records, or what launch has started and not recorded.
OnlyRecordedRuns ==
  alive \subseteq {IF main = "record" \/ sup = "record" THEN started ELSE cmd}

\* Between the return of Wait and the next launch nothing runs.
NothingRunsInBetween ==
  main = "launch" \/ sup \in {"check", "backoff", "launch"} => alive = {}

\* supervise waits for the process that cmd records.
WaitsForRecorded == sup = "wait" => watched = cmd

\* From the first launch on there is a process to record or recorded.
SomethingRecorded ==
  /\ main = "record" \/ sup = "record" => started \in Procs
  /\ main = "ready" \/ sup # "none" => cmd \in Procs

\* While terminate waits, what it can not see is late.
TargetOrLate == main = "await" => alive \subseteq {target} \cup late

\* The inductive invariant of the supervisor.
IInv ==
  /\ TypeOK
  /\ SuperviseAfterStart
  /\ OnlyRecordedRuns
  /\ NothingRunsInBetween
  /\ WaitsForRecorded
  /\ SomethingRecorded
  /\ TargetOrLate
  /\ StopReachesRecorded

-----------------------------------------------------------------------------
\* Before Start the invariant holds.
LEMMA InitInv == Init => IInv
  <1> SUFFICES ASSUME Init
               PROVE  IInv
    OBVIOUS
  <1>1. MinDelay \in MinDelay .. MaxDelay
    BY ProcAssumption
  <1>2. TypeOK
    BY <1>1 DEF Init, TypeOK, MainPCs, SupPCs
  <1> QED
    BY <1>2
    DEF Init, IInv, SuperviseAfterStart, OnlyRecordedRuns, NothingRunsInBetween,
        WaitsForRecorded, SomethingRecorded, TargetOrLate, StopReachesRecorded

\* Every step of main, of supervise and of the operating system keeps it.
LEMMA NextInv == IInv /\ [Next]_vars => IInv'
  <1> SUFFICES ASSUME IInv, [Next]_vars
               PROVE  IInv'
    OBVIOUS
  <1> USE ProcAssumption
      DEF IInv, TypeOK, SuperviseAfterStart, OnlyRecordedRuns, NothingRunsInBetween,
          WaitsForRecorded, SomethingRecorded, TargetOrLate, StopReachesRecorded, MainPCs, SupPCs,
          procVars, mainVars, supVars
  <1>1. CASE MainLaunch
    BY <1>1 DEF MainLaunch, StartProcess, Terminating
  <1>2. CASE MainRecord \/ MainReady
    BY <1>2 DEF MainRecord, MainReady, RecordProcess
  <1>3. CASE Stop \/ MainFatal \/ TerminateSignal
    BY <1>3 DEF Stop, MainFatal, TerminateSignal
  <1>4. CASE TerminateDone \/ TerminateKill
    BY <1>4 DEF TerminateDone, TerminateKill
  <1>5. CASE MainCancel \/ MainExit
    <2>1. ctxDone' \in BOOLEAN
      BY <1>5, Zenon DEF MainCancel, MainExit
    <2> QED
      BY <1>5, <2>1 DEF MainCancel, MainExit
  <1>6. CASE SuperviseRead \/ SuperviseWait \/ SuperviseCheck
    BY <1>6 DEF SuperviseRead, SuperviseWait, SuperviseCheck
  <1>7. CASE SuperviseBackoff
    BY <1>7 DEF SuperviseBackoff
  <1>8. CASE SuperviseLaunch
    BY <1>8 DEF SuperviseLaunch, StartProcess, Terminating
  <1>9. CASE SuperviseLaunchFails \/ SuperviseRecord \/ SuperviseReady
    BY <1>9 DEF SuperviseLaunchFails, SuperviseRecord, SuperviseReady, RecordProcess
  <1>10. CASE ProcessExits \/ ContextKills
    BY <1>10 DEF ProcessExits, ContextKills
  <1>11. CASE UNCHANGED vars
    BY <1>11 DEF vars
  <1> QED
    BY <1>1, <1>2, <1>3, <1>4, <1>5, <1>6, <1>7, <1>8, <1>9, <1>10, <1>11
    DEF Next, MainStep, SuperviseStep

\* The inductive invariant holds throughout.
THEOREM SupervisorInvariant == Spec => []IInv
  BY InitInv, NextInv, PTL DEF Spec

\* The manager's fields and the goroutines' state keep their types and the
\* back-off its limits.
THEOREM SupervisorTypeCorrect == Spec => []TypeOK
  BY SupervisorInvariant, PTL DEF IInv

\* Two MediaMTX processes never run at the same time.
THEOREM SingleProcess == Spec => []OneProcess
  <1>1. IInv => OneProcess
    BY DEF IInv, OnlyRecordedRuns, OneProcess
  <1> QED
    BY <1>1, SupervisorInvariant, PTL

\* A process that outlives Stop without a SIGKILL was out of terminate's sight.
THEOREM StopReachesWhatItSees == Spec => []StopReachesRecorded
  BY SupervisorInvariant, PTL DEF IInv

-----------------------------------------------------------------------------
(* The Pion bridge.                                                        *)

\* Before the session is put, it is in no map, nobody has seen it and nobody closes
\* it; a peer connection exists from NewPeerConnection on.
NotYetPut ==
  \A o \in Offers :
    /\ at[o] \notin {"handler", "wait", "answered"} =>
         o \notin sessions /\ closing[o] = "none"
    /\ at[o] \in {"idle", "failed", "rtsp"} => pc[o] # "open"
    /\ at[o] \in {"idle", "failed"} => rtsp[o] # "open"

\* closeSession closes the peer connection first, then the client.
ClosedInOrder ==
  \A o \in Offers :
    /\ at[o] \in {"handler", "wait", "answered"} =>
         \/ o \in sessions /\ closing[o] = "none"
         \/ o \notin sessions /\ closing[o] # "none"
    /\ closing[o] = "rtsp" => pc[o] # "open"
    /\ closing[o] = "done" => ~Open(o)

\* Close has a call on its way for each id it has read that is still in the map, and
\* none of these ids is put again.
SeenAreCalled ==
  \A o \in seen :
    /\ at[o] \in {"handler", "wait", "answered"}
    /\ o \in sessions => <<o, "shutdown">> \in calls
\* Close has seen nothing before it runs.
UnseenBeforeClose == service = "serving" => seen = {}

\* The inductive invariant of the bridge.
BridgeInv == BridgeTypeOK /\ NotYetPut /\ ClosedInOrder /\ SeenAreCalled /\ UnseenBeforeClose /\ CloseForgetsSeen

-----------------------------------------------------------------------------
\* A service without sessions.
LEMMA BridgeInitInv == BridgeInit => BridgeInv
  BY DEF BridgeInit, BridgeInv, BridgeTypeOK, NotYetPut, ClosedInOrder, SeenAreCalled, UnseenBeforeClose,
         CloseForgetsSeen, OfferPCs, Callers, Open

\* The type invariant is kept.
LEMMA BridgeTypes == BridgeTypeOK /\ [BridgeNext]_bridgeVars => BridgeTypeOK'
  <1> SUFFICES ASSUME BridgeTypeOK, [BridgeNext]_bridgeVars
               PROVE  BridgeTypeOK'
    OBVIOUS
  <1> USE DEF BridgeTypeOK, OfferPCs, Callers, offerVars, peerVars, closeVars
  <1>1. ASSUME NEW o \in Offers, HandleOffer(o)
        PROVE  BridgeTypeOK'
    BY <1>1 DEF HandleOffer, Refuse, Start, SourceFails, NewPeerConnection, PeerFails, CloseRTSP,
         SetLocalDescription, GatherComplete, putSession, OnConnectionStateChange, Answer
  <1>2. ASSUME NEW o \in Offers, closeSession(o)
        PROVE  BridgeTypeOK'
    BY <1>2 DEF closeSession, closeDelete, closePeer, closeSource, CloseRTSP
  <1>3. ASSUME NEW o \in Offers, SourceEnds(o) \/ WaitReturns(o) \/ CloseSession(o)
        PROVE  BridgeTypeOK'
    BY <1>3 DEF SourceEnds, WaitReturns, CloseSession
  <1>4. ASSUME NEW o \in Offers, NEW s \in {"connected", "disconnected", "failed"}, PeerChanges(o, s)
        PROVE  BridgeTypeOK'
    BY <1>4 DEF PeerChanges
  <1>5. CASE Close
    BY <1>5 DEF Close
  <1>6. CASE CloseReturns
    BY <1>6 DEF CloseReturns
  <1>7. CASE UNCHANGED bridgeVars
    BY <1>7 DEF bridgeVars
  <1> QED
    BY <1>1, <1>2, <1>3, <1>4, <1>5, <1>6, <1>7 DEF BridgeNext

\* Every step of an offer, of a closer, of the peers and of main keeps the rest.
LEMMA BridgeNextInv == BridgeInv /\ [BridgeNext]_bridgeVars => BridgeInv'
  <1> SUFFICES ASSUME BridgeInv, [BridgeNext]_bridgeVars
               PROVE  BridgeInv'
    OBVIOUS
  <1>0. BridgeTypeOK'
    BY BridgeTypes DEF BridgeInv
  <1> USE DEF BridgeInv, BridgeTypeOK, NotYetPut, ClosedInOrder, SeenAreCalled, UnseenBeforeClose, CloseForgetsSeen,
              Open, offerVars, peerVars, closeVars
  <1>1. ASSUME NEW o \in Offers, Refuse(o) \/ Start(o) \/ SourceFails(o) \/ NewPeerConnection(o)
        PROVE  BridgeInv'
    BY <1>0, <1>1 DEF Refuse, Start, SourceFails, NewPeerConnection, CloseRTSP
  <1>2. ASSUME NEW o \in Offers, PeerFails(o) \/ SetLocalDescription(o) \/ GatherComplete(o)
        PROVE  BridgeInv'
    BY <1>0, <1>2 DEF PeerFails, SetLocalDescription, GatherComplete, CloseRTSP
  <1>3. ASSUME NEW o \in Offers, putSession(o)
        PROVE  BridgeInv'
    <2>1. o \notin seen
      BY <1>3 DEF putSession
    <2>2. NotYetPut' /\ ClosedInOrder'
      BY <1>0, <1>3 DEF putSession
    <2>3. SeenAreCalled' /\ UnseenBeforeClose'
      BY <1>0, <1>3, <2>1 DEF putSession
    <2>4. CloseForgetsSeen'
      BY <1>3, <2>1 DEF putSession
    <2> QED
      BY <1>0, <2>2, <2>3, <2>4
  <1>4. ASSUME NEW o \in Offers, OnConnectionStateChange(o) \/ Answer(o)
        PROVE  BridgeInv'
    BY <1>0, <1>4 DEF OnConnectionStateChange, Answer
  <1>5. ASSUME NEW o \in Offers, NEW c \in Callers, closeDelete(o, c)
        PROVE  BridgeInv'
    BY <1>0, <1>5 DEF closeDelete
  <1>6. ASSUME NEW o \in Offers, closePeer(o) \/ closeSource(o)
        PROVE  BridgeInv'
    BY <1>0, <1>6 DEF closePeer, closeSource, CloseRTSP
  <1>7. ASSUME NEW o \in Offers, SourceEnds(o) \/ WaitReturns(o) \/ CloseSession(o)
        PROVE  BridgeInv'
    BY <1>0, <1>7 DEF SourceEnds, WaitReturns, CloseSession
  <1>8. ASSUME NEW o \in Offers, NEW s \in {"connected", "disconnected", "failed"}, PeerChanges(o, s)
        PROVE  BridgeInv'
    BY <1>0, <1>8 DEF PeerChanges
  <1>9. CASE Close
    BY <1>0, <1>9 DEF Close
  <1>10. CASE CloseReturns
    BY <1>0, <1>10 DEF CloseReturns
  <1>11. CASE UNCHANGED bridgeVars
    BY <1>0, <1>11 DEF bridgeVars
  <1> HIDE DEF BridgeInv
  <1> QED
    BY <1>1, <1>2, <1>3, <1>4, <1>5, <1>6, <1>7, <1>8, <1>9, <1>10, <1>11
    DEF BridgeNext, HandleOffer, closeSession

\* The inductive invariant of the bridge: what HandleOffer holds before putSession,
\* what closeSession leaves open, and which calls Close still has on their way.
THEOREM BridgeInvariant == BridgeSpec => []BridgeInv
  BY BridgeInitInv, BridgeNextInv, PTL DEF BridgeSpec

\* No RTSP client and no peer connection is ever left open without an owner, on any
\* error path of HandleOffer and whoever calls closeSession.
THEOREM NothingLeaks == BridgeSpec => []NoLeak
  <1>1. BridgeInv => NoLeak
    BY DEF BridgeInv, BridgeTypeOK, OfferPCs, NotYetPut, ClosedInOrder, NoLeak, InFlight, Open
  <1> QED
    BY <1>1, BridgeInvariant, PTL

\* When Close has returned, none of the sessions it read is in the map.
THEOREM ShutdownForgets == BridgeSpec => []CloseForgetsSeen
  <1>1. BridgeInv => CloseForgetsSeen
    BY DEF BridgeInv
  <1> QED
    BY <1>1, BridgeInvariant, PTL
=============================================================================
