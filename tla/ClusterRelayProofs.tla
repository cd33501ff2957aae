------------------------- MODULE ClusterRelayProofs -------------------------
(***************************************************************************)
(* Safety of the relays between nodes, for any number of nodes and relays  *)
(* and with crashes at any moment.                                         *)
(***************************************************************************)
EXTENDS ClusterRelay, TLAPS

\* A relay that has been asked for has its node, which runs.
RelaysRunOnNodes == \A p \in Pulls : at[p] # "none" => node[p] \in up

\* The inductive invariant.
IInv == TypeOK /\ RelaysRunOnNodes /\ OneRelayPerEntry /\ RelayStreamHasRelay

-----------------------------------------------------------------------------
\* A cluster without streams and without relays.
LEMMA InitInv == Init => IInv
  BY ClusterAssumption
  DEF Init, IInv, TypeOK, RelaysRunOnNodes, OneRelayPerEntry, RelayStreamHasRelay,
      RelayPCs, Callbacks, Entered

\* The type invariant is kept.
LEMMA NextType == TypeOK /\ RelaysRunOnNodes /\ [Next]_vars => TypeOK'
  <1> SUFFICES ASSUME TypeOK, RelaysRunOnNodes, [Next]_vars
               PROVE  TypeOK'
    OBVIOUS
  <1> USE DEF TypeOK, RelayPCs, relayVars
  <1>1. ASSUME NEW n \in Nodes, NEW k \in Callbacks, RunCallback(n, k) \/ CallbackFails(n, k)
        PROVE  TypeOK'
    BY <1>1 DEF RunCallback, CallbackFails
  <1>2. ASSUME NEW n \in Nodes, CameraStarts(n)
        PROVE  TypeOK'
    BY <1>2 DEF CameraStarts, Register, Callbacks
  <1>3. ASSUME NEW n \in Nodes, CameraEnds(n) \/ CameraFails(n)
        PROVE  TypeOK'
    <2>1. Unregister(n) /\ ingests' \subseteq ingests /\ UNCHANGED <<up, owner, relayVars>>
      BY <1>3 DEF CameraEnds, CameraFails
    <2> QED
      BY <2>1 DEF Unregister, Callbacks
  <1>4. ASSUME NEW n \in Nodes, Crash(n)
        PROVE  TypeOK'
    BY <1>4 DEF Crash
  <1>5. ASSUME NEW n \in Nodes, Restart(n)
        PROVE  TypeOK'
    BY <1>5 DEF Restart
  <1>6. ASSUME NEW n \in Nodes, NEW p \in Pulls, serveHLSPlaylist(p, n)
        PROVE  TypeOK'
    BY <1>6 DEF serveHLSPlaylist, Goto
  <1>7. ASSUME NEW p \in Pulls, EnsureRelay(p) \/ AllNodesFails(p) \/ AllNodes(p) \/ serveRelay(p) \/ ConnectFails(p)
        PROVE  TypeOK'
    BY <1>7 DEF EnsureRelay, AllNodesFails, AllNodes, serveRelay, ConnectFails, Goto, End, RelaysRunOnNodes
  <1>8. ASSUME NEW p \in Pulls, RegisterRelay(p)
        PROVE  TypeOK'
    BY <1>8, SMTT(30) DEF RegisterRelay, Register, Goto, Callbacks, RelaysRunOnNodes
  <1>9. ASSUME NEW p \in Pulls, UnregisterRelay(p)
        PROVE  TypeOK'
    <2>1. node[p] \in Nodes /\ at' \in [Pulls -> RelayPCs]
      BY <1>9 DEF UnregisterRelay, Goto, RelaysRunOnNodes
    <2>2. pending' \in [Nodes -> [Callbacks -> Nat]]
      BY <1>9, <2>1 DEF UnregisterRelay, Callbacks
    <2>3. stream' \in [Nodes -> Pulls \cup {Camera, None}]
      BY <1>9, <2>1 DEF UnregisterRelay
    <2>4. feed' \in [Pulls -> {"none", "live", "ended", "lost"}]
      BY <1>9 DEF UnregisterRelay
    <2> QED
      BY <1>9, <2>1, <2>2, <2>3, <2>4 DEF UnregisterRelay
  <1>10. ASSUME NEW p \in Pulls, UpstreamEnded(p) \/ Remove(p) \/ ConnectionBreaks(p)
        PROVE  TypeOK'
    BY <1>10 DEF UpstreamEnded, Remove, ConnectionBreaks, Goto, End
  <1>11. CASE StreamKeyExpires
    BY <1>11 DEF StreamKeyExpires
  <1>12. CASE UNCHANGED vars
    BY <1>12 DEF vars
  <1> HIDE DEF TypeOK
  <1> QED
    BY <1>1, <1>2, <1>3, <1>4, <1>5, <1>6, <1>7, <1>8, <1>9, <1>10, <1>11, <1>12 DEF Next, Pull

\* Every step of a node, of a relay and of the network keeps the rest.
LEMMA NextInv == IInv /\ [Next]_vars => IInv'
  <1> SUFFICES ASSUME IInv, [Next]_vars
               PROVE  IInv'
    OBVIOUS
  <1>0. TypeOK /\ TypeOK'
    BY NextType DEF IInv
  <1> USE ClusterAssumption
      DEF IInv, RelaysRunOnNodes, OneRelayPerEntry, RelayStreamHasRelay, Entered, relayVars
  <1>1. ASSUME NEW n \in Nodes, NEW k \in Callbacks, RunCallback(n, k) \/ CallbackFails(n, k)
        PROVE  IInv'
    BY <1>0, <1>1 DEF RunCallback, CallbackFails
  <1>2. ASSUME NEW n \in Nodes, CameraStarts(n)
        PROVE  IInv'
    BY <1>0, <1>2 DEF CameraStarts, Register, TypeOK
  <1>3. ASSUME NEW n \in Nodes, CameraEnds(n) \/ CameraFails(n)
        PROVE  IInv'
    <2>1. UNCHANGED <<up, relayVars>> /\ stream' = [stream EXCEPT ![n] = None]
      BY <1>3 DEF CameraEnds, CameraFails, Unregister
    <2> QED
      BY <1>0, <2>1 DEF TypeOK
  <1>4. ASSUME NEW n \in Nodes, Crash(n)
        PROVE  IInv'
    BY <1>0, <1>4 DEF Crash, TypeOK, RelayPCs
  <1>5. ASSUME NEW n \in Nodes, Restart(n)
        PROVE  IInv'
    BY <1>0, <1>5 DEF Restart
  <1>6. ASSUME NEW n \in Nodes, NEW p \in Pulls, serveHLSPlaylist(p, n)
        PROVE  IInv'
    BY <1>0, <1>6 DEF serveHLSPlaylist, Goto, TypeOK
  <1>7. ASSUME NEW p \in Pulls, EnsureRelay(p)
        PROVE  IInv'
    <2>1. RelaysRunOnNodes'
      BY <1>0, <1>7 DEF EnsureRelay, Goto, End, TypeOK
    <2>2. OneRelayPerEntry'
      <3>1. CASE node[p] \in active
        <4>1. ~Entered(p) /\ ~Entered(p)' /\ UNCHANGED active
          BY <1>0, <1>7, <3>1 DEF EnsureRelay, End, Goto, TypeOK
        <4>2. \A q \in Pulls : q # p => at'[q] = at[q] /\ node'[q] = node[q]
          BY <1>0, <1>7, <3>1 DEF EnsureRelay, End, Goto, TypeOK
        <4> QED
          BY <4>1, <4>2
      <3>2. CASE node[p] \notin active
        <4>1. Entered(p)' /\ active' = active \cup {node[p]} /\ UNCHANGED node
          BY <1>0, <1>7, <3>2 DEF EnsureRelay, Goto, TypeOK, RelayPCs
        <4>2. \A q \in Pulls : q # p => at'[q] = at[q]
          BY <1>0, <1>7, <3>2 DEF EnsureRelay, Goto, TypeOK
        <4>3. node[p] \in Nodes
          BY <1>0, <1>7 DEF EnsureRelay, TypeOK
        <4> QED
          BY <4>1, <4>2, <4>3, <3>2
      <3> QED
        BY <3>1, <3>2
    <2>3. RelayStreamHasRelay'
      BY <1>0, <1>7 DEF EnsureRelay, Goto, End, TypeOK
    <2> QED
      BY <1>0, <2>1, <2>2, <2>3
  <1>8. ASSUME NEW p \in Pulls, AllNodesFails(p)
        PROVE  IInv'
    BY <1>0, <1>8 DEF AllNodesFails, Goto, End, TypeOK, RelayPCs
  <1>9. ASSUME NEW p \in Pulls, AllNodes(p) \/ serveRelay(p) \/ ConnectFails(p) \/ UpstreamEnded(p) \/ ConnectionBreaks(p)
        PROVE  IInv'
    <2>1. RelaysRunOnNodes'
      BY <1>0, <1>9 DEF AllNodes, serveRelay, ConnectFails, UpstreamEnded, ConnectionBreaks, Goto, TypeOK
    <2>2. OneRelayPerEntry'
      BY <1>0, <1>9 DEF AllNodes, serveRelay, ConnectFails, UpstreamEnded, ConnectionBreaks, Goto, TypeOK, RelayPCs
    <2>3. RelayStreamHasRelay'
      BY <1>0, <1>9 DEF AllNodes, serveRelay, ConnectFails, UpstreamEnded, ConnectionBreaks, Goto, TypeOK
    <2> QED
      BY <1>0, <2>1, <2>2, <2>3
  <1>10. ASSUME NEW p \in Pulls, RegisterRelay(p)
        PROVE  IInv'
    <2>1. RelaysRunOnNodes'
      BY <1>0, <1>10 DEF RegisterRelay, Register, Goto, TypeOK
    <2>2. OneRelayPerEntry'
      <3>1. Entered(p) /\ Entered(p)' /\ UNCHANGED <<node, active>>
        BY <1>0, <1>10 DEF RegisterRelay, Goto, TypeOK, RelayPCs
      <3>2. \A q \in Pulls : q # p => at'[q] = at[q]
        BY <1>0, <1>10 DEF RegisterRelay, Goto, TypeOK
      <3> QED
        BY <3>1, <3>2
    <2>3. RelayStreamHasRelay'
      BY <1>0, <1>10, SMTT(30) DEF RegisterRelay, Register, Goto, TypeOK
    <2> QED
      BY <1>0, <2>1, <2>2, <2>3
  <1>11. ASSUME NEW p \in Pulls, UnregisterRelay(p)
        PROVE  IInv'
    <2>1. RelaysRunOnNodes'
      BY <1>0, <1>11 DEF UnregisterRelay, Goto, TypeOK
    <2>2. OneRelayPerEntry'
      BY <1>0, <1>11 DEF UnregisterRelay, Goto, TypeOK, RelayPCs
    <2>3. RelayStreamHasRelay'
      BY <1>0, <1>11 DEF UnregisterRelay, Goto, TypeOK
    <2> QED
      BY <1>0, <2>1, <2>2, <2>3
  <1>12. ASSUME NEW p \in Pulls, Remove(p)
        PROVE  IInv'
    BY <1>0, <1>12 DEF Remove, Goto, End, TypeOK, RelayPCs
  <1>13. CASE StreamKeyExpires
    BY <1>0, <1>13 DEF StreamKeyExpires
  <1>14. CASE UNCHANGED vars
    BY <1>0, <1>14 DEF vars
  <1> HIDE DEF IInv
  <1> QED
    BY <1>1, <1>2, <1>3, <1>4, <1>5, <1>6, <1>7, <1>8, <1>9, <1>10, <1>11, <1>12, <1>13, <1>14
    DEF Next, Pull

\* The inductive invariant: types, relays on running nodes, and the two properties,
\* each of which needs the other's view of where a relay is.
THEOREM ClusterInvariant == Spec => []IInv
  BY InitInv, NextInv, PTL DEF Spec

\* RelayManager.active never admits a second relay of the key on a node, and has no
\* entry that no relay will remove.
THEOREM NoDuplicateRelay == Spec => []OneRelayPerEntry
  <1>1. IInv => OneRelayPerEntry
    BY DEF IInv
  <1> QED
    BY <1>1, ClusterInvariant, PTL

\* No relayed stream outlives the relay that registered it.
THEOREM NoOrphanRelayStream == Spec => []RelayStreamHasRelay
  <1>1. IInv => RelayStreamHasRelay
    BY DEF IInv
  <1> QED
    BY <1>1, ClusterInvariant, PTL
=============================================================================
