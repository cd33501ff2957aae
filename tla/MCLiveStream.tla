---------------------------- MODULE MCLiveStream ----------------------------
(* Small streams: an HLS writer and a websocket viewer; two relays of one  *)
(* key, which share an ID.  Storage and MinIO writers take a subset of the *)
(* HLS writer's steps (they leave select only when done).                  *)
EXTENDS LiveStream, TLC

KindsOf(S) ==
  [s \in S |-> CASE s = "viewer" -> "live" [] s = "hls" -> "hls" [] OTHER -> "relay"]
IDsOf(S) == [s \in S |-> IF KindsOf(S)[s] = "relay" THEN "relay" ELSE s]

WatchSubs == {"hls", "viewer"}
WatchKind == KindsOf(WatchSubs)
WatchID   == IDsOf(WatchSubs)
WatchIDs  == {WatchID[s] : s \in WatchSubs}

RelayedSubs == {"relay1", "relay2"}
RelayedKind == KindsOf(RelayedSubs)
RelayedID   == IDsOf(RelayedSubs)
RelayedIDs  == {RelayedID[s] : s \in RelayedSubs}

Symmetry == Permutations(Packets)

GopFrames == <<"key", "delta", "audio", "key">>
TwoFrames == <<"key", "delta">>
=============================================================================
