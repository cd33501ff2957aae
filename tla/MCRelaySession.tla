--------------------------- MODULE MCRelaySession ---------------------------
\* Small instances of the relay sessions for TLC.
EXTENDS RelaySession
Lists == { <<>>, <<"rtmp", "hls", "webrtc">> }
=============================================================================
