----------------------------- MODULE MCCameras -----------------------------
\* Writes around one good camera: every check is met on both of its sides, and
\* faults come alone or with other credentials or profiles.
EXTENDS Cameras, TLC

Text(n) == [trimmed |-> TRUE, len |-> n]
Padded(n) == [trimmed |-> FALSE, len |-> n]
Name(id, n) == [trimmed |-> TRUE, len |-> n, id |-> id]
Node == Text(4)

Profile ==
  [name |-> Name("main", 4), path |-> "rooted", codec |-> "h264", resolution |-> Null,
   bitrate |-> Null, framerate |-> Null, isDefault |-> TRUE, profileID |-> Null]
Sub == [Profile EXCEPT !.name = Name("sub", 64), !.path = "blank", !.codec = "unknown", !.isDefault = FALSE]

Good ==
  [identity |-> [name |-> Text(5), description |-> 0],
   site |-> [site |-> "v7", group |-> "blank", labels |-> {}],
   endpoint |-> [protocol |-> "rtsp", url |-> [absolute |-> TRUE, scheme |-> "rtsp", userinfo |-> FALSE],
                 transport |-> "blank", connect |-> 0, read |-> 0],
   profiles |-> <<Profile>>, notes |-> 0, credentials |-> Null]

Creds(scheme, user, password) == [scheme |-> scheme, username |-> user, password |-> password]
Credentials ==
  { Null, Creds("digest", Text(128), TRUE), Creds("basic", Padded(3), TRUE), Creds("basic", Text(129), TRUE),
    Creds("digest", Text(1), FALSE), Creds("none", Text(0), FALSE), Creds("none", Text(3), FALSE),
    Creds("none", Text(0), TRUE), Creds("token", Text(3), TRUE) }

ProfileLists ==
  { <<>>, <<Profile, Sub>>, <<Profile, Profile>>, <<Sub>>,
    <<Profile, [Sub EXCEPT !.name = Name("main", 4)]>>,
    <<[Profile EXCEPT !.path = "bare"]>>, <<[Profile EXCEPT !.codec = "vp8"]>>,
    <<[Profile EXCEPT !.resolution = [width |-> 8192, height |-> 1]]>>,
    <<[Profile EXCEPT !.resolution = [width |-> 8193, height |-> 0]]>>,
    <<[Profile EXCEPT !.bitrate = 200000, !.framerate = 240]>>,
    <<[Profile EXCEPT !.bitrate = 0]>>, <<[Profile EXCEPT !.framerate = 241]>>,
    <<[Profile EXCEPT !.name = Name("long", 65)]>> }

Endpoints ==
  LET e == Good.endpoint
  IN  { [e EXCEPT !.protocol = "http"], [e EXCEPT !.url.absolute = FALSE], [e EXCEPT !.url.scheme = "http"],
        [e EXCEPT !.url.userinfo = TRUE], [e EXCEPT !.transport = "sctp"], [e EXCEPT !.transport = "udp"],
        [e EXCEPT !.connect = 999], [e EXCEPT !.connect = 1000, !.read = 60000],
        [e EXCEPT !.connect = 30001], [e EXCEPT !.read = 60001], [e EXCEPT !.connect = -1] }

Writes ==
  { [Good EXCEPT !.credentials = c] : c \in Credentials }
  \cup { [Good EXCEPT !.profiles = ps, !.credentials = Creds("digest", Text(3), TRUE)] : ps \in ProfileLists }
  \cup { [Good EXCEPT !.endpoint = e] : e \in Endpoints }
  \cup { [Good EXCEPT !.identity.name = n] : n \in {Text(0), Padded(5), Text(120), Text(121)} }
  \cup { [Good EXCEPT !.identity.description = n] : n \in {2000, 2001} }
  \cup { [Good EXCEPT !.site.site = u] : u \in {"blank", "other"} }
  \cup { [Good EXCEPT !.site.group = u] : u \in {"v7", "other"} }
  \cup { [Good EXCEPT !.site.labels = {[key |-> k, len |-> n]}] : k \in {"canonical", "Zone"}, n \in {256, 257} }
  \cup { [Good EXCEPT !.notes = n] : n \in {2000, 2001} }

Symmetry == Permutations(Calls) \cup Permutations(CamIDs)
=============================================================================
