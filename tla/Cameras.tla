------------------------------ MODULE Cameras ------------------------------
(***************************************************************************)
(* The camera registry.                                                    *)
(*   internal/camera/service.go      Create, Get, List, Delete             *)
(*   internal/camera/store.go        the two maps                          *)
(*   internal/camera/validation.go   the checks of a write and of a camera *)
(*   internal/api/camera_registry.go the endpoints                         *)
(* A write is checked, a camera is made from it and checked again, and the *)
(* camera and its credentials go into two maps.  A text is what the checks *)
(* see of it: whether it is trimmed, and its length.  A UUID is "v7"       *)
(* (canonical), "other" or "blank".  Drawing a UUID does not fail.         *)
(***************************************************************************)
EXTENDS Integers, Sequences, FiniteSets

CONSTANTS
  CamIDs,      \* camera ids that may be drawn
  Calls,       \* requests
  Bodies,      \* the writes that clients send
  NodeID,      \* cfg.Node.ID
  Null

VARIABLES
  cameras,  \* Store.cameras
  creds,    \* Store.creds
  drawnIDs, \* ids that were drawn
  call      \* the requests: [at, id, cam, body, result]

cameraVars == <<cameras, creds, drawnIDs, call>>

NoCall == [at |-> "idle", id |-> Null, cam |-> Null, body |-> Null, result |-> Null]

-----------------------------------------------------------------------------
(* validation.go.                                                          *)

validateTrimmedString(v, min, max) == v.trimmed /\ v.len >= min /\ (max > 0 => v.len <= max)
validateUUIDV7(v) == v = "v7"

IdentityValid(i) == validateTrimmedString(i.name, 1, 120) /\ i.description <= 2000

SiteValid(s) ==
  /\ validateUUIDV7(s.site)
  /\ s.group # "blank" => validateUUIDV7(s.group)
  /\ \A l \in s.labels : l.key = "canonical" /\ l.len <= 256

EndpointValid(e) ==
  /\ e.protocol = "rtsp"
  /\ e.url.absolute /\ e.url.scheme = e.protocol /\ ~e.url.userinfo
  /\ e.transport \in {"tcp", "udp", "auto"}
  /\ e.connect \in 1000 .. 30000 /\ e.read \in 1000 .. 60000

\* A write brings a password, a camera a reference to one.
CamCredentialsWriteValid(c) ==
  /\ c.scheme \in {"basic", "digest", "none"}
  /\ IF c.scheme = "none" THEN c.username.len = 0 /\ ~c.password
     ELSE validateTrimmedString(c.username, 1, 128) /\ c.password
CamCredentialsValid(c) ==
  /\ c.scheme \in {"basic", "digest", "none"}
  /\ IF c.scheme = "none" THEN c.username.len = 0 /\ c.ref = Null
     ELSE validateTrimmedString(c.username, 1, 128) /\ c.ref # Null

Within(hint, max) == hint # Null => hint \in 1 .. max

ResolutionValid(r) == r # Null => r.width \in 1 .. 8192 /\ r.height \in 1 .. 8192

validateProfileFields(p) ==
  /\ validateTrimmedString(p.name, 1, 64)
  /\ p.path \in {"blank", "rooted"}
  /\ p.codec \in {"h264", "h265", "mjpeg", "unknown"}
  /\ ResolutionValid(p.resolution)
  /\ Within(p.bitrate, 200000) /\ Within(p.framerate, 240)

validateWriteProfiles(ps) ==
  /\ ps # <<>>
  /\ \A k \in 1 .. Len(ps) : validateProfileFields(ps[k])
  /\ \A j, k \in 1 .. Len(ps) : ps[j].name = ps[k].name => j = k
  /\ Cardinality({k \in 1 .. Len(ps) : ps[k].isDefault}) = 1

validateProfiles(ps) ==
  /\ validateWriteProfiles(ps)
  /\ \A k \in 1 .. Len(ps) : validateUUIDV7(ps[k].profileID)

HealthValid(h) ==
  /\ h.status \in {"unknown", "online", "offline", "degraded"}
  /\ h.status \in {"offline", "degraded"} => h.lastError # Null
  /\ validateUUIDV7(h.probeID) /\ h.cadence >= 5000 /\ h.cadence <= 600000
  /\ validateTrimmedString(h.owner, 1, 0)
  /\ h.failures >= 0

CamWriteValid(b) ==
  /\ IdentityValid(b.identity) /\ SiteValid(b.site) /\ EndpointValid(b.endpoint)
  /\ validateWriteProfiles(b.profiles)
  /\ b.notes <= 2000
  /\ b.credentials # Null => CamCredentialsWriteValid(b.credentials)

\* A new camera is created and updated at one instant and has version 0, so the
\* checks of these always hold.
CamValid(c) ==
  /\ validateUUIDV7(c.camID) /\ validateUUIDV7(c.tenantID)
  /\ IdentityValid(c.identity) /\ SiteValid(c.site) /\ EndpointValid(c.endpoint)
  /\ validateProfiles(c.profiles)
  /\ c.notes <= 2000
  /\ HealthValid(c.health)
  /\ c.credentials # Null => CamCredentialsValid(c.credentials)

-----------------------------------------------------------------------------
(* service.go.                                                             *)

applyDefaults(b) ==
  [b EXCEPT !.endpoint.connect = IF @ = 0 THEN 5000 ELSE @,
            !.endpoint.read = IF @ = 0 THEN 15000 ELSE @,
            !.endpoint.transport = IF @ = "blank" THEN "auto" ELSE @]

\* Faulty variant: the reference is left out.
newCredentialsUnreferenced(c, i) == [scheme |-> c.scheme, username |-> c.username, ref |-> Null]

\* What the camera keeps of the credentials: a reference in place of the password.
newCredentials(c, i) == [scheme |-> c.scheme, username |-> c.username, ref |-> i]

newSite(s) == [s EXCEPT !.site = IF @ = "blank" THEN "v7" ELSE @]
newProfiles(ps) == [k \in 1 .. Len(ps) |-> [ps[k] EXCEPT !.profileID = "v7"]]
newHealth ==
  [status |-> "unknown", lastError |-> Null, probeID |-> "v7", cadence |-> 30000,
   owner |-> NodeID, failures |-> 0]

newCam(b, i) ==
  [camID |-> "v7", tenantID |-> "v7", identity |-> b.identity, notes |-> b.notes,
   site |-> newSite(b.site), endpoint |-> b.endpoint,
   profiles |-> newProfiles(b.profiles), health |-> newHealth,
   credentials |-> IF b.credentials = Null THEN Null ELSE newCredentials(b.credentials, i)]

\* A write as the decoder of the request makes it: every field is there.
DecodedWrite(b) ==
  /\ DOMAIN b = {"identity", "site", "endpoint", "profiles", "notes", "credentials"}
  /\ DOMAIN b.site = {"site", "group", "labels"}
  /\ DOMAIN b.endpoint = {"protocol", "url", "transport", "connect", "read"}
  /\ Len(b.profiles) \in Nat /\ DOMAIN b.profiles = 1 .. Len(b.profiles)
  /\ \A k \in 1 .. Len(b.profiles) :
       DOMAIN b.profiles[k] = {"name", "path", "codec", "resolution", "bitrate", "framerate",
                               "isDefault", "profileID"}

\* The configuration names the node: config.go gives it an id and does not check the
\* one a file puts in its place.  Null is no id, no answer, no camera and no credentials.
ASSUME CamerasAssumption ==
  /\ \A b \in Bodies : DecodedWrite(b)
  /\ validateTrimmedString(NodeID, 1, 0)
  /\ Null \notin CamIDs /\ Null # "invalid"
  /\ \A b \in Bodies, i \in CamIDs :
       LET c == newCam(applyDefaults(b), i)
       IN  c # Null /\ (b.credentials # Null => c.credentials # Null)

Answer(r, result) == call' = [call EXCEPT ![r].at = "answered", ![r].result = result]

\* Create up to the store: the write is refused, or the camera made from it is, or
\* it is ready to be saved under a fresh id.
Create(r, body) ==
  LET b == applyDefaults(body)
  IN  /\ call[r].at = "idle"
      /\ \/ /\ ~CamWriteValid(b)
            /\ call' = [call EXCEPT ![r] = [NoCall EXCEPT !.at = "answered", !.body = body, !.result = "invalid"]]
            /\ UNCHANGED drawnIDs
         \/ /\ CamWriteValid(b)
            /\ \E i \in CamIDs \ drawnIDs :
                 LET cam == newCam(b, i)
                     ok  == CamValid(cam)
                 IN  /\ call' = [call EXCEPT ![r] =
                          [at |-> IF ok THEN "save" ELSE "answered", id |-> i, cam |-> IF ok THEN cam ELSE Null,
                           body |-> body, result |-> IF ok THEN Null ELSE "invalid"]]
                     /\ drawnIDs' = drawnIDs \cup {i}
      /\ UNCHANGED <<cameras, creds>>

\* Store.Save, under the lock: an id that is there is an error.
Save(r) ==
  LET i == call[r].id
  IN  /\ call[r].at = "save"
      /\ IF cameras[i] # Null
         THEN Answer(r, "error") /\ UNCHANGED <<cameras, creds>>
         ELSE /\ cameras' = [cameras EXCEPT ![i] = call[r].cam]
              /\ creds' = IF call[r].body.credentials = Null THEN creds
                          ELSE [creds EXCEPT ![i] = call[r].body.credentials]
              /\ Answer(r, "created")
      /\ UNCHANGED drawnIDs

\* The answer to a request for a camera by its id.
FoundOr404(i, found) == IF cameras[i] = Null THEN "not_found" ELSE found

\* GET of one camera or of all: reads.
Get(r, i) ==
  /\ call[r].at = "idle"
  /\ call' = [call EXCEPT ![r] = [NoCall EXCEPT !.at = "answered", !.cam = cameras[i],
                                 !.result = FoundOr404(i, "found")]]
  /\ UNCHANGED <<cameras, creds, drawnIDs>>

\* Faulty variant: the credentials stay behind.
DeleteCameraOnly(r, i) ==
  /\ call[r].at = "idle"
  /\ cameras' = [cameras EXCEPT ![i] = Null]
  /\ call' = [call EXCEPT ![r] = [NoCall EXCEPT !.at = "answered", !.result = "deleted"]]
  /\ UNCHANGED <<creds, drawnIDs>>

Delete(r, i) ==
  /\ call[r].at = "idle"
  /\ \/ cameras[i] = Null /\ UNCHANGED <<cameras, creds>>
     \/ /\ cameras[i] # Null
        /\ cameras' = [cameras EXCEPT ![i] = Null] /\ creds' = [creds EXCEPT ![i] = Null]
  /\ call' = [call EXCEPT ![r] = [NoCall EXCEPT !.at = "answered",
                                 !.result = FoundOr404(i, "deleted")]]
  /\ UNCHANGED drawnIDs

\* The client has its answer and sends the next request.
NextCall(r) ==
  /\ call[r].at = "answered"
  /\ call' = [call EXCEPT ![r] = NoCall]
  /\ UNCHANGED <<cameras, creds, drawnIDs>>

-----------------------------------------------------------------------------
CameraInit ==
  /\ cameras = [i \in CamIDs |-> Null] /\ creds = [i \in CamIDs |-> Null]
  /\ drawnIDs = {}
  /\ call = [r \in Calls |-> NoCall]

CameraNext ==
  \E r \in Calls :
    \/ \E b \in Bodies : Create(r, b)
    \/ Save(r) \/ NextCall(r)
    \/ \E i \in CamIDs : Get(r, i) \/ Delete(r, i)

CameraSpec == CameraInit /\ [][CameraNext]_cameraVars

-----------------------------------------------------------------------------
\* The secrets follow the cameras: a password is kept exactly for the cameras that
\* refer to one, for the same user, however creates and deletes interleave.
CredentialsFollowCamera ==
  \A i \in CamIDs :
    IF cameras[i] = Null \/ cameras[i].credentials = Null THEN creds[i] = Null
    ELSE /\ creds[i] # Null /\ cameras[i].credentials.ref = i
         /\ creds[i].scheme = cameras[i].credentials.scheme
         /\ creds[i].username = cameras[i].credentials.username

\* The two checks agree: what the check of the write lets pass, after the defaults,
\* the check of the camera made from it does not refuse.  The exception is the
\* scheme none: the camera is given a reference, which its check then forbids.
SecondCheckAgrees ==
  \A r \in Calls :
    /\ call[r].body # Null /\ call[r].result = "invalid"
    /\ call[r].body.credentials # Null => call[r].body.credentials.scheme # "none"
    => ~CamWriteValid(applyDefaults(call[r].body))

\* A camera whose credentials have the scheme none, which both checks name as a
\* valid one, can be created.  (It can not: see SecondCheckAgrees.)
NoneIsAccepted ==
  \A r \in Calls :
    /\ call[r].body # Null /\ call[r].body.credentials # Null
    /\ call[r].body.credentials.scheme = "none" /\ CamWriteValid(applyDefaults(call[r].body))
    => call[r].result # "invalid"
=============================================================================
