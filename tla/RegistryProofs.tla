--------------------------- MODULE RegistryProofs ---------------------------
(***************************************************************************)
(* The two registries behind the API, which share no state.                *)
(* Authentication and access control, for any number of users, tokens,     *)
(* roles, permissions and concurrent requests: the two maps of Store agree, *)
(* and the whole implements Access.  The cameras, for any writes and any   *)
(* number of ids and requests: the secrets follow the cameras, and the two *)
(* checks of a create agree.                                               *)
(***************************************************************************)
EXTENDS Auth, Cameras, TLAPS

-----------------------------------------------------------------------------
(* Authentication.                                                         *)


Ops    == {"view", "create", "delete", "update", "logout"}
Inside == {"run", "add", "assign", "strip"}

\* What the variables and their records hold.
Definitions == [perms : SUBSET Perms, roles : SUBSET Roles, grants : SUBSET (Roles \X Perms)]
TokenRecord == [user : Ids \cup {None}, good : BOOLEAN]
RequestRecord ==
  [at : {"idle", "login", "token", "user"} \cup Inside, op : Ops \cup {None},
   token : Tokens \cup {None}, user : Ids \cup {None}, live : BOOLEAN,
   name : Names \cup {None}, target : Ids \cup {None}, todo : SUBSET Roles, new : SUBSET Roles]

DefTypes ==
  /\ phase \in {"down", "perms", "roles", "assign", "serving"}
  /\ seeding \in SUBSET (Roles \X Perms)
  /\ redis \in Definitions /\ mem \in Definitions
UserTypes ==
  /\ userRoles \in [Ids -> SUBSET Roles]
  /\ users \in [Names -> Ids \cup {None}] /\ byID \in [Ids -> Names \cup {None}]
  /\ drawn \in SUBSET Ids
CallTypes ==
  /\ tokens \in [Tokens -> TokenRecord]
  /\ req \in [Requests -> RequestRecord]

\* An id of the map was drawn, and whom a token names was a user once: an id that
\* is drawn later can not bring an old token back to life.
DrawnFirst ==
  /\ \A i \in Ids : byID[i] # None => i \in drawn
  /\ \A t \in Tokens : tokens[t].user # None => tokens[t].user \in drawn
  /\ \A t \in Tokens : tokens[t].good => tokens[t].user # None

\* Until the server listens there are no requests, no tokens and no roles of users.
QuietStart ==
  /\ phase # "serving" =>
       /\ \A i \in Ids : userRoles[i] = {}
       /\ \A t \in Tokens : tokens[t].user = None
       /\ \A r \in Requests : req[r].at = "idle"
  /\ phase \in {"down", "perms", "roles"} => \A i \in Ids : byID[i] = None
  /\ phase = "assign" => users[AdminName] \in Ids

\* What a request has found out, and what it goes on with.
RequestOK(r) ==
  LET q == req[r]
  IN  /\ q.at \in {"login", "token", "user"} => q.user \in drawn
      /\ q.at \in {"token", "user"} \cup Inside => q.op \in Ops
      /\ q.at = "token" /\ ~q.live => byID[q.user] = None
      /\ q.at = "user" => q.live
      /\ q.at \in Inside => q.user = None
      /\ q.at \in {"token", "user", "run"} /\ q.op = "logout" => q.token \in Tokens
      /\ q.at = "add" => q.op = "create" /\ q.name \in Names
      /\ q.at = "assign" => q.op = "create" /\ q.target \in Ids
      /\ q.at = "strip" => q.op \in {"update", "delete"} /\ q.target \in Ids
RequestsOK == \A r \in Requests : RequestOK(r)

\* The inductive invariant of authentication.
AuthInv == DefTypes /\ UserTypes /\ CallTypes /\ StoreMapsAgree /\ DrawnFirst /\ QuietStart /\ RequestsOK

-----------------------------------------------------------------------------
(* Steps of one request.                                                   *)

\* The other requests are where they were.
Others(r) == \A x \in Requests \ {r} : req'[x] = req[x]

\* What is left to show of a step of a request that only goes on.
RequestStep(r) ==
  /\ UNCHANGED <<defVars, userRoles, users, byID, drawn, tokens>>
  /\ phase = "serving"
  /\ req' \in [Requests -> RequestRecord] /\ Others(r)
  /\ RequestOK(r)'

\* A request that is under way shows that the node serves.
LEMMA ServesRequests ==
  ASSUME AuthInv, NEW r \in Requests, req[r].at # "idle"
  PROVE  phase = "serving"
  BY DEF AuthInv, QuietStart

\* What a request has found out stays true while others draw ids and drop users.
LEMMA OtherRequests ==
  ASSUME AuthInv, NEW r \in Requests, Others(r), RequestOK(r)',
         drawn \subseteq drawn', \A i \in drawn : byID[i] = None => byID'[i] = None
  PROVE  RequestsOK'
<1> SUFFICES ASSUME NEW x \in Requests  PROVE RequestOK(x)'
  BY DEF RequestsOK
<1>1. CASE x = r
  BY <1>1
<1>2. CASE x # r
  <2>1. req'[x] = req[x] /\ RequestOK(x)
    BY <1>2 DEF Others, AuthInv, RequestsOK
  <2> QED  BY <2>1 DEF RequestOK
<1> QED  BY <1>1, <1>2

\* The response: the request is over.
LEMMA Returned ==
  ASSUME AuthInv, NEW r \in Requests, Return(r)
  PROVE  /\ req' \in [Requests -> RequestRecord] /\ Others(r)
         /\ req'[r] = NoRequest /\ RequestOK(r)'
<1>1. NoRequest \in RequestRecord
  BY DEF NoRequest, RequestRecord
<1>2. NoRequest.at = "idle"
  BY DEF NoRequest
<1>3. req \in [Requests -> RequestRecord] /\ req' = [req EXCEPT ![r] = NoRequest]
  BY DEF AuthInv, CallTypes, Return
<1>4. /\ req' \in [Requests -> RequestRecord] /\ Others(r)
      /\ req'[r] = NoRequest
  BY <1>1, <1>3 DEF Others
<1> QED  BY <1>2, <1>4 DEF RequestOK, Inside

\* A step of that kind keeps the invariant.
LEMMA RequestStepKeeps ==
  ASSUME AuthInv, NEW r \in Requests, RequestStep(r)
  PROVE  AuthInv'
<1>1. UNCHANGED <<phase, seeding, redis, mem, userRoles, users, byID, drawn, tokens>>
  BY DEF RequestStep, defVars
<1>2. DefTypes' /\ UserTypes' /\ CallTypes'
  BY <1>1 DEF AuthInv, DefTypes, UserTypes, CallTypes, RequestStep
<1>3. StoreMapsAgree' /\ DrawnFirst'
  BY <1>1 DEF AuthInv, StoreMapsAgree, DrawnFirst
<1>4. QuietStart'
  BY <1>1 DEF QuietStart, RequestStep
<1>5. RequestsOK'
  BY <1>1, OtherRequests DEF RequestStep
<1> QED  BY <1>2, <1>3, <1>4, <1>5 DEF AuthInv

-----------------------------------------------------------------------------
(* Login and the middleware.                                               *)

\* Login up to the token: the user is there, so its id was drawn.
LEMMA LoginKeeps ==
  ASSUME AuthInv, NEW r \in Requests, NEW n \in Names, Login(r, n)
  PROVE  RequestStep(r)
<1> DEFINE q == [NoRequest EXCEPT !.at = "login", !.user = users[n]]
<1>1. users[n] \in Ids /\ byID[users[n]] = n
  BY DEF AuthInv, UserTypes, StoreMapsAgree, Login
<1>2. users[n] \in drawn
  BY <1>1, AuthAssumption DEF AuthInv, DrawnFirst
<1>3. q \in RequestRecord /\ q.at = "login" /\ q.user = users[n]
  BY <1>1 DEF NoRequest, RequestRecord
<1>4. /\ req' = [req EXCEPT ![r] = q] /\ req \in [Requests -> RequestRecord]
      /\ UNCHANGED <<defVars, userRoles, users, byID, drawn, tokens>> /\ phase = "serving"
  BY DEF Login, AuthInv, CallTypes
<1> HIDE DEF q
<1>5. req' \in [Requests -> RequestRecord] /\ Others(r) /\ req'[r] = q
  BY <1>3, <1>4 DEF Others
<1>6. RequestOK(r)'
  BY <1>2, <1>3, <1>4, <1>5 DEF RequestOK, Inside
<1> QED  BY <1>4, <1>5, <1>6 DEF RequestStep

\* ValidateToken up to the expiry: a good token names a user that was drawn.
LEMMA CheckTokenKeeps ==
  ASSUME AuthInv, NEW r \in Requests, NEW t \in Tokens, NEW op \in Ops, CheckToken(r, t, op)
  PROVE  /\ RequestStep(r)
         /\ req'[r].at = "token" /\ req'[r].op = op /\ req'[r].user = tokens[t].user
         /\ req'[r].live <=> byID[tokens[t].user] # None
<1> DEFINE u == tokens[t].user
           k == IF op = "logout" THEN t ELSE None
           b == byID[u] # None
           q == [NoRequest EXCEPT !.at = "token", !.op = op, !.user = u, !.token = k, !.live = b]
<1>1. u \in Ids /\ u \in drawn
  BY DEF AuthInv, DrawnFirst, UserTypes, CallTypes, TokenRecord, CheckToken, Verify
<1>2. k \in Tokens \cup {None} /\ (op = "logout" => k \in Tokens)
  OBVIOUS
<1>3. /\ req' = [req EXCEPT ![r] = q] /\ req \in [Requests -> RequestRecord]
      /\ UNCHANGED <<defVars, userRoles, users, byID, drawn, tokens>> /\ phase = "serving"
  BY DEF CheckToken, AuthInv, CallTypes
<1>4. b \in BOOLEAN
  OBVIOUS
<1>5. ASSUME NEW c \in BOOLEAN
      PROVE  LET p == [NoRequest EXCEPT !.at = "token", !.op = op, !.user = u, !.token = k, !.live = c]
             IN  /\ p \in RequestRecord /\ p.at = "token" /\ p.op = op /\ p.user = u /\ p.token = k
                 /\ p.live = c
  BY <1>1, <1>2 DEF NoRequest, RequestRecord
<1>6. /\ q \in RequestRecord /\ q.at = "token" /\ q.op = op /\ q.user = u /\ q.token = k
      /\ q.live = b
  BY <1>4, <1>5, Zenon
<1> HIDE DEF q, k
<1>7. req' \in [Requests -> RequestRecord] /\ Others(r) /\ req'[r] = q
  BY <1>3, <1>6 DEF Others
<1>8. RequestOK(r)'
  BY <1>1, <1>2, <1>3, <1>6, <1>7 DEF RequestOK, Inside
<1> QED  BY <1>3, <1>6, <1>7, <1>8 DEF RequestStep

\* ValidateToken's last part: the user is there, and was when the token was checked.
LEMMA GetUserKeeps ==
  ASSUME AuthInv, NEW r \in Requests, GetUser(r)
  PROVE  /\ RequestStep(r)
         /\ \/ req'[r] = NoRequest
            \/ /\ req[r].live /\ req'[r].live /\ req'[r].at = "user"
               /\ req'[r].op = req[r].op /\ req'[r].user = req[r].user
<1>1. /\ req[r].at = "token" /\ req \in [Requests -> RequestRecord] /\ RequestOK(r)
      /\ UNCHANGED <<defVars, userRoles, users, byID, drawn, tokens>>
  BY DEF GetUser, AuthInv, CallTypes, RequestsOK
<1>2. phase = "serving"
  BY <1>1, ServesRequests
<1>3. CASE byID[req[r].user] # None
  <2> DEFINE q == [req[r] EXCEPT !.at = "user"]
  <2>1. req' = [req EXCEPT ![r] = q]
    BY <1>3 DEF GetUser, To
  <2>2. /\ q \in RequestRecord /\ q.at = "user" /\ q.live = req[r].live /\ q.op = req[r].op
        /\ q.user = req[r].user /\ q.token = req[r].token
    BY <1>1 DEF RequestRecord
  <2> HIDE DEF q
  <2>3. req' \in [Requests -> RequestRecord] /\ Others(r) /\ req'[r] = q
    BY <1>1, <2>1, <2>2 DEF Others
  <2>4. req[r].live
    BY <1>1, <1>3 DEF RequestOK
  <2>5. RequestOK(r)'
    BY <1>1, <2>2, <2>3, <2>4 DEF RequestOK, Inside
  <2> QED  BY <1>1, <1>2, <2>2, <2>3, <2>4, <2>5 DEF RequestStep
<1>4. CASE byID[req[r].user] = None
  <2>1. Return(r)
    BY <1>4 DEF GetUser
  <2> QED  BY <1>1, <1>2, <2>1, Returned DEF RequestStep
<1> QED  BY <1>3, <1>4

\* RequirePermission: a request that gets in forgets its user.
LEMMA RequirePermissionKeeps ==
  ASSUME AuthInv, NEW r \in Requests, RequirePermission(r)
  PROVE  /\ RequestStep(r)
         /\ \/ req'[r] = NoRequest
            \/ /\ Needs[req[r].op] = None \/ UserHasPermission(req[r].user, Needs[req[r].op])
               /\ req'[r].at = "run" /\ req'[r].user = None /\ req'[r].op = req[r].op
<1> DEFINE p == Needs[req[r].op]
<1>1. /\ req[r].at = "user" /\ req \in [Requests -> RequestRecord] /\ RequestOK(r)
      /\ UNCHANGED <<defVars, userRoles, users, byID, drawn, tokens>>
  BY DEF RequirePermission, AuthInv, CallTypes, RequestsOK
<1>2. phase = "serving"
  BY <1>1, ServesRequests
<1>3. CASE p = None \/ UserHasPermission(req[r].user, p)
  <2> DEFINE q == [req[r] EXCEPT !.at = "run", !.user = None]
  <2>1. req' = [req EXCEPT ![r].at = "run", ![r].user = None]
    BY <1>3 DEF RequirePermission
  <2>2. req' = [req EXCEPT ![r] = q]
    BY <1>1, <2>1 DEF RequestRecord
  <2>3. q \in RequestRecord /\ q.at = "run" /\ q.op = req[r].op /\ q.user = None /\ q.token = req[r].token
    BY <1>1, ZenonT(60) DEF RequestRecord, Inside
  <2> HIDE DEF q
  <2>4. req' \in [Requests -> RequestRecord] /\ Others(r) /\ req'[r] = q
    BY <1>1, <2>2, <2>3 DEF Others
  <2>5. RequestOK(r)'
    BY <1>1, <2>3, <2>4 DEF RequestOK, Inside
  <2> QED  BY <1>1, <1>2, <1>3, <2>3, <2>4, <2>5 DEF RequestStep
<1>4. CASE ~(p = None \/ UserHasPermission(req[r].user, p))
  <2>1. Return(r)
    BY <1>4 DEF RequirePermission
  <2> QED  BY <1>1, <1>2, <2>1, Returned DEF RequestStep
<1> QED  BY <1>3, <1>4

-----------------------------------------------------------------------------
(* The endpoints.                                                          *)

\* A request that got in is over, or goes on with what it may do.
Passed(r) ==
  \/ req'[r] = NoRequest
  \/ req'[r].at \in Inside /\ req'[r].user = req[r].user /\ req'[r].op = req[r].op

\* The first steps of the user endpoints look something up and note it.
LEMMA LooksKeep ==
  ASSUME AuthInv, NEW r \in Requests,
         \/ View_(r)
         \/ \E n \in Names, x \in Roles : CreateUser(r, n, x)
         \/ \E i \in Ids, x \in Roles : UpdateUserRoles(r, i, x)
         \/ \E i \in Ids : DeleteUser(r, i)
  PROVE  RequestStep(r) /\ Passed(r)
<1>1. /\ req[r].at = "run" /\ req \in [Requests -> RequestRecord] /\ RequestOK(r)
      /\ UNCHANGED <<defVars, userRoles, users, byID, drawn, tokens>>
  BY DEF View_, CreateUser, UpdateUserRoles, DeleteUser, AuthInv, CallTypes, RequestsOK
<1>2. phase = "serving"
  BY <1>1, ServesRequests
<1>3. CASE Return(r)
  BY <1>1, <1>2, <1>3, Returned DEF RequestStep, Passed
<1>4. ASSUME NEW n \in Names, NEW x \in Roles, req[r].op = "create",
             req' = [req EXCEPT ![r].at = "add", ![r].name = n, ![r].new = {x}]
      PROVE  RequestStep(r) /\ Passed(r)
  <2> DEFINE q == [req[r] EXCEPT !.at = "add", !.name = n, !.new = {x}]
  <2>1. req' = [req EXCEPT ![r] = q]
    BY <1>1, <1>4 DEF RequestRecord
  <2>2. q \in RequestRecord /\ q.at = "add" /\ q.op = req[r].op /\ q.user = req[r].user /\ q.name = n
    BY <1>1, ZenonT(60) DEF RequestRecord, Inside
  <2> HIDE DEF q
  <2>3. req' \in [Requests -> RequestRecord] /\ Others(r) /\ req'[r] = q
    BY <1>1, <2>1, <2>2 DEF Others
  <2>4. RequestOK(r)'
    BY <1>1, <1>4, <2>2, <2>3 DEF RequestOK, Inside
  <2> QED  BY <1>1, <1>2, <2>2, <2>3, <2>4 DEF RequestStep, Passed, Inside
<1>5. \A i \in Ids : UserRoles(i) \in SUBSET Roles
  BY DEF UserRoles, AuthInv, UserTypes
<1>6. ASSUME NEW i \in Ids, NEW x \in Roles, req[r].op = "update",
             req' = [req EXCEPT ![r].at = "strip", ![r].target = i, ![r].todo = UserRoles(i), ![r].new = {x}]
      PROVE  RequestStep(r) /\ Passed(r)
  <2> DEFINE q == [req[r] EXCEPT !.at = "strip", !.target = i, !.todo = UserRoles(i), !.new = {x}]
  <2>1. req' = [req EXCEPT ![r] = q]
    BY <1>1, <1>6 DEF RequestRecord
  <2>2. q \in RequestRecord /\ q.at = "strip" /\ q.op = req[r].op /\ q.user = req[r].user /\ q.target = i
    BY <1>1, <1>5, ZenonT(60) DEF RequestRecord, Inside
  <2> HIDE DEF q
  <2>3. req' \in [Requests -> RequestRecord] /\ Others(r) /\ req'[r] = q
    BY <1>1, <2>1, <2>2 DEF Others
  <2>4. RequestOK(r)'
    BY <1>1, <1>6, <2>2, <2>3 DEF RequestOK, Inside
  <2> QED  BY <1>1, <1>2, <2>2, <2>3, <2>4 DEF RequestStep, Passed, Inside
<1>7. ASSUME NEW i \in Ids, req[r].op = "delete",
             req' = [req EXCEPT ![r].at = "strip", ![r].target = i, ![r].todo = UserRoles(i)]
      PROVE  RequestStep(r) /\ Passed(r)
  <2> DEFINE q == [req[r] EXCEPT !.at = "strip", !.target = i, !.todo = UserRoles(i)]
  <2>1. req' = [req EXCEPT ![r] = q]
    BY <1>1, <1>7 DEF RequestRecord
  <2>2. q \in RequestRecord /\ q.at = "strip" /\ q.op = req[r].op /\ q.user = req[r].user /\ q.target = i
    BY <1>1, <1>5, ZenonT(60) DEF RequestRecord, Inside
  <2> HIDE DEF q
  <2>3. req' \in [Requests -> RequestRecord] /\ Others(r) /\ req'[r] = q
    BY <1>1, <2>1, <2>2 DEF Others
  <2>4. RequestOK(r)'
    BY <1>1, <1>7, <2>2, <2>3 DEF RequestOK, Inside
  <2> QED  BY <1>1, <1>2, <2>2, <2>3, <2>4 DEF RequestStep, Passed, Inside
<1> QED
  BY <1>3, <1>4, <1>6, <1>7 DEF View_, CreateUser, UpdateUserRoles, DeleteUser

\* A token is issued to the user that logged in, or loses its validity for good.
LEMMA TokenSteps ==
  ASSUME AuthInv,
         \/ \E r \in Requests : SaveToken(r) \/ Logout(r)
         \/ \E t \in Tokens : ExpireToken(t)
  PROVE  AuthInv'
<1>1. ASSUME NEW r \in Requests, SaveToken(r)  PROVE AuthInv'
  <2>1. /\ req[r].at = "login" /\ RequestOK(r) /\ Return(r)
        /\ UNCHANGED <<phase, seeding, redis, mem, userRoles, users, byID, drawn>>
    BY <1>1 DEF SaveToken, AuthInv, RequestsOK, defVars
  <2>2. req[r].user \in drawn /\ req[r].user \in Ids
    BY <2>1 DEF RequestOK, AuthInv, UserTypes
  <2>3. PICK t \in Tokens : tokens' = [tokens EXCEPT ![t] = Issue(req[r].user)]
    BY <1>1 DEF SaveToken
  <2> DEFINE k == Issue(req[r].user)
  <2>4. k \in TokenRecord /\ k.user = req[r].user
    BY <2>2 DEF Issue, TokenRecord
  <2> HIDE DEF k
  <2>5. /\ tokens' \in [Tokens -> TokenRecord] /\ tokens'[t] = k
        /\ \A s \in Tokens \ {t} : tokens'[s] = tokens[s]
    BY <2>3, <2>4 DEF AuthInv, CallTypes, k
  <2>6. phase = "serving"
    BY <2>1, ServesRequests
  <2>7. req' \in [Requests -> RequestRecord] /\ Others(r) /\ RequestOK(r)'
    BY <2>1, Returned
  <2>8. DefTypes' /\ UserTypes' /\ CallTypes' /\ StoreMapsAgree'
    BY <2>1, <2>5, <2>7 DEF AuthInv, DefTypes, UserTypes, CallTypes, StoreMapsAgree
  <2>9. DrawnFirst'
    <3>1. \A i \in Ids : byID'[i] # None => i \in drawn'
      BY <2>1 DEF AuthInv, DrawnFirst
    <3>2. ASSUME NEW s \in Tokens
          PROVE  /\ tokens'[s].user # None => tokens'[s].user \in drawn
                 /\ tokens'[s].good => tokens'[s].user # None
      <4>1. CASE s = t
        BY <2>2, <2>4, <2>5, <4>1, AuthAssumption
      <4>2. CASE s # t
        BY <2>5, <4>2 DEF AuthInv, DrawnFirst
      <4> QED  BY <4>1, <4>2
    <3> QED  BY <2>1, <3>1, <3>2 DEF DrawnFirst
  <2>10. QuietStart'
    BY <2>1, <2>6 DEF QuietStart
  <2>11. RequestsOK'
    BY <2>1, <2>7, OtherRequests
  <2> QED  BY <2>8, <2>9, <2>10, <2>11 DEF AuthInv
<1>2. ASSUME NEW t \in Tokens, tokens' = [tokens EXCEPT ![t].good = FALSE]
      PROVE  /\ tokens' \in [Tokens -> TokenRecord]
             /\ \A s \in Tokens : tokens'[s].user = tokens[s].user /\ (tokens'[s].good => tokens[s].good)
  <2> DEFINE k == [tokens[t] EXCEPT !.good = FALSE]
  <2>1. tokens' = [tokens EXCEPT ![t] = k] /\ tokens \in [Tokens -> TokenRecord]
    BY <1>2 DEF AuthInv, CallTypes
  <2>2. k \in TokenRecord /\ k.user = tokens[t].user /\ k.good = FALSE
    BY <2>1 DEF TokenRecord
  <2> HIDE DEF k
  <2>3. tokens' \in [Tokens -> TokenRecord] /\ tokens'[t] = k /\ \A s \in Tokens \ {t} : tokens'[s] = tokens[s]
    BY <2>1, <2>2
  <2> QED  BY <2>2, <2>3
<1>3. ASSUME tokens' \in [Tokens -> TokenRecord],
             \A s \in Tokens : tokens'[s].user = tokens[s].user /\ (tokens'[s].good => tokens[s].good),
             UNCHANGED <<phase, seeding, redis, mem, userRoles, users, byID, drawn>>
      PROVE  DefTypes' /\ UserTypes' /\ StoreMapsAgree' /\ DrawnFirst'
  BY <1>3 DEF AuthInv, DefTypes, UserTypes, StoreMapsAgree, DrawnFirst
<1>4. ASSUME NEW r \in Requests, Logout(r)  PROVE AuthInv'
  <2>1. /\ req[r].at = "run" /\ req[r].op = "logout" /\ RequestOK(r) /\ Return(r)
        /\ UNCHANGED <<phase, seeding, redis, mem, userRoles, users, byID, drawn>>
        /\ tokens' = [tokens EXCEPT ![req[r].token].good = FALSE]
    BY <1>4 DEF Logout, AuthInv, RequestsOK, defVars, InvalidateToken
  <2>2. req[r].token \in Tokens
    BY <2>1 DEF RequestOK
  <2>3. req' \in [Requests -> RequestRecord] /\ Others(r) /\ RequestOK(r)' /\ phase = "serving"
    BY <2>1, Returned, ServesRequests
  <2>4. CallTypes' /\ DefTypes' /\ UserTypes' /\ StoreMapsAgree' /\ DrawnFirst'
    BY <1>2, <1>3, <2>1, <2>2, <2>3 DEF CallTypes
  <2>5. QuietStart'
    BY <2>1, <2>3 DEF QuietStart
  <2>6. RequestsOK'
    BY <2>1, <2>3, OtherRequests
  <2> QED  BY <2>4, <2>5, <2>6 DEF AuthInv
<1>5. ASSUME NEW t \in Tokens, ExpireToken(t)  PROVE AuthInv'
  <2>1. /\ UNCHANGED <<phase, seeding, redis, mem, userRoles, users, byID, drawn, req>>
        /\ tokens' = [tokens EXCEPT ![t].good = FALSE]
    BY <1>5 DEF ExpireToken, defVars
  <2>2. CallTypes' /\ DefTypes' /\ UserTypes' /\ StoreMapsAgree' /\ DrawnFirst'
    BY <1>2, <1>3, <2>1 DEF AuthInv, CallTypes
  <2>3. QuietStart'
    BY <1>2, <2>1 DEF AuthInv, QuietStart
  <2>4. RequestsOK'
    BY <2>1 DEF AuthInv, RequestsOK, RequestOK
  <2> QED  BY <2>2, <2>3, <2>4 DEF AuthInv
<1> QED  BY <1>1, <1>4, <1>5

-----------------------------------------------------------------------------
(* The maps of users.                                                      *)

\* Store.AddUser under a fresh id keeps the two maps in step.
LEMMA PutUserKeeps ==
  ASSUME AuthInv, NEW n \in Names, NEW i \in Ids, byID[i] = None, PutUser(n, i)
  PROVE  /\ users' \in [Names -> Ids \cup {None}] /\ byID' \in [Ids -> Names \cup {None}]
         /\ users'[n] = i /\ byID'[i] = n
         /\ \A j \in Ids \ {i} : byID'[j] = byID[j]
         /\ StoreMapsAgree'
<1>1. /\ users \in [Names -> Ids \cup {None}] /\ byID \in [Ids -> Names \cup {None}]
      /\ users[n] = None /\ users' = [users EXCEPT ![n] = i] /\ byID' = [byID EXCEPT ![i] = n]
  BY DEF PutUser, AuthInv, UserTypes
<1>2. /\ users' \in [Names -> Ids \cup {None}] /\ byID' \in [Ids -> Names \cup {None}]
      /\ users'[n] = i /\ byID'[i] = n
      /\ \A j \in Ids \ {i} : byID'[j] = byID[j]
      /\ \A m \in Names \ {n} : users'[m] = users[m]
  BY <1>1
<1>3. ASSUME NEW j \in Ids, NEW m \in Names
      PROVE  byID'[j] = m <=> users'[m] = j
  <2>1. (byID[j] = m <=> users[m] = j) /\ (byID[i] = m <=> users[m] = i) /\ (byID[j] = n <=> users[n] = j)
    BY DEF AuthInv, StoreMapsAgree
  <2>2. None \notin Ids /\ None \notin Names
    BY AuthAssumption
  <2>3. CASE j = i
    BY <1>2, <2>1, <2>2, <2>3
  <2>4. CASE j # i
    BY <1>1, <1>2, <2>1, <2>2, <2>4
  <2> QED  BY <2>3, <2>4
<1> QED  BY <1>2, <1>3 DEF StoreMapsAgree

\* AddUser looks again under the lock; the id it draws is nobody's.
LEMMA AddUserKeeps ==
  ASSUME AuthInv, NEW r \in Requests, AddUser(r)
  PROVE  /\ AuthInv' /\ Others(r)
         /\ UNCHANGED <<mem, userRoles, tokens>>
         /\ \/ req'[r] = NoRequest /\ UNCHANGED byID
            \/ /\ req'[r].at = "assign" /\ req'[r].user = req[r].user /\ req'[r].op = req[r].op
               /\ \A j \in drawn : byID'[j] = byID[j]
<1>1. /\ req[r].at = "add" /\ req \in [Requests -> RequestRecord] /\ RequestOK(r)
      /\ UNCHANGED <<phase, seeding, redis, mem, userRoles, tokens>>
  BY DEF AddUser, AuthInv, CallTypes, RequestsOK, defVars
<1>2. phase = "serving"
  BY <1>1, ServesRequests
<1>3. CASE Return(r) /\ UNCHANGED <<users, byID, drawn>>
  <2>1. RequestStep(r) /\ req'[r] = NoRequest /\ Others(r)
    BY <1>1, <1>2, <1>3, Returned DEF RequestStep, defVars
  <2> QED  BY <1>1, <1>3, <2>1, RequestStepKeeps
<1>4. ASSUME NEW i \in Ids \ drawn, PutUser(req[r].name, i), drawn' = drawn \cup {i},
             req' = [req EXCEPT ![r].at = "assign", ![r].target = i, ![r].name = None]
      PROVE  /\ AuthInv' /\ Others(r)
             /\ req'[r].at = "assign" /\ req'[r].user = req[r].user /\ req'[r].op = req[r].op
             /\ \A j \in drawn : byID'[j] = byID[j]
  <2> DEFINE q == [req[r] EXCEPT !.at = "assign", !.target = i, !.name = None]
  <2>1. req' = [req EXCEPT ![r] = q]
    BY <1>1, <1>4 DEF RequestRecord
  <2>2. q \in RequestRecord /\ q.at = "assign" /\ q.op = req[r].op /\ q.user = req[r].user /\ q.target = i
    BY <1>1, ZenonT(60) DEF RequestRecord, Inside
  <2> HIDE DEF q
  <2>3. req' \in [Requests -> RequestRecord] /\ Others(r) /\ req'[r] = q
    BY <1>1, <2>1, <2>2 DEF Others
  <2>4. RequestOK(r)'
    BY <1>1, <2>2, <2>3 DEF RequestOK, Inside
  <2>5. byID[i] = None /\ req[r].name \in Names /\ drawn \in SUBSET Ids
    BY <1>1, <1>4 DEF AuthInv, DrawnFirst, RequestOK, UserTypes
  <2>6. /\ users' \in [Names -> Ids \cup {None}] /\ byID' \in [Ids -> Names \cup {None}]
        /\ \A j \in Ids \ {i} : byID'[j] = byID[j]
        /\ StoreMapsAgree'
    BY <1>4, <2>5, PutUserKeeps
  <2>7. \A j \in drawn : byID'[j] = byID[j]
    BY <2>5, <2>6
  <2>8. DefTypes' /\ UserTypes' /\ CallTypes'
    BY <1>1, <1>4, <2>3, <2>5, <2>6 DEF AuthInv, DefTypes, UserTypes, CallTypes
  <2>9. DrawnFirst'
    BY <1>1, <1>4, <2>6 DEF AuthInv, DrawnFirst
  <2>10. QuietStart'
    BY <1>1, <1>2 DEF QuietStart
  <2>11. RequestsOK'
    BY <1>4, <2>3, <2>4, <2>7, OtherRequests
  <2> QED  BY <2>2, <2>3, <2>6, <2>7, <2>8, <2>9, <2>10, <2>11 DEF AuthInv
<1>5. CASE \E i \in Ids \ drawn :
             /\ PutUser(req[r].name, i) /\ drawn' = drawn \cup {i}
             /\ req' = [req EXCEPT ![r].at = "assign", ![r].target = i, ![r].name = None]
  BY <1>1, <1>4, <1>5
<1> QED  BY <1>3, <1>5 DEF AddUser

\* The roles of the target change, a role at a time.
LEMMA RoleStepsKeep ==
  ASSUME AuthInv, NEW r \in Requests, RemoveRole(r) \/ AssignRole(r)
  PROVE  /\ AuthInv' /\ Others(r)
         /\ req[r].target \in Ids /\ req[r].op \in {"create", "update", "delete"}
         /\ req[r].at \in {"assign", "strip"}
         /\ UNCHANGED <<mem, byID, tokens>>
         /\ \A i \in Ids \ {req[r].target} : userRoles'[i] = userRoles[i]
         /\ \/ req'[r] = NoRequest
            \/ req'[r].at \in {"assign", "strip"} /\ req'[r].user = req[r].user /\ req'[r].op = req[r].op
<1> DEFINE u == req[r].target
<1>1. /\ req[r].at \in {"assign", "strip"} /\ req \in [Requests -> RequestRecord] /\ RequestOK(r)
      /\ UNCHANGED <<phase, seeding, redis, mem, users, byID, drawn, tokens>>
  BY DEF RemoveRole, AssignRole, Stripped, AuthInv, CallTypes, RequestsOK, defVars
<1>2. phase = "serving"
  BY <1>1, ServesRequests
<1>3. u \in Ids /\ req[r].op \in {"create", "update", "delete"}
  BY <1>1 DEF RequestOK
<1>4. ASSUME userRoles' \in [Ids -> SUBSET Roles],
             req' \in [Requests -> RequestRecord], Others(r), RequestOK(r)'
      PROVE  AuthInv'
  <2>1. DefTypes' /\ UserTypes' /\ CallTypes' /\ StoreMapsAgree' /\ DrawnFirst'
    BY <1>1, <1>4 DEF AuthInv, DefTypes, UserTypes, CallTypes, StoreMapsAgree, DrawnFirst
  <2>2. QuietStart'
    BY <1>1, <1>2 DEF QuietStart
  <2>3. RequestsOK'
    BY <1>1, <1>4, OtherRequests
  <2> QED  BY <2>1, <2>2, <2>3 DEF AuthInv
<1>5. userRoles \in [Ids -> SUBSET Roles]
  BY DEF AuthInv, UserTypes
<1>6. ASSUME NEW S \in SUBSET Roles, userRoles' = [userRoles EXCEPT ![u] = S]
      PROVE  userRoles' \in [Ids -> SUBSET Roles] /\ \A i \in Ids \ {u} : userRoles'[i] = userRoles[i]
  BY <1>3, <1>5, <1>6
<1>7. CASE RemoveRole(r)
  <2>1. PICK x \in req[r].todo :
          /\ RemoveRoleFromUser(u, x) \/ UNCHANGED userRoles
          /\ req' = [req EXCEPT ![r].todo = @ \ {x}]
    BY <1>7 DEF RemoveRole
  <2>2. req[r].at = "strip"
    BY <1>7 DEF RemoveRole
  <2> DEFINE rest == req[r].todo \ {x}
             q == [req[r] EXCEPT !.todo = rest]
  <2>3. rest \in SUBSET Roles
    BY <1>1 DEF RequestRecord
  <2>4. req' = [req EXCEPT ![r] = q]
    BY <1>1, <2>1
  <2> HIDE DEF rest
  <2>5. q \in RequestRecord /\ q.at = "strip" /\ q.op = req[r].op /\ q.user = req[r].user /\ q.target = u
    BY <1>1, <2>2, <2>3 DEF RequestRecord
  <2> HIDE DEF q
  <2>6. req' \in [Requests -> RequestRecord] /\ Others(r) /\ req'[r] = q
    BY <1>1, <2>4, <2>5 DEF Others
  <2>7. RequestOK(r)'
    BY <1>1, <2>2, <2>5, <2>6 DEF RequestOK, Inside
  <2>8. userRoles' \in [Ids -> SUBSET Roles] /\ \A i \in Ids \ {u} : userRoles'[i] = userRoles[i]
    <3>1. CASE UNCHANGED userRoles
      BY <1>5, <3>1
    <3>2. CASE RemoveRoleFromUser(u, x)
      <4>1. userRoles' = [userRoles EXCEPT ![u] = userRoles[u] \ {x}] /\ userRoles[u] \ {x} \in SUBSET Roles
        BY <1>3, <1>5, <3>2 DEF RemoveRoleFromUser
      <4> QED  BY <1>6, <4>1
    <3> QED  BY <2>1, <3>1, <3>2
  <2> QED  BY <1>1, <1>3, <1>4, <2>2, <2>5, <2>6, <2>7, <2>8
<1>8. CASE AssignRole(r)
  <2>1. CASE Return(r) /\ UNCHANGED userRoles
    BY <1>1, <1>3, <1>4, <1>5, <2>1, Returned
  <2>2. ASSUME NEW x \in req[r].new, AssignRoleToUser(u, x),
               IF req[r].new = {x} THEN Return(r) ELSE req' = [req EXCEPT ![r].new = @ \ {x}]
        PROVE  /\ AuthInv' /\ Others(r)
               /\ \A i \in Ids \ {u} : userRoles'[i] = userRoles[i]
               /\ \/ req'[r] = NoRequest
                  \/ req'[r].at \in {"assign", "strip"} /\ req'[r].user = req[r].user /\ req'[r].op = req[r].op
    <3>1. x \in Roles
      BY <1>1, <2>2 DEF RequestRecord
    <3>2. userRoles' = [userRoles EXCEPT ![u] = userRoles[u] \cup {x}] /\ userRoles[u] \cup {x} \in SUBSET Roles
      BY <1>3, <1>5, <2>2, <3>1 DEF AssignRoleToUser
    <3>3. userRoles' \in [Ids -> SUBSET Roles] /\ \A i \in Ids \ {u} : userRoles'[i] = userRoles[i]
      BY <1>6, <3>2
    <3>4. CASE req[r].new = {x}
      BY <1>4, <2>2, <3>3, <3>4, Returned
    <3>5. CASE req[r].new # {x}
      <4> DEFINE rest == req[r].new \ {x}
                 q == [req[r] EXCEPT !.new = rest]
      <4>1. rest \in SUBSET Roles
        BY <1>1 DEF RequestRecord
      <4>2. req' = [req EXCEPT ![r] = q]
        BY <1>1, <2>2, <3>5
      <4> HIDE DEF rest
      <4>3. q \in RequestRecord /\ q.at = req[r].at /\ q.op = req[r].op /\ q.user = req[r].user /\ q.target = u
        BY <1>1, <4>1 DEF RequestRecord
      <4> HIDE DEF q
      <4>4. req' \in [Requests -> RequestRecord] /\ Others(r) /\ req'[r] = q
        BY <1>1, <4>2, <4>3 DEF Others
      <4>5. RequestOK(r)'
        BY <1>1, <4>3, <4>4 DEF RequestOK, Inside
      <4> QED  BY <1>1, <1>4, <3>3, <4>3, <4>4, <4>5
    <3> QED  BY <3>4, <3>5
  <2> QED  BY <1>1, <1>3, <1>8, <2>1, <2>2 DEF AssignRole
<1> QED  BY <1>7, <1>8

\* Store.DeleteUser takes one user out of both maps.
LEMMA DropUserKeeps ==
  ASSUME AuthInv, NEW r \in Requests, DropUser(r)
  PROVE  /\ AuthInv' /\ Others(r)
         /\ req[r].op = "delete" /\ req[r].at = "strip" /\ req'[r] = NoRequest
         /\ UNCHANGED <<mem, userRoles, tokens>>
         /\ \A i \in Ids : byID[i] = None => byID'[i] = None
<1> DEFINE i == req[r].target
<1>1. /\ req[r].at = "strip" /\ req[r].op = "delete" /\ RequestOK(r) /\ Return(r)
      /\ UNCHANGED <<phase, seeding, redis, mem, userRoles, drawn, tokens>>
  BY DEF DropUser, Stripped, AuthInv, RequestsOK, defVars
<1>2. phase = "serving" /\ i \in Ids
  BY <1>1, ServesRequests DEF RequestOK
<1>3. req' \in [Requests -> RequestRecord] /\ Others(r) /\ RequestOK(r)' /\ req'[r] = NoRequest
  BY <1>1, Returned
<1>4. users \in [Names -> Ids \cup {None}] /\ byID \in [Ids -> Names \cup {None}]
  BY DEF AuthInv, UserTypes
<1>5. /\ users' \in [Names -> Ids \cup {None}] /\ byID' \in [Ids -> Names \cup {None}]
      /\ StoreMapsAgree'
      /\ \A j \in Ids : byID'[j] # None => byID'[j] = byID[j]
  <2>1. CASE byID[i] = None
    BY <1>4, <2>1 DEF DropUser, AuthInv, StoreMapsAgree
  <2>2. CASE byID[i] # None
    <3> DEFINE n == byID[i]
    <3>1. n \in Names
      BY <1>2, <1>4, <2>2
    <3>2. users' = [users EXCEPT ![n] = None] /\ byID' = [byID EXCEPT ![i] = None]
      BY <2>2 DEF DropUser
    <3>3. /\ users' \in [Names -> Ids \cup {None}] /\ byID' \in [Ids -> Names \cup {None}]
          /\ users'[n] = None /\ byID'[i] = None
          /\ \A j \in Ids \ {i} : byID'[j] = byID[j]
          /\ \A m \in Names \ {n} : users'[m] = users[m]
      BY <1>2, <1>4, <3>1, <3>2
    <3>4. ASSUME NEW j \in Ids, NEW m \in Names
          PROVE  byID'[j] = m <=> users'[m] = j
      <4>1. (byID[j] = m <=> users[m] = j) /\ (byID[i] = m <=> users[m] = i) /\ (byID[j] = n <=> users[n] = j)
            /\ users[n] = i
        BY <1>2, <3>1 DEF AuthInv, StoreMapsAgree
      <4>2. None \notin Ids /\ None \notin Names
        BY AuthAssumption
      <4> QED  BY <1>2, <3>1, <3>3, <4>1, <4>2
    <3> QED  BY <3>3, <3>4 DEF StoreMapsAgree
  <2> QED  BY <2>1, <2>2
<1>6. DefTypes' /\ UserTypes' /\ CallTypes'
  BY <1>1, <1>3, <1>5 DEF AuthInv, DefTypes, UserTypes, CallTypes
<1>7. DrawnFirst'
  BY <1>1, <1>5 DEF AuthInv, DrawnFirst
<1>8. QuietStart'
  BY <1>1, <1>2 DEF QuietStart
<1>9. \A j \in Ids : byID[j] = None => byID'[j] = None
  BY <1>5
<1>10. RequestsOK'
  <2>1. drawn \subseteq Ids
    BY DEF AuthInv, UserTypes
  <2> QED  BY <1>1, <1>3, <1>9, <2>1, OtherRequests
<1> QED  BY <1>1, <1>3, <1>5, <1>6, <1>7, <1>8, <1>9, <1>10 DEF AuthInv

-----------------------------------------------------------------------------
(* Startup and the end of the process.                                     *)

\* What the definitions are when one of them is added.
LEMMA DefinitionUpdates ==
  ASSUME NEW d \in Definitions, NEW p \in Perms, NEW r \in Roles, NEW g \in Roles \X Perms
  PROVE  /\ AddPermission(d, p) \in Definitions /\ AddPermission(d, p).grants = d.grants
         /\ AddRole(d, r) \in Definitions /\ Grant(d, g) \in Definitions
  BY DEF AddPermission, AddRole, Grant, Definitions

\* main up to the first user: WarmFrom and SeedRBAC, which no request sees.
LEMMA SeedsKeep ==
  ASSUME AuthInv,
         \/ Warm \/ \E p \in Perms : SavePermission(p)
         \/ \E r \in Roles : SaveRole(r)
         \/ \E g \in seeding : AssignPermissionToRole(g)
  PROVE  /\ AuthInv' /\ UNCHANGED <<userRoles, users, byID, drawn, tokens, req>>
         /\ phase # "serving"
<1>1. /\ UNCHANGED <<userRoles, users, byID, drawn, tokens, req>>
      /\ phase \in {"down", "perms", "roles"} /\ phase' \in {"down", "perms", "roles"}
  BY DEF Warm, SavePermission, SaveRole, AssignPermissionToRole
<1>2. redis \in Definitions /\ mem \in Definitions /\ seeding \in SUBSET (Roles \X Perms)
  BY DEF AuthInv, DefTypes
<1>3. redis' \in Definitions /\ mem' \in Definitions /\ seeding' \in SUBSET (Roles \X Perms)
  <2>1. CASE Warm
    <3>1. redis' = redis /\ seeding' = seeding
      BY <2>1 DEF Warm
    <3>2. mem' \in Definitions
      BY <1>2, <2>1 DEF Warm, ListPermissions, ListRoles, RolePermissionNames, Definitions
    <3> QED  BY <1>2, <3>1, <3>2
  <2>2. ASSUME NEW p \in Perms, SavePermission(p)
        PROVE  redis' \in Definitions /\ mem' \in Definitions /\ seeding' = seeding
    BY <1>2, <2>2 DEF SavePermission, WriteThrough, AddPermission, Definitions
  <2>3. ASSUME NEW r \in Roles, SaveRole(r)
        PROVE  redis' \in Definitions /\ mem' \in Definitions /\ seeding' \in SUBSET (Roles \X Perms)
    <3>1. redis' \in Definitions /\ mem' \in Definitions
      BY <1>2, <2>3 DEF SaveRole, WriteThrough, AddRole, Definitions
    <3>2. seeding' = {<<r, p>> : p \in RoleSeeds[r]} /\ RoleSeeds[r] \in SUBSET Perms
      BY <2>3, AuthAssumption DEF SaveRole
    <3> QED  BY <3>1, <3>2
  <2>4. ASSUME NEW g \in seeding, AssignPermissionToRole(g)
        PROVE  redis' \in Definitions /\ mem' \in Definitions /\ seeding' \in SUBSET (Roles \X Perms)
    BY <1>2, <2>4 DEF AssignPermissionToRole, WriteThrough, Grant, Definitions
  <2> QED  BY <1>2, <2>1, <2>2, <2>3, <2>4
<1>4. DefTypes' /\ UserTypes' /\ CallTypes'
  BY <1>1, <1>3 DEF AuthInv, DefTypes, UserTypes, CallTypes
<1>5. StoreMapsAgree' /\ DrawnFirst' /\ RequestsOK'
  BY <1>1 DEF AuthInv, StoreMapsAgree, DrawnFirst, RequestsOK, RequestOK
<1>6. QuietStart'
  BY <1>1 DEF AuthInv, QuietStart
<1> QED  BY <1>1, <1>4, <1>5, <1>6 DEF AuthInv

\* SeedAdmin: the first user ...
LEMMA SeedAdminUserKeeps ==
  ASSUME AuthInv, SeedAdminUser
  PROVE  /\ AuthInv' /\ UNCHANGED <<mem, userRoles, tokens, req>> /\ phase # "serving"
<1>1. /\ phase \in {"perms", "roles"} /\ phase' = "assign"
      /\ UNCHANGED <<seeding, redis, mem, userRoles, tokens, req>>
  BY DEF SeedAdminUser
<1>2. PICK i \in Ids \ drawn : PutUser(AdminName, i) /\ drawn' = {i}
  BY DEF SeedAdminUser
<1>3. \A j \in Ids : byID[j] = None
  BY <1>1 DEF AuthInv, QuietStart
<1>4. /\ users' \in [Names -> Ids \cup {None}] /\ byID' \in [Ids -> Names \cup {None}]
      /\ users'[AdminName] = i
      /\ \A j \in Ids \ {i} : byID'[j] = byID[j]
      /\ StoreMapsAgree'
  BY <1>2, <1>3, PutUserKeeps, AuthAssumption
<1>5. DefTypes' /\ UserTypes' /\ CallTypes'
  BY <1>1, <1>2, <1>4 DEF AuthInv, DefTypes, UserTypes, CallTypes
<1>6. /\ \A j \in Ids : userRoles[j] = {}
      /\ \A t \in Tokens : tokens[t].user = None
      /\ \A r \in Requests : req[r].at = "idle"
  BY <1>1 DEF AuthInv, QuietStart
<1>7. DrawnFirst'
  <2>1. \A t \in Tokens : tokens[t].good => tokens[t].user # None
    BY DEF AuthInv, DrawnFirst
  <2> QED  BY <1>1, <1>2, <1>3, <1>4, <1>6, <2>1 DEF DrawnFirst
<1>8. QuietStart'
  BY <1>1, <1>4, <1>6 DEF QuietStart
<1>9. RequestsOK'
  BY <1>1, <1>6 DEF RequestsOK, RequestOK, Inside
<1> QED  BY <1>1, <1>4, <1>5, <1>7, <1>8, <1>9 DEF AuthInv

\* ... and its role, before the server listens.
LEMMA SeedAdminRoleKeeps ==
  ASSUME AuthInv, SeedAdminRole
  PROVE  /\ AuthInv' /\ UNCHANGED <<mem, byID, tokens, req>> /\ phase = "assign"
         /\ users[AdminName] \in Ids
         /\ \A i \in Ids \ {users[AdminName]} : userRoles'[i] = userRoles[i]
<1> DEFINE u == users[AdminName]
<1>1. /\ phase = "assign" /\ phase' = "serving"
      /\ UNCHANGED <<seeding, redis, mem, users, byID, drawn, tokens, req>>
      /\ AssignRoleToUser(u, Admin)
  BY DEF SeedAdminRole
<1>2. u \in Ids /\ userRoles \in [Ids -> SUBSET Roles]
  BY <1>1 DEF AuthInv, QuietStart, UserTypes
<1>3. userRoles' = [userRoles EXCEPT ![u] = userRoles[u] \cup {Admin}]
  BY <1>1 DEF AssignRoleToUser
<1>4. userRoles[u] \cup {Admin} \in SUBSET Roles
  BY <1>2, AuthAssumption
<1>5. userRoles' \in [Ids -> SUBSET Roles] /\ \A i \in Ids \ {u} : userRoles'[i] = userRoles[i]
  BY <1>2, <1>3, <1>4
<1>6. DefTypes' /\ UserTypes' /\ CallTypes'
  BY <1>1, <1>5 DEF AuthInv, DefTypes, UserTypes, CallTypes
<1>7. StoreMapsAgree' /\ DrawnFirst' /\ RequestsOK'
  BY <1>1 DEF AuthInv, StoreMapsAgree, DrawnFirst, RequestsOK, RequestOK
<1>8. QuietStart'
  BY <1>1 DEF QuietStart
<1> QED  BY <1>1, <1>2, <1>5, <1>6, <1>7, <1>8 DEF AuthInv

\* A process without a user.
Blank ==
  /\ userRoles = [i \in Ids |-> {}]
  /\ users = [n \in Names |-> None] /\ byID = [i \in Ids |-> None] /\ drawn = {}
  /\ tokens = [t \in Tokens |-> [user |-> None, good |-> FALSE]]
  /\ req = [r \in Requests |-> NoRequest]

\* Such a process satisfies what the invariant says of users and requests.
LEMMA BlankInv ==
  Blank /\ DefTypes /\ phase = "down" => AuthInv
<1> SUFFICES ASSUME Blank, DefTypes, phase = "down"  PROVE AuthInv
  OBVIOUS
<1>1. NoRequest \in RequestRecord /\ NoRequest.at = "idle"
  BY DEF NoRequest, RequestRecord
<1>2. UserTypes
  BY DEF Blank, UserTypes
<1>3. CallTypes
  <2>1. [user |-> None, good |-> FALSE] \in TokenRecord
    BY DEF TokenRecord
  <2> QED  BY <1>1, <2>1 DEF Blank, CallTypes
<1>4. /\ \A i \in Ids : userRoles[i] = {} /\ byID[i] = None
      /\ \A n \in Names : users[n] = None
      /\ \A t \in Tokens : tokens[t].user = None /\ tokens[t].good = FALSE
      /\ \A r \in Requests : req[r].at = "idle"
  BY <1>1 DEF Blank
<1>5. StoreMapsAgree
  BY <1>4, AuthAssumption DEF StoreMapsAgree
<1>6. DrawnFirst /\ QuietStart
  BY <1>4 DEF DrawnFirst, QuietStart
<1>7. RequestsOK
  BY <1>4 DEF RequestsOK, RequestOK, Inside
<1> QED  BY <1>2, <1>3, <1>5, <1>6, <1>7 DEF AuthInv

\* The first start.
LEMMA AuthInit ==
  Init => AuthInv
<1> SUFFICES ASSUME Init  PROVE AuthInv
  OBVIOUS
<1>1. DefTypes
  BY DEF Init, DefTypes, NoDefs, Definitions
<1>2. Blank /\ phase = "down"
  BY DEF Init, Blank
<1> QED  BY <1>1, <1>2, BlankInv

\* The process ends; what it had in memory is gone, Redis stays.
LEMMA ExitKeeps ==
  ASSUME AuthInv, Exit
  PROVE  AuthInv' /\ Blank'
<1>1. Blank' /\ phase' = "down"
  BY DEF Exit, Blank
<1>2. DefTypes'
  BY DEF Exit, AuthInv, DefTypes, NoDefs, Definitions
<1>3. (Blank /\ DefTypes /\ phase = "down")' => AuthInv'
  BY BlankInv, PTL
<1> QED  BY <1>1, <1>2, <1>3

\* The operations that a route may ask for.
LEMMA NeedsDomain ==
  /\ DOMAIN Needs = Ops
  /\ Needs["create"] = Manage /\ Needs["delete"] = Manage /\ Needs["update"] = Manage
  /\ \A op \in Ops : Needs[op] \in Perms \cup {None}
<1>1. DOMAIN Needs = Ops
  BY DEF Needs, Ops
<1>2. Needs["create"] = Manage /\ Needs["delete"] = Manage /\ Needs["update"] = Manage
      /\ Needs["view"] = View /\ Needs["logout"] = None
  BY DEF Needs
<1> QED  BY <1>1, <1>2, AuthAssumption DEF Ops

\* Every step of main, of the middleware and of the endpoints keeps the invariant.
LEMMA AuthStep ==
  AuthInv /\ [Next]_vars => AuthInv'
<1> SUFFICES ASSUME AuthInv, [Next]_vars  PROVE AuthInv'
  OBVIOUS
<1>1. CASE Warm \/ Seed
  BY <1>1, SeedsKeep, SeedAdminUserKeeps, SeedAdminRoleKeeps DEF Seed
<1>2. CASE Exit
  BY <1>2, ExitKeeps
<1>3. ASSUME NEW r \in Requests, AuthHandler(r)  PROVE AuthInv'
  <2>1. ASSUME NEW n \in Names, Login(r, n)  PROVE AuthInv'
    BY <2>1, LoginKeeps, RequestStepKeeps
  <2>2. CASE SaveToken(r) \/ Logout(r)
    BY <2>2, TokenSteps
  <2>3. CASE View_(r)
    <3>1. /\ req[r].at = "run" /\ Return(r) /\ UNCHANGED <<defVars, userRoles, users, byID, drawn, tokens>>
      BY <2>3 DEF View_
    <3>2. RequestStep(r)
      BY <3>1, Returned, ServesRequests DEF RequestStep
    <3> QED  BY <3>2, RequestStepKeeps
  <2> QED  BY <1>3, <2>1, <2>2, <2>3 DEF AuthHandler
<1>4. ASSUME NEW r \in Requests, Middleware(r)  PROVE AuthInv'
  <2>1. ASSUME NEW t \in Tokens, NEW op \in Ops, CheckToken(r, t, op)  PROVE AuthInv'
    BY <2>1, CheckTokenKeeps, RequestStepKeeps
  <2>2. CASE GetUser(r)
    BY <2>2, GetUserKeeps, RequestStepKeeps
  <2>3. CASE RequirePermission(r)
    BY <2>3, RequirePermissionKeeps, RequestStepKeeps
  <2> QED  BY <1>4, <2>1, <2>2, <2>3, NeedsDomain DEF Middleware
<1>5. ASSUME NEW r \in Requests, UserHandler(r)  PROVE AuthInv'
  BY <1>5, LooksKeep, RequestStepKeeps, AddUserKeeps, RoleStepsKeep, DropUserKeeps DEF UserHandler
<1>6. ASSUME NEW t \in Tokens, ExpireToken(t)  PROVE AuthInv'
  BY <1>6, TokenSteps
<1>7. CASE UNCHANGED vars
  BY <1>7 DEF vars, defVars, AuthInv, DefTypes, UserTypes, CallTypes, StoreMapsAgree, DrawnFirst, QuietStart,
     RequestsOK, RequestOK
<1> QED  BY <1>1, <1>2, <1>3, <1>4, <1>5, <1>6, <1>7 DEF Next

\* The invariant holds of every behaviour.
THEOREM AuthInvariant == Spec => []AuthInv
  BY AuthInit, AuthStep, PTL DEF Spec

\* Store's two maps agree whatever creates and deletes run at the same time: an id
\* has one name and a name one id.
THEOREM MapsStayInStep == Spec => []StoreMapsAgree
  <1>1. AuthInv => StoreMapsAgree
    BY DEF AuthInv
  <1> QED  BY <1>1, AuthInvariant, PTL

-----------------------------------------------------------------------------
(* Auth implements Access.  First, what the abstract state depends on.     *)

\* The tokens and who owns them.
LEMMA TokensAlone ==
  UNCHANGED <<tokens, byID>> => UNCHANGED <<Owner, Valid, Spent>>
  BY DEF Owner, Valid, Spent, Issued

\* Who has which permission.
LEMMA HoldsAlone ==
  UNCHANGED <<userRoles, mem>> => Holds' = Holds
  BY DEF Holds, UserHasPermission

\* How far each request got.
LEMMA AdmissionAlone ==
  ASSUME NEW r \in Requests, Others(r)
  PROVE  /\ Admission' = [Admission EXCEPT ![r] = Abstract(r)']
         /\ Abstract(r)' = Abstract(r) => Admission' = Admission
<1>1. Admission = [x \in Requests |-> Abstract(x)] /\ Admission' = [x \in Requests |-> Abstract(x)']
  BY DEF Admission
<1>2. \A x \in Requests \ {r} : Abstract(x)' = Abstract(x)
  BY DEF Others, Abstract
<1> QED  BY <1>1, <1>2

\* What a request is in the abstract, by where it is.
LEMMA AbstractCases ==
  ASSUME NEW r \in Requests
  PROVE  /\ req[r].at \in {"idle", "login"} => Abstract(r) = A!Idle
         /\ req[r].at \in {"token", "user"} /\ ~req[r].live => Abstract(r) = A!Idle
         /\ req[r].at \in {"token", "user"} /\ req[r].live =>
              Abstract(r) = [at |-> "authenticated", user |-> req[r].user, perm |-> Needs[req[r].op]]
         /\ req[r].at \in Inside =>
              Abstract(r) = [at |-> "admitted", user |-> req[r].user, perm |-> Needs[req[r].op]]
  BY DEF Abstract, A!Idle, Inside

\* The same after a step.
LEMMA AbstractCasesNext ==
  ASSUME NEW r \in Requests
  PROVE  /\ req'[r].at \in {"idle", "login"} => Abstract(r)' = A!Idle
         /\ req'[r].at \in {"token", "user"} /\ ~req'[r].live => Abstract(r)' = A!Idle
         /\ req'[r].at \in {"token", "user"} /\ req'[r].live =>
              Abstract(r)' = [at |-> "authenticated", user |-> req'[r].user, perm |-> Needs[req'[r].op]]
         /\ req'[r].at \in Inside =>
              Abstract(r)' = [at |-> "admitted", user |-> req'[r].user, perm |-> Needs[req'[r].op]]
         /\ req'[r] = NoRequest => Abstract(r)' = A!Idle
  BY DEF Abstract, A!Idle, Inside, NoRequest

\* A request that ends and changes nothing else is Access's Finish.
LEMMA Finishes ==
  ASSUME NEW r \in Requests, Others(r), req'[r] = NoRequest,
         UNCHANGED <<tokens, byID, userRoles, mem>>
  PROVE  A!Next
<1>1. Admission' = [Admission EXCEPT ![r] = A!Idle]
  BY AdmissionAlone, AbstractCasesNext
<1>2. UNCHANGED <<Owner, Valid, Spent>> /\ Holds' = Holds
  BY TokensAlone, HoldsAlone
<1>3. A!Finish(r)
  BY <1>1, <1>2 DEF A!Finish, A!Ends
<1> QED  BY <1>3 DEF A!Next

\* Nothing of the abstract state changes.
LEMMA Stutters ==
  ASSUME UNCHANGED <<tokens, byID, userRoles, mem>>, Admission' = Admission
  PROVE  UNCHANGED A!vars
  BY TokensAlone, HoldsAlone DEF A!vars

-----------------------------------------------------------------------------
(* Then, the steps.                                                        *)

\* Login begins and ends outside; the token it saves is issued.
LEMMA LoginRefines ==
  ASSUME AuthInv, NEW r \in Requests,
         (\E n \in Names : Login(r, n)) \/ SaveToken(r)
  PROVE  [A!Next]_(A!vars)
<1>1. ASSUME NEW n \in Names, Login(r, n)  PROVE UNCHANGED A!vars
  <2>1. RequestStep(r) /\ req[r].at = "idle" /\ req'[r].at = "login"
    <3>1. RequestStep(r)
      BY <1>1, LoginKeeps
    <3>2. req' = [req EXCEPT ![r] = [NoRequest EXCEPT !.at = "login", !.user = users[n]]]
      BY <1>1 DEF Login
    <3>3. req'[r].at = "login"
      BY <3>2 DEF AuthInv, CallTypes, NoRequest
    <3> QED  BY <1>1, <3>1, <3>3 DEF Login
  <2>2. Abstract(r)' = Abstract(r)
    BY <2>1, AbstractCases, AbstractCasesNext
  <2> QED  BY <2>1, <2>2, AdmissionAlone, Stutters DEF RequestStep, defVars
<1>2. CASE SaveToken(r)
  <2> DEFINE u == req[r].user
  <2>1. /\ req[r].at = "login" /\ Return(r) /\ UNCHANGED <<mem, userRoles, byID>>
    BY <1>2 DEF SaveToken, defVars
  <2>2. PICK t \in Tokens : tokens[t].user = None /\ tokens' = [tokens EXCEPT ![t] = Issue(u)]
    BY <1>2 DEF SaveToken
  <2>3. u \in Ids /\ u # None
    BY <2>1, AuthAssumption DEF AuthInv, RequestsOK, RequestOK, UserTypes
  <2>4. tokens'[t].user = u /\ tokens'[t].good /\ \A s \in Tokens \ {t} : tokens'[s] = tokens[s]
    BY <2>2 DEF Issue, AuthInv, CallTypes
  <2>5. Owner' = [Owner EXCEPT ![t] = u]
    BY <2>4 DEF Owner
  <2>6. Issued' = Issued \cup {t} /\ t \notin Issued
    BY <2>2, <2>3, <2>4 DEF Issued
  <2>7. Valid' = IF byID[u] # None THEN Valid \cup {t} ELSE Valid
    <3>1. t \in Valid' <=> byID[u] # None
      BY <2>1, <2>4, <2>6 DEF Valid
    <3>2. \A s \in Tokens \ {t} : s \in Valid' <=> s \in Valid
      BY <2>1, <2>4, <2>6 DEF Valid
    <3>3. Valid \subseteq Tokens /\ Valid' \subseteq Tokens /\ t \notin Valid
      BY <2>6 DEF Valid, Issued
    <3> QED  BY <3>1, <3>2, <3>3
  <2>8. t \notin Valid \cup Spent /\ Valid \subseteq Issued
    BY <2>6 DEF Valid, Spent
  <2>9. \/ Valid' = Valid \cup {t} /\ Spent' = Spent
        \/ Valid' = Valid /\ Spent' = Spent \cup {t}
    BY <2>6, <2>7, <2>8 DEF Spent
  <2>10. Admission' = Admission /\ Holds' = Holds
    <3>1. Others(r) /\ req'[r] = NoRequest
      BY <2>1, Returned
    <3>2. Abstract(r)' = Abstract(r)
      BY <2>1, <3>1, AbstractCases, AbstractCasesNext
    <3> QED  BY <2>1, <3>1, <3>2, AdmissionAlone, HoldsAlone
  <2>11. A!Issue(t, u)
    BY <2>5, <2>8, <2>9, <2>10 DEF A!Issue
  <2> QED  BY <2>3, <2>11 DEF A!Next
<1> QED  BY <1>1, <1>2

\* The middleware: a valid token authenticates, the permission admits.
LEMMA MiddlewareRefines ==
  ASSUME AuthInv, NEW r \in Requests, Middleware(r)
  PROVE  [A!Next]_(A!vars)
<1>1. ASSUME NEW t \in Tokens, NEW op \in Ops, CheckToken(r, t, op)  PROVE [A!Next]_(A!vars)
  <2>1. /\ RequestStep(r)
        /\ req'[r].at = "token" /\ req'[r].op = op /\ req'[r].user = tokens[t].user
        /\ req'[r].live <=> byID[tokens[t].user] # None
    BY <1>1, CheckTokenKeeps
  <2>2. UNCHANGED <<tokens, byID, userRoles, mem>> /\ Others(r) /\ req[r].at = "idle" /\ tokens[t].good
    BY <1>1, <2>1 DEF RequestStep, defVars, CheckToken, Verify
  <2>3. Abstract(r) = A!Idle
    BY <2>2, AbstractCases
  <2>4. CASE byID[tokens[t].user] = None
    <3>1. Abstract(r)' = A!Idle
      BY <2>1, <2>4, AbstractCasesNext
    <3> QED  BY <2>2, <2>3, <3>1, AdmissionAlone, Stutters
  <2>5. CASE byID[tokens[t].user] # None
    <3>1. Abstract(r)' = [at |-> "authenticated", user |-> tokens[t].user, perm |-> Needs[op]]
      BY <2>1, <2>5, AbstractCasesNext
    <3>2. t \in Valid /\ Owner[t] = tokens[t].user
      BY <2>2, <2>5 DEF Valid, Issued, Owner, AuthInv, DrawnFirst
    <3>3. Admission[r] = A!Idle
      BY <2>3 DEF Admission
    <3>4. A!Authenticate(r, t, Needs[op])
      <4>1. Admission' = [Admission EXCEPT ![r] =
                            [at |-> "authenticated", user |-> Owner[t], perm |-> Needs[op]]]
        BY <2>2, <3>1, <3>2, AdmissionAlone
      <4>2. UNCHANGED <<Owner, Valid, Spent, Holds>>
        BY <2>2, TokensAlone, HoldsAlone
      <4> QED  BY <3>2, <3>3, <4>1, <4>2 DEF A!Authenticate
    <3> QED  BY <3>4, NeedsDomain DEF A!Next
  <2> QED  BY <2>4, <2>5
<1>2. CASE GetUser(r)
  <2>1. /\ RequestStep(r)
        /\ \/ req'[r] = NoRequest
           \/ /\ req[r].live /\ req'[r].live /\ req'[r].at = "user"
              /\ req'[r].op = req[r].op /\ req'[r].user = req[r].user
    BY <1>2, GetUserKeeps
  <2>2. UNCHANGED <<tokens, byID, userRoles, mem>> /\ Others(r) /\ req[r].at = "token"
    BY <1>2, <2>1 DEF RequestStep, defVars, GetUser
  <2>3. CASE req'[r] = NoRequest
    BY <2>2, <2>3, Finishes
  <2>4. CASE req'[r] # NoRequest
    <3>1. Abstract(r)' = Abstract(r)
      BY <2>1, <2>2, <2>4, AbstractCases, AbstractCasesNext
    <3> QED  BY <2>2, <3>1, AdmissionAlone, Stutters
  <2> QED  BY <2>3, <2>4
<1>3. CASE RequirePermission(r)
  <2>1. /\ RequestStep(r)
        /\ \/ req'[r] = NoRequest
           \/ /\ Needs[req[r].op] = None \/ UserHasPermission(req[r].user, Needs[req[r].op])
              /\ req'[r].at = "run" /\ req'[r].user = None /\ req'[r].op = req[r].op
    BY <1>3, RequirePermissionKeeps
  <2>2. UNCHANGED <<tokens, byID, userRoles, mem>> /\ Others(r) /\ req[r].at = "user"
    BY <1>3, <2>1 DEF RequestStep, defVars, RequirePermission
  <2>3. CASE req'[r] = NoRequest
    BY <2>2, <2>3, Finishes
  <2>4. CASE req'[r] # NoRequest
    <3> DEFINE p == Needs[req[r].op]
               a == [at |-> "authenticated", user |-> req[r].user, perm |-> p]
    <3>1. req[r].live /\ req[r].user \in Ids /\ p \in Perms \cup {None}
      <4>1. RequestOK(r) /\ drawn \subseteq Ids
        BY DEF AuthInv, RequestsOK, UserTypes
      <4> QED  BY <2>2, <4>1, NeedsDomain DEF RequestOK
    <3>2. Abstract(r) = a /\ Admission[r] = a
      BY <2>2, <3>1, AbstractCases DEF Admission
    <3>3. Abstract(r)' = [at |-> "admitted", user |-> None, perm |-> p]
      BY <2>1, <2>4, AbstractCasesNext DEF Inside
    <3>4. p # None => <<req[r].user, p>> \in Holds
      BY <2>1, <2>4, <3>1 DEF Holds
    <3>5. Admission' = [Admission EXCEPT ![r] = [at |-> "admitted", user |-> None, perm |-> Admission[r].perm]]
      BY <2>2, <3>2, <3>3, AdmissionAlone
    <3>6. UNCHANGED <<Owner, Valid, Spent, Holds>>
      BY <2>2, TokensAlone, HoldsAlone
    <3>7. A!Admit(r)
      BY <3>2, <3>4, <3>5, <3>6 DEF A!Admit
    <3> QED  BY <3>7 DEF A!Next
  <2> QED  BY <2>3, <2>4
<1> QED  BY <1>1, <1>2, <1>3, NeedsDomain DEF Middleware

\* Where tokens stop being good or users disappear, validity is withdrawn.
LEMMA Withdraws ==
  ASSUME AuthInv,
         \A t \in Tokens : tokens'[t].user = tokens[t].user /\ (tokens'[t].good => tokens[t].good),
         \A i \in Ids : byID[i] = None => byID'[i] = None,
         UNCHANGED <<userRoles, mem>>
  PROVE  A!Withdraw
<1>1. Owner' = Owner /\ Issued' = Issued
  BY DEF Owner, Issued
<1>2. Valid' \subseteq Valid
  <2> SUFFICES ASSUME NEW t \in Valid'  PROVE t \in Valid
    OBVIOUS
  <2>1. t \in Issued /\ tokens'[t].good /\ byID'[tokens'[t].user] # None
    BY <1>1 DEF Valid
  <2>2. t \in Tokens /\ tokens[t].user \in Ids
    BY <2>1 DEF Issued, AuthInv, CallTypes, TokenRecord
  <2> QED  BY <2>1, <2>2 DEF Valid
<1>3. Spent' = Spent \cup (Valid \ Valid')
  BY <1>1, <1>2 DEF Spent, Valid
<1>4. Holds' = Holds
  BY HoldsAlone
<1> QED  BY <1>1, <1>2, <1>3, <1>4 DEF A!Withdraw

\* A token that is marked keeps its user.
LEMMA MarkedToken ==
  ASSUME AuthInv, NEW t \in Tokens, tokens' = [tokens EXCEPT ![t].good = FALSE]
  PROVE  \A s \in Tokens : tokens'[s].user = tokens[s].user /\ (tokens'[s].good => tokens[s].good)
<1> DEFINE k == [tokens[t] EXCEPT !.good = FALSE]
<1>1. tokens' = [tokens EXCEPT ![t] = k] /\ tokens \in [Tokens -> TokenRecord]
  BY DEF AuthInv, CallTypes
<1>2. k.user = tokens[t].user /\ k.good = FALSE
  BY <1>1 DEF TokenRecord
<1> HIDE DEF k
<1> QED  BY <1>1, <1>2

\* A request that got in is admitted in the abstract, with its permission.
LEMMA InsideIsAdmitted ==
  ASSUME NEW r \in Requests, req[r].at \in Inside
  PROVE  Admission[r].at = "admitted" /\ Admission[r].perm = Needs[req[r].op]
  BY AbstractCases DEF Admission

\* The endpoints: a request that got in looks things up, ends tokens, and changes
\* the permissions of one user at a time if it may manage users.
LEMMA EndpointsRefine ==
  ASSUME AuthInv, NEW r \in Requests, View_(r) \/ Logout(r) \/ UserHandler(r)
  PROVE  [A!Next]_(A!vars)
<1>1. CASE \/ View_(r)
           \/ \E n \in Names, x \in Roles : CreateUser(r, n, x)
           \/ \E i \in Ids, x \in Roles : UpdateUserRoles(r, i, x)
           \/ \E i \in Ids : DeleteUser(r, i)
  <2>1. RequestStep(r) /\ Passed(r)
    BY <1>1, LooksKeep
  <2>2. UNCHANGED <<tokens, byID, userRoles, mem>> /\ Others(r)
    BY <2>1 DEF RequestStep, defVars
  <2>3. req[r].at \in Inside
    BY <1>1 DEF View_, CreateUser, UpdateUserRoles, DeleteUser, Inside
  <2>4. CASE req'[r] = NoRequest
    BY <2>2, <2>4, Finishes
  <2>5. CASE req'[r] # NoRequest
    <3>1. Abstract(r)' = Abstract(r)
      BY <2>1, <2>3, <2>5, AbstractCases, AbstractCasesNext DEF Passed
    <3> QED  BY <2>2, <3>1, AdmissionAlone, Stutters
  <2> QED  BY <2>4, <2>5
<1>2. CASE Logout(r)
  <2>1. /\ req[r].at = "run" /\ req[r].op = "logout" /\ Return(r) /\ RequestOK(r)
        /\ tokens' = [tokens EXCEPT ![req[r].token].good = FALSE]
        /\ UNCHANGED <<mem, userRoles, byID>>
    BY <1>2 DEF Logout, InvalidateToken, defVars, AuthInv, RequestsOK
  <2>2. req[r].token \in Tokens
    BY <2>1 DEF RequestOK
  <2>3. A!Withdraw
    BY <2>1, <2>2, MarkedToken, Withdraws
  <2>4. Others(r) /\ req'[r] = NoRequest
    BY <2>1, Returned
  <2>5. A!Ends(r)
    BY <2>4, AdmissionAlone, AbstractCasesNext DEF A!Ends
  <2>6. A!Act(r)
    BY <2>1, <2>3, <2>5, InsideIsAdmitted DEF A!Act, Inside
  <2> QED  BY <2>6 DEF A!Next
<1>3. CASE AddUser(r)
  <2>1. /\ Others(r) /\ UNCHANGED <<mem, userRoles, tokens>>
        /\ \/ req'[r] = NoRequest /\ UNCHANGED byID
           \/ /\ req'[r].at = "assign" /\ req'[r].user = req[r].user /\ req'[r].op = req[r].op
              /\ \A j \in drawn : byID'[j] = byID[j]
    BY <1>3, AddUserKeeps
  <2>2. CASE req'[r] = NoRequest /\ UNCHANGED byID
    BY <2>1, <2>2, Finishes
  <2>3. CASE /\ req'[r].at = "assign" /\ req'[r].user = req[r].user /\ req'[r].op = req[r].op
             /\ \A j \in drawn : byID'[j] = byID[j]
    <3>1. Owner' = Owner /\ Issued' = Issued
      BY <2>1 DEF Owner, Issued
    <3>2. \A t \in Issued : tokens[t].user \in drawn
      BY DEF Issued, AuthInv, DrawnFirst
    <3>3. Valid' = Valid
      BY <2>1, <2>3, <3>1, <3>2 DEF Valid
    <3>4. Spent' = Spent
      BY <3>1, <3>3 DEF Spent
    <3>5. Holds' = Holds
      BY <2>1, HoldsAlone
    <3>6. Abstract(r)' = Abstract(r)
      BY <1>3, <2>3, AbstractCases, AbstractCasesNext DEF AddUser, Inside
    <3> QED  BY <2>1, <3>1, <3>3, <3>4, <3>5, <3>6, AdmissionAlone DEF A!vars
  <2> QED  BY <2>1, <2>2, <2>3
<1>4. CASE RemoveRole(r) \/ AssignRole(r)
  <2> DEFINE u == req[r].target
  <2>1. /\ Others(r) /\ u \in Ids /\ req[r].op \in {"create", "update", "delete"}
        /\ req[r].at \in {"assign", "strip"}
        /\ UNCHANGED <<mem, byID, tokens>>
        /\ \A i \in Ids \ {u} : userRoles'[i] = userRoles[i]
        /\ \/ req'[r] = NoRequest
           \/ req'[r].at \in {"assign", "strip"} /\ req'[r].user = req[r].user /\ req'[r].op = req[r].op
    BY <1>4, RoleStepsKeep
  <2>2. Admission[r].at = "admitted" /\ Admission[r].perm = Manage
    BY <2>1, InsideIsAdmitted, NeedsDomain DEF Inside
  <2>3. \A h \in (Holds \ Holds') \cup (Holds' \ Holds) : h[1] = u
    BY <2>1 DEF Holds, UserHasPermission
  <2>4. UNCHANGED <<Owner, Valid, Spent>>
    BY <2>1, TokensAlone
  <2>5. A!Govern(r, u)
    BY <2>2, <2>3, <2>4 DEF A!Govern
  <2>6. Admission' = Admission \/ A!Ends(r)
    <3>1. CASE req'[r] = NoRequest
      BY <2>1, <3>1, AdmissionAlone, AbstractCasesNext DEF A!Ends
    <3>2. CASE req'[r] # NoRequest
      <4>1. Abstract(r)' = Abstract(r)
        BY <2>1, <3>2, AbstractCases, AbstractCasesNext DEF Inside
      <4> QED  BY <2>1, <4>1, AdmissionAlone
    <3> QED  BY <3>1, <3>2
  <2>7. A!Act(r)
    BY <2>1, <2>2, <2>5, <2>6 DEF A!Act
  <2> QED  BY <2>7 DEF A!Next
<1>5. CASE DropUser(r)
  <2>1. /\ Others(r) /\ req[r].op = "delete" /\ req[r].at = "strip" /\ req'[r] = NoRequest
        /\ UNCHANGED <<mem, userRoles, tokens>>
        /\ \A i \in Ids : byID[i] = None => byID'[i] = None
    BY <1>5, DropUserKeeps
  <2>2. A!Withdraw
    BY <2>1, Withdraws
  <2>3. A!Ends(r)
    BY <2>1, AdmissionAlone, AbstractCasesNext DEF A!Ends
  <2>4. A!Act(r)
    BY <2>1, <2>2, <2>3, InsideIsAdmitted DEF A!Act, Inside
  <2> QED  BY <2>4 DEF A!Next
<1> QED  BY <1>1, <1>2, <1>3, <1>4, <1>5 DEF UserHandler

\* Startup: nobody holds anything until the first user is given its role.
LEMMA StartupRefines ==
  ASSUME AuthInv, Warm \/ Seed \/ Exit
  PROVE  [A!Next]_(A!vars)
<1>1. ASSUME phase # "serving"
      PROVE  Holds = {} /\ Issued = {} /\ Valid = {} /\ Spent = {}
  <2>1. (\A i \in Ids : userRoles[i] = {}) /\ (\A t \in Tokens : tokens[t].user = None)
    BY <1>1 DEF AuthInv, QuietStart
  <2>2. Holds = {}
    BY <2>1 DEF Holds, UserHasPermission
  <2>3. Issued = {}
    BY <2>1 DEF Issued
  <2> QED  BY <2>2, <2>3 DEF Valid, Spent
<1>2. CASE \/ Warm \/ \E p \in Perms : SavePermission(p)
           \/ \E r \in Roles : SaveRole(r)
           \/ \E g \in seeding : AssignPermissionToRole(g)
  <2>1. UNCHANGED <<userRoles, users, byID, drawn, tokens, req>> /\ phase # "serving"
    BY <1>2, SeedsKeep
  <2>2. \A i \in Ids : userRoles[i] = {}
    BY <2>1 DEF AuthInv, QuietStart
  <2>3. Holds' = {} /\ Holds = {}
    BY <2>1, <2>2 DEF Holds, UserHasPermission
  <2>4. Admission' = Admission
    BY <2>1 DEF Admission, Abstract
  <2> QED  BY <2>1, <2>3, <2>4, TokensAlone DEF A!vars
<1>3. CASE SeedAdminUser
  <2>1. UNCHANGED <<mem, userRoles, tokens, req>> /\ phase # "serving"
    BY <1>3, SeedAdminUserKeeps
  <2>2. \A t \in Tokens : tokens[t].user = None
    BY <2>1 DEF AuthInv, QuietStart
  <2>3. Owner' = Owner /\ Issued = {} /\ Issued' = {}
    BY <2>1, <2>2 DEF Owner, Issued
  <2>4. Valid' = Valid /\ Spent' = Spent
    BY <2>3 DEF Valid, Spent
  <2>5. Holds' = Holds
    BY <2>1, HoldsAlone
  <2>6. Admission' = Admission
    BY <2>1 DEF Admission, Abstract
  <2> QED  BY <2>3, <2>4, <2>5, <2>6 DEF A!vars
<1>4. CASE SeedAdminRole
  <2> DEFINE u == users[AdminName]
  <2>1. /\ UNCHANGED <<mem, byID, tokens, req>> /\ phase = "assign" /\ u \in Ids
        /\ \A i \in Ids \ {u} : userRoles'[i] = userRoles[i]
    BY <1>4, SeedAdminRoleKeeps
  <2>2. Holds = {} /\ Valid = {} /\ Spent = {} /\ \A i \in Ids : userRoles[i] = {}
    BY <1>1, <2>1 DEF AuthInv, QuietStart
  <2>3. Holds' \subseteq {u} \X Perms
    <3>1. \A i \in Ids \ {u} : userRoles'[i] = {}
      BY <2>1, <2>2
    <3> QED  BY <3>1 DEF Holds, UserHasPermission
  <2>4. UNCHANGED <<Owner, Valid, Spent>>
    BY <2>1, TokensAlone
  <2>5. Admission' = Admission
    BY <2>1 DEF Admission, Abstract
  <2>6. A!Boot(u)
    BY <2>2, <2>3, <2>4, <2>5 DEF A!Boot
  <2> QED  BY <2>1, <2>6 DEF A!Next
<1>5. CASE Exit
  <2>1. Blank'
    BY <1>5, ExitKeeps
  <2>2. /\ \A i \in Ids : userRoles'[i] = {}
        /\ \A t \in Tokens : tokens'[t].user = None
        /\ \A r \in Requests : req'[r] = NoRequest
    BY <2>1 DEF Blank
  <2>3. Owner' = [t \in Tokens |-> None] /\ Issued' = {}
    BY <2>2 DEF Owner, Issued
  <2>4. Valid' = {} /\ Spent' = {}
    BY <2>3 DEF Valid, Spent
  <2>5. Holds' = {}
    BY <2>2 DEF Holds, UserHasPermission
  <2>6. Admission' = [r \in Requests |-> A!Idle]
    <3>1. \A r \in Requests : Abstract(r)' = A!Idle
      BY <2>2, AbstractCasesNext
    <3> QED  BY <3>1 DEF Admission
  <2>7. A!Restart
    BY <2>3, <2>4, <2>5, <2>6 DEF A!Restart
  <2> QED  BY <2>7 DEF A!Next
<1> QED  BY <1>2, <1>3, <1>4, <1>5 DEF Seed

\* A node that has not started yet is an initial state of Access.
LEMMA InitRefines ==
  Init => A!Init
<1> SUFFICES ASSUME Init  PROVE A!Init
  OBVIOUS
<1>1. /\ \A i \in Ids : userRoles[i] = {}
      /\ \A t \in Tokens : tokens[t].user = None
      /\ \A r \in Requests : req[r].at = "idle"
  BY DEF Init, NoRequest
<1>2. Owner = [t \in Tokens |-> None] /\ Issued = {}
  BY <1>1 DEF Owner, Issued
<1>3. Valid = {} /\ Spent = {}
  BY <1>2 DEF Valid, Spent
<1>4. Holds = {}
  BY <1>1 DEF Holds, UserHasPermission
<1>5. Admission = [r \in Requests |-> A!Idle]
  <2>1. \A r \in Requests : Abstract(r) = A!Idle
    BY <1>1, AbstractCases
  <2> QED  BY <2>1 DEF Admission
<1> QED  BY <1>2, <1>3, <1>4, <1>5 DEF A!Init

\* Every step is a step of Access or leaves its state alone.
LEMMA StepRefines ==
  AuthInv /\ [Next]_vars => [A!Next]_(A!vars)
<1> SUFFICES ASSUME AuthInv, [Next]_vars  PROVE [A!Next]_(A!vars)
  OBVIOUS
<1>1. CASE Warm \/ Seed \/ Exit
  BY <1>1, StartupRefines
<1>2. ASSUME NEW r \in Requests, AuthHandler(r) \/ Middleware(r) \/ UserHandler(r)
      PROVE  [A!Next]_(A!vars)
  BY <1>2, LoginRefines, MiddlewareRefines, EndpointsRefine DEF AuthHandler
<1>3. ASSUME NEW t \in Tokens, ExpireToken(t)
      PROVE  [A!Next]_(A!vars)
  <2>1. tokens' = [tokens EXCEPT ![t].good = FALSE] /\ UNCHANGED <<mem, userRoles, byID, req>>
    BY <1>3 DEF ExpireToken, defVars
  <2>2. A!Withdraw
    BY <2>1, MarkedToken, Withdraws
  <2>3. Admission' = Admission
    BY <2>1 DEF Admission, Abstract
  <2>4. A!Expire
    BY <2>2, <2>3 DEF A!Expire
  <2> QED  BY <2>4 DEF A!Next
<1>4. CASE UNCHANGED vars
  <2>1. UNCHANGED <<tokens, byID, userRoles, mem, req>>
    BY <1>4 DEF vars, defVars
  <2>2. Admission' = Admission
    BY <2>1 DEF Admission, Abstract
  <2> QED  BY <2>1, <2>2, Stutters
<1> QED  BY <1>1, <1>2, <1>3, <1>4 DEF Next

\* Authentication and RBAC implement Access: the maps, the middleware and the loops
\* over roles let no request in without a token and a permission that were good
\* while it ran, bring no token back to life, and let only who may manage users
\* change what users may do.
THEOREM AuthImplementsAccess == Spec => ImplementsAccess
  BY AuthInvariant, InitRefines, StepRefines, PTL DEF Spec, ImplementsAccess, A!Spec

-----------------------------------------------------------------------------
(* The cameras.                                                            *)

\* The fields of a request.
CamFields == {"at", "id", "cam", "body", "result"}

\* The maps have an entry for every id, the requests their five fields.
CameraShapes ==
  /\ DOMAIN cameras = CamIDs /\ DOMAIN creds = CamIDs /\ DOMAIN call = Calls
  /\ \A r \in Calls : DOMAIN call[r] = CamFields

\* A camera that waits to be saved was made from the write of its request.
MadeFromWrite ==
  \A r \in Calls :
    call[r].at = "save" =>
      /\ call[r].id \in CamIDs /\ call[r].body \in Bodies
      /\ call[r].cam = newCam(applyDefaults(call[r].body), call[r].id)

\* The inductive invariant of the cameras.
CamerasInv == CameraShapes /\ MadeFromWrite /\ CredentialsFollowCamera /\ SecondCheckAgrees

\* applyDefaults fills in the endpoint and leaves the rest alone.
LEMMA DefaultsKeep ==
  ASSUME NEW b, DecodedWrite(b)
  PROVE  LET d == applyDefaults(b)
         IN  /\ d.identity = b.identity /\ d.site = b.site /\ d.profiles = b.profiles
             /\ d.notes = b.notes /\ d.credentials = b.credentials
  BY DEF applyDefaults, DecodedWrite

\* A profile with its id is checked as the one of the write.
LEMMA ProfilesAgree ==
  ASSUME NEW b, DecodedWrite(b), validateWriteProfiles(b.profiles)
  PROVE  validateProfiles(newProfiles(b.profiles))
<1> DEFINE ps == b.profiles
           qs == newProfiles(ps)
<1>1. /\ Len(ps) \in Nat /\ DOMAIN ps = 1 .. Len(ps)
      /\ \A k \in 1 .. Len(ps) :
           DOMAIN ps[k] = {"name", "path", "codec", "resolution", "bitrate", "framerate", "isDefault", "profileID"}
  BY DEF DecodedWrite
<1>2. qs = [k \in 1 .. Len(ps) |-> [ps[k] EXCEPT !.profileID = "v7"]]
  BY DEF newProfiles
<1> HIDE DEF ps, qs
<1>3. \A k \in 1 .. Len(ps) :
        /\ qs[k].name = ps[k].name /\ qs[k].path = ps[k].path /\ qs[k].codec = ps[k].codec
        /\ qs[k].resolution = ps[k].resolution /\ qs[k].bitrate = ps[k].bitrate
        /\ qs[k].framerate = ps[k].framerate /\ qs[k].isDefault = ps[k].isDefault
        /\ qs[k].profileID = "v7"
  BY <1>1, <1>2
<1>4. Len(qs) = Len(ps) /\ DOMAIN qs = 1 .. Len(ps)
  BY <1>1, <1>2
<1>5. validateWriteProfiles(ps)
  BY DEF ps
<1>6. qs # <<>>
  <2>1. Len(ps) # 0
    BY <1>1, <1>5 DEF validateWriteProfiles
  <2> QED  BY <1>4, <2>1
<1>7. ASSUME NEW k \in 1 .. Len(qs)  PROVE validateProfileFields(qs[k])
  <2>1. validateProfileFields(ps[k])
    BY <1>4, <1>5 DEF validateWriteProfiles
  <2>2. /\ qs[k].name = ps[k].name /\ qs[k].path = ps[k].path /\ qs[k].codec = ps[k].codec
        /\ qs[k].resolution = ps[k].resolution /\ qs[k].bitrate = ps[k].bitrate
        /\ qs[k].framerate = ps[k].framerate
    BY <1>3, <1>4
  <2> QED  BY <2>1, <2>2 DEF validateProfileFields
<1>8. \A j, k \in 1 .. Len(qs) : qs[j].name = qs[k].name => j = k
  BY <1>3, <1>4, <1>5 DEF validateWriteProfiles
<1>9. {k \in 1 .. Len(qs) : qs[k].isDefault} = {k \in 1 .. Len(ps) : ps[k].isDefault}
  BY <1>3, <1>4
<1>10. Cardinality({k \in 1 .. Len(qs) : qs[k].isDefault}) = 1
  BY <1>5, <1>9 DEF validateWriteProfiles
<1>11. validateProfiles(qs)
  BY <1>3, <1>4, <1>6, <1>7, <1>8, <1>10 DEF validateProfiles, validateWriteProfiles, validateUUIDV7
<1> QED  BY <1>11 DEF qs, ps

\* The second check finds nothing that the first has let pass.
LEMMA ChecksAgree ==
  ASSUME NEW b \in Bodies, NEW i \in CamIDs, CamWriteValid(applyDefaults(b)),
         b.credentials # Null => b.credentials.scheme # "none"
  PROVE  CamValid(newCam(applyDefaults(b), i))
<1> DEFINE d == applyDefaults(b)
           c == newCam(d, i)
<1>1. DecodedWrite(b)
  BY CamerasAssumption
<1>2. /\ d.identity = b.identity /\ d.site = b.site /\ d.profiles = b.profiles
      /\ d.notes = b.notes /\ d.credentials = b.credentials
  BY <1>1, DefaultsKeep
<1>3. CamWriteValid(d)
  OBVIOUS
<1>4. c = [camID |-> "v7", tenantID |-> "v7", identity |-> d.identity, notes |-> d.notes,
           site |-> newSite(d.site), endpoint |-> d.endpoint,
           profiles |-> newProfiles(d.profiles), health |-> newHealth,
           credentials |-> IF d.credentials = Null THEN Null ELSE newCredentials(d.credentials, i)]
  BY DEF newCam
<1> HIDE DEF d, c
<1>5. /\ c.camID = "v7" /\ c.tenantID = "v7" /\ c.identity = d.identity /\ c.notes = d.notes
      /\ c.site = newSite(d.site) /\ c.endpoint = d.endpoint /\ c.profiles = newProfiles(d.profiles)
      /\ c.health = newHealth
      /\ c.credentials = IF d.credentials = Null THEN Null ELSE newCredentials(d.credentials, i)
  BY <1>4
<1>6. SiteValid(c.site)
  <2>1. DOMAIN d.site = {"site", "group", "labels"} /\ SiteValid(d.site)
    BY <1>1, <1>2, <1>3 DEF DecodedWrite, CamWriteValid
  <2>2. newSite(d.site).site = "v7" /\ newSite(d.site).group = d.site.group /\ newSite(d.site).labels = d.site.labels
    BY <2>1 DEF newSite, SiteValid, validateUUIDV7
  <2> QED  BY <1>5, <2>1, <2>2 DEF SiteValid, validateUUIDV7
<1>7. validateProfiles(c.profiles)
  BY <1>1, <1>2, <1>3, <1>5, ProfilesAgree DEF CamWriteValid
<1>8. HealthValid(c.health)
  <2>1. validateTrimmedString(NodeID, 1, 0)
    BY CamerasAssumption
  <2>2. /\ newHealth.status = "unknown" /\ newHealth.probeID = "v7" /\ newHealth.cadence = 30000
        /\ newHealth.owner = NodeID /\ newHealth.failures = 0
    BY DEF newHealth
  <2>3. validateUUIDV7(newHealth.probeID) /\ validateTrimmedString(newHealth.owner, 1, 0)
    BY <2>1, <2>2 DEF validateUUIDV7
  <2>4. newHealth.cadence >= 5000 /\ newHealth.cadence <= 600000 /\ newHealth.failures >= 0
    BY <2>2
  <2> QED  BY <1>5, <2>2, <2>3, <2>4 DEF HealthValid
<1>9. c.credentials # Null => CamCredentialsValid(c.credentials)
  <2> SUFFICES ASSUME c.credentials # Null  PROVE CamCredentialsValid(c.credentials)
    OBVIOUS
  <2>1. d.credentials # Null /\ c.credentials = newCredentials(d.credentials, i)
    BY <1>5
  <2>2. CamCredentialsWriteValid(d.credentials) /\ d.credentials.scheme # "none" /\ i # Null
    BY <1>2, <1>3, <2>1, CamerasAssumption DEF CamWriteValid
  <2> QED  BY <2>1, <2>2 DEF CamCredentialsWriteValid, CamCredentialsValid, newCredentials
<1>10. IdentityValid(c.identity) /\ EndpointValid(c.endpoint) /\ c.notes <= 2000
  BY <1>3, <1>5 DEF CamWriteValid
<1>11. CamValid(c)
  BY <1>5, <1>6, <1>7, <1>8, <1>9, <1>10 DEF CamValid, validateUUIDV7
<1> QED  BY <1>11 DEF c, d

\* At the start there are no cameras, no secrets and no requests.
LEMMA CamerasInit == ASSUME CameraInit PROVE CamerasInv
  BY CamerasAssumption DEF CameraInit, CamerasInv, CameraShapes, CamFields, MadeFromWrite, CredentialsFollowCamera, SecondCheckAgrees, NoCall

\* A request is given a new record; the maps may change where the hypotheses say.
LEMMA CamRequestStep ==
  ASSUME CameraShapes, MadeFromWrite, SecondCheckAgrees, NEW r \in Calls, NEW q,
         call' = [call EXCEPT ![r] = q], DOMAIN q = CamFields,
         q.at = "save" => /\ q.id \in CamIDs /\ q.body \in Bodies
                          /\ q.cam = newCam(applyDefaults(q.body), q.id),
         /\ q.body # Null /\ q.result = "invalid"
         /\ q.body.credentials # Null => q.body.credentials.scheme # "none"
         => ~CamWriteValid(applyDefaults(q.body))
  PROVE  /\ DOMAIN call' = Calls /\ \A s \in Calls : DOMAIN call'[s] = CamFields
         /\ MadeFromWrite' /\ SecondCheckAgrees'
<1>1. DOMAIN call' = Calls /\ call'[r] = q /\ \A s \in Calls \ {r} : call'[s] = call[s]
  BY DEF CameraShapes
<1>2. \A s \in Calls : DOMAIN call'[s] = CamFields
  BY <1>1 DEF CameraShapes
<1>3. MadeFromWrite'
  BY <1>1 DEF MadeFromWrite
<1>4. SecondCheckAgrees'
  BY <1>1 DEF SecondCheckAgrees
<1> QED  BY <1>1, <1>2, <1>3, <1>4

\* Create refuses a write for what the first check finds, or hands on the camera made from it.
LEMMA CreateStep ==
  ASSUME CamerasInv, NEW r \in Calls, NEW body \in Bodies, Create(r, body)
  PROVE  CamerasInv'
<1> DEFINE b == applyDefaults(body)
<1>1. /\ CameraShapes /\ MadeFromWrite /\ SecondCheckAgrees /\ CredentialsFollowCamera
      /\ UNCHANGED <<cameras, creds>>
  BY DEF CamerasInv, Create
<1>2. CredentialsFollowCamera' /\ DOMAIN cameras' = CamIDs /\ DOMAIN creds' = CamIDs
  BY <1>1 DEF CredentialsFollowCamera, CameraShapes
<1>3. CASE ~CamWriteValid(b) /\ call' = [call EXCEPT ![r] = [NoCall EXCEPT !.at = "answered", !.body = body, !.result = "invalid"]]
  <2> DEFINE q == [NoCall EXCEPT !.at = "answered", !.body = body, !.result = "invalid"]
  <2>1. DOMAIN q = CamFields /\ q.at = "answered" /\ q.body = body
    BY DEF NoCall, CamFields
  <2>2. call' = [call EXCEPT ![r] = q]
    BY <1>3
  <2> HIDE DEF q
  <2>3. ~CamWriteValid(applyDefaults(q.body))
    BY <1>3, <2>1
  <2> QED  BY <1>1, <1>2, <2>1, <2>2, <2>3, CamRequestStep DEF CamerasInv, CameraShapes
<1>4. ASSUME CamWriteValid(b), NEW i \in CamIDs,
             call' = [call EXCEPT ![r] =
                       [at |-> IF CamValid(newCam(b, i)) THEN "save" ELSE "answered", id |-> i,
                        cam |-> IF CamValid(newCam(b, i)) THEN newCam(b, i) ELSE Null,
                        body |-> body, result |-> IF CamValid(newCam(b, i)) THEN Null ELSE "invalid"]]
      PROVE  CamerasInv'
  <2> DEFINE cam == newCam(b, i)
             q == [at |-> IF CamValid(cam) THEN "save" ELSE "answered", id |-> i,
                   cam |-> IF CamValid(cam) THEN cam ELSE Null,
                   body |-> body, result |-> IF CamValid(cam) THEN Null ELSE "invalid"]
  <2>1. call' = [call EXCEPT ![r] = q]
    BY <1>4
  <2>2. /\ DOMAIN q = CamFields /\ q.at = IF CamValid(cam) THEN "save" ELSE "answered"
        /\ q.id = i /\ q.body = body /\ q.cam = IF CamValid(cam) THEN cam ELSE Null
        /\ q.result = IF CamValid(cam) THEN Null ELSE "invalid"
    BY DEF CamFields
  <2>3. (body.credentials # Null => body.credentials.scheme # "none") => CamValid(cam)
    BY <1>4, ChecksAgree
  <2> HIDE DEF q, cam
  <2>4. q.at = "save" => q.cam = newCam(applyDefaults(q.body), q.id)
    BY <2>2 DEF cam
  <2>5. ~(/\ q.body # Null /\ q.result = "invalid"
          /\ q.body.credentials # Null => q.body.credentials.scheme # "none")
    BY <2>2, <2>3, CamerasAssumption
  <2> QED  BY <1>1, <1>2, <2>1, <2>2, <2>4, <2>5, CamRequestStep DEF CamerasInv, CameraShapes
<1> QED  BY <1>3, <1>4 DEF Create

\* A request that is answered without a write of its own.
LEMMA PlainAnswer ==
  ASSUME CamerasInv, NEW r \in Calls, NEW q, call' = [call EXCEPT ![r] = q],
         DOMAIN q = CamFields, q.at # "save", q.body = Null,
         DOMAIN cameras' = CamIDs, DOMAIN creds' = CamIDs, CredentialsFollowCamera'
  PROVE  CamerasInv'
<1>1. CameraShapes /\ MadeFromWrite /\ SecondCheckAgrees
  BY DEF CamerasInv
<1> QED  BY <1>1, CamRequestStep DEF CamerasInv, CameraShapes

\* Get reads.
LEMMA GetStep ==
  ASSUME CamerasInv, NEW r \in Calls, NEW i \in CamIDs, Get(r, i)
  PROVE  CamerasInv'
<1> DEFINE q == [NoCall EXCEPT !.at = "answered", !.cam = cameras[i], !.result = FoundOr404(i, "found")]
<1>1. call' = [call EXCEPT ![r] = q] /\ UNCHANGED <<cameras, creds>>
  BY DEF Get
<1>2. DOMAIN q = CamFields /\ q.at = "answered" /\ q.body = Null
  BY DEF NoCall, CamFields
<1> HIDE DEF q
<1>3. DOMAIN cameras' = CamIDs /\ DOMAIN creds' = CamIDs /\ CredentialsFollowCamera'
  BY <1>1 DEF CamerasInv, CameraShapes, CredentialsFollowCamera
<1> QED  BY <1>1, <1>2, <1>3, PlainAnswer

\* Delete takes a camera and its secret out of their maps together.
LEMMA DeleteStep ==
  ASSUME CamerasInv, NEW r \in Calls, NEW i \in CamIDs, Delete(r, i)
  PROVE  CamerasInv'
<1> DEFINE q == [NoCall EXCEPT !.at = "answered", !.result = FoundOr404(i, "deleted")]
<1>1. /\ call' = [call EXCEPT ![r] = q]
      /\ \/ UNCHANGED <<cameras, creds>>
         \/ cameras' = [cameras EXCEPT ![i] = Null] /\ creds' = [creds EXCEPT ![i] = Null]
  BY DEF Delete
<1>2. DOMAIN q = CamFields /\ q.at = "answered" /\ q.body = Null
  BY DEF NoCall, CamFields
<1> HIDE DEF q
<1>3. DOMAIN cameras' = CamIDs /\ DOMAIN creds' = CamIDs /\ CredentialsFollowCamera'
  BY <1>1 DEF CamerasInv, CameraShapes, CredentialsFollowCamera
<1> QED  BY <1>1, <1>2, <1>3, PlainAnswer

\* The next request of a client has no write yet.
LEMMA NextRequestStep ==
  ASSUME CamerasInv, NEW r \in Calls, NextCall(r)
  PROVE  CamerasInv'
<1>1. call' = [call EXCEPT ![r] = NoCall] /\ UNCHANGED <<cameras, creds>>
  BY DEF NextCall
<1>2. DOMAIN NoCall = CamFields /\ NoCall.at = "idle" /\ NoCall.body = Null
  BY DEF NoCall, CamFields
<1>3. DOMAIN cameras' = CamIDs /\ DOMAIN creds' = CamIDs /\ CredentialsFollowCamera'
  BY <1>1 DEF CamerasInv, CameraShapes, CredentialsFollowCamera
<1> QED  BY <1>1, <1>2, <1>3, PlainAnswer

\* Save puts the camera and its secret into their maps together.
LEMMA SaveStep ==
  ASSUME CamerasInv, NEW r \in Calls, Save(r)
  PROVE  CamerasInv'
<1> DEFINE i == call[r].id
           c == call[r].cam
           w == call[r].body.credentials
<1>1. /\ CameraShapes /\ MadeFromWrite /\ SecondCheckAgrees /\ CredentialsFollowCamera /\ call[r].at = "save"
  BY DEF CamerasInv, Save
<1>2. i \in CamIDs /\ call[r].body \in Bodies /\ c = newCam(applyDefaults(call[r].body), i)
  BY <1>1 DEF MadeFromWrite
<1>3. c # Null /\ c.credentials = IF w = Null THEN Null ELSE newCredentials(w, i)
  <2>1. DecodedWrite(call[r].body) /\ c # Null
    BY <1>2, CamerasAssumption
  <2>2. applyDefaults(call[r].body).credentials = w
    BY <2>1, DefaultsKeep
  <2> QED  BY <1>2, <2>1, <2>2 DEF newCam
<1>4. w # Null => newCredentials(w, i) # Null
  BY <1>2, <1>3, CamerasAssumption
<1>5. DOMAIN cameras' = CamIDs /\ DOMAIN creds' = CamIDs /\ CredentialsFollowCamera'
  <2>1. CASE UNCHANGED <<cameras, creds>>
    BY <1>1, <2>1 DEF CameraShapes, CredentialsFollowCamera
  <2>2. CASE /\ cameras[i] = Null /\ cameras' = [cameras EXCEPT ![i] = c]
             /\ creds' = IF w = Null THEN creds ELSE [creds EXCEPT ![i] = w]
    <3>1. DOMAIN cameras' = CamIDs /\ DOMAIN creds' = CamIDs
      BY <1>1, <2>2 DEF CameraShapes
    <3>2. \A j \in CamIDs \ {i} : cameras'[j] = cameras[j] /\ creds'[j] = creds[j]
      BY <1>1, <2>2 DEF CameraShapes
    <3>3. creds[i] = Null
      BY <1>1, <1>2, <2>2 DEF CredentialsFollowCamera
    <3>4. cameras'[i] = c /\ creds'[i] = w
      BY <1>1, <1>2, <2>2, <3>3 DEF CameraShapes
    <3>5. /\ newCredentials(w, i).ref = i /\ newCredentials(w, i).scheme = w.scheme
          /\ newCredentials(w, i).username = w.username
      BY DEF newCredentials
    <3> HIDE DEF i, c, w
    <3>6. IF cameras'[i] = Null \/ cameras'[i].credentials = Null THEN creds'[i] = Null
          ELSE /\ creds'[i] # Null /\ cameras'[i].credentials.ref = i
               /\ creds'[i].scheme = cameras'[i].credentials.scheme
               /\ creds'[i].username = cameras'[i].credentials.username
      BY <1>3, <1>4, <3>4, <3>5
    <3> QED  BY <1>1, <3>1, <3>2, <3>6 DEF CredentialsFollowCamera
  <2> QED  BY <2>1, <2>2 DEF Save
<1>6. PICK out \in {"error", "created"} : call' = [call EXCEPT ![r].at = "answered", ![r].result = out]
  BY DEF Save, Answer
<1> DEFINE q == [call[r] EXCEPT !.at = "answered", !.result = out]
<1>7. call' = [call EXCEPT ![r] = q]
  BY <1>1, <1>6 DEF CameraShapes
<1>8. DOMAIN q = CamFields /\ q.at = "answered" /\ q.result = out
  BY <1>1 DEF CameraShapes, CamFields
<1> HIDE DEF q
<1>9. q.at # "save" /\ q.result # "invalid"
  BY <1>8
<1> QED  BY <1>1, <1>5, <1>7, <1>8, <1>9, CamRequestStep DEF CamerasInv, CameraShapes

\* The inductive invariant of the registry of cameras: what is about to be saved was made from the write of
\* its request, so that the two maps and the two checks can be compared with it.
THEOREM CamerasInvariant == CameraSpec => []CamerasInv
<1>1. CameraInit => CamerasInv
  BY CamerasInit
<1>2. CamerasInv /\ [CameraNext]_cameraVars => CamerasInv'
  <2> SUFFICES ASSUME CamerasInv, [CameraNext]_cameraVars  PROVE CamerasInv'
    OBVIOUS
  <2>1. CASE UNCHANGED cameraVars
    BY <2>1 DEF cameraVars, CamerasInv, CameraShapes, MadeFromWrite, CredentialsFollowCamera, SecondCheckAgrees
  <2>2. CASE CameraNext
    BY <2>2, CreateStep, SaveStep, NextRequestStep, GetStep, DeleteStep DEF CameraNext
  <2> QED  BY <2>1, <2>2
<1> QED  BY <1>1, <1>2, PTL DEF CameraSpec

\* For any writes, ids and requests: Store keeps a password exactly for the cameras
\* whose credentials refer to one, for the same user, however Create, which checks
\* before it takes the lock, interleaves with other creates and deletes.
THEOREM SecretsFollowCameras == CameraSpec => []CredentialsFollowCamera
<1>1. CamerasInv => CredentialsFollowCamera
  BY DEF CamerasInv
<1> QED  BY <1>1, CamerasInvariant, PTL

\* For any writes: what CamWrite.Validate lets pass after applyDefaults, Cam.Validate
\* lets pass too when the camera is made from it, unless the scheme is none.
THEOREM ChecksStayInAgreement == CameraSpec => []SecondCheckAgrees
<1>1. CamerasInv => SecondCheckAgrees
  BY DEF CamerasInv
<1> QED  BY <1>1, CamerasInvariant, PTL
=============================================================================
