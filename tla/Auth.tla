-------------------------------- MODULE Auth --------------------------------
(***************************************************************************)
(* Users, tokens, roles and permissions of one node.                       *)
(*   internal/auth/service.go        SeedRBAC, SeedAdmin, Login,           *)
(*                                   ValidateToken, Logout, CreateUser,    *)
(*                                   DeleteUser, UpdateUserRoles           *)
(*   internal/auth/store.go          users and tokens, in memory           *)
(*   internal/auth/rbac_*.go         roles and permissions, in memory and, *)
(*                                   written through, in Redis             *)
(*   internal/auth/middleware.go     Middleware, RequirePermission         *)
(*   internal/api/user_handler.go    the endpoints                         *)
(* Memory goes with the process, Redis stays.  A write to Redis may fail;  *)
(* the reads at startup succeed.  The user roles in Redis are written and  *)
(* never read back, so they are left out.  A user id is never drawn twice  *)
(* while the process runs; nothing refers to an id of an earlier run.      *)
(***************************************************************************)
EXTENDS FiniteSets

CONSTANTS
  Ids, Names, Tokens, Requests,
  Perms, Roles,
  RoleSeeds,       \* the permissions of each role, as SeedRBAC lists them
  Admin, Manage, View, \* the role admin, the permissions user:manage and camera:view
  AdminName, None

ASSUME AuthAssumption ==
  /\ RoleSeeds \in [Roles -> SUBSET Perms] /\ Admin \in Roles
  /\ {Manage, View} \subseteq Perms /\ AdminName \in Names
  /\ None \notin Ids \cup Names \cup Tokens \cup Perms \cup Roles

VARIABLES
  phase,      \* main: "down", "perms", "roles", "assign", "serving"
  seeding,    \* the role SeedRBAC has just saved, and what it still has to grant
  redis, mem, \* the definitions: [perms, roles, grants]
  userRoles,  \* InMemRBACStore.userRoles
  users,      \* Store.users: the id of each name
  byID,       \* Store.byID: the name of each id
  drawn,      \* ids that were drawn
  tokens,     \* Store.tokens: the user and whether the token is good
  req         \* the requests

defVars == <<phase, seeding, redis, mem>>
vars == <<defVars, userRoles, users, byID, drawn, tokens, req>>

NoDefs == [perms |-> {}, roles |-> {}, grants |-> {}]
NoRequest == [at |-> "idle", op |-> None, token |-> None, user |-> None, live |-> FALSE,
              name |-> None, target |-> None, todo |-> {}, new |-> {}]

\* The permission that each operation requires.
Needs == [view |-> View, create |-> Manage, delete |-> Manage, update |-> Manage, logout |-> None]

Init ==
  /\ phase = "down" /\ seeding = {}
  /\ redis = NoDefs /\ mem = NoDefs
  /\ userRoles = [i \in Ids |-> {}]
  /\ users = [n \in Names |-> None] /\ byID = [i \in Ids |-> None] /\ drawn = {}
  /\ tokens = [t \in Tokens |-> [user |-> None, good |-> FALSE]]
  /\ req = [r \in Requests |-> NoRequest]

-----------------------------------------------------------------------------
\* What RedisRBACStore reads back: the grants of a role by their permissions' names.
ListPermissions == redis.perms
ListRoles == redis.roles
RolePermissionNames(r) == {p \in redis.perms : <<r, p>> \in redis.grants}

\* main: WarmFrom copies the definitions from Redis, role by role; what is not
\* reached from a role of the list is not copied.
Warm ==
  /\ phase = "down"
  /\ mem' = [perms |-> ListPermissions, roles |-> ListRoles,
             grants |-> {g \in ListRoles \X ListPermissions : g[2] \in RolePermissionNames(g[1])}]
  /\ phase' = "perms"
  /\ UNCHANGED <<seeding, redis, userRoles, users, byID, drawn, tokens, req>>

\* What both stores do with a permission, a role and a grant that they save.
AddPermission(d, p) == [d EXCEPT !.perms = @ \cup {p}]
AddRole(d, r) == [d EXCEPT !.roles = @ \cup {r}]
Grant(d, g) == [d EXCEPT !.grants = @ \cup {g}]

\* The layered store writes to Redis, then to memory.
WriteThrough(inRedis, inMem) == redis' = inRedis /\ mem' = inMem

\* Store.AddUser, where the name is free.
PutUser(n, i) ==
  /\ users[n] = None
  /\ users' = [users EXCEPT ![n] = i]
  /\ byID' = [byID EXCEPT ![i] = n]

\* The in-memory store's user roles.
UserRoles(i) == userRoles[i] \cap mem.roles
AssignRoleToUser(i, x) == x \in mem.roles /\ userRoles' = [userRoles EXCEPT ![i] = @ \cup {x}]
RemoveRoleFromUser(i, x) == userRoles' = [userRoles EXCEPT ![i] = @ \ {x}]

\* SeedRBAC: the permissions that are missing ...
SavePermission(p) ==
  /\ phase = "perms" /\ p \notin mem.perms
  /\ WriteThrough(AddPermission(redis, p), AddPermission(mem, p))
  /\ UNCHANGED <<phase, seeding, userRoles, users, byID, drawn, tokens, req>>

\* ... then each role that is missing, with its permissions; a role that is there
\* is skipped with all that belongs to it ...
SaveRole(r) ==
  /\ phase \in {"perms", "roles"} /\ Perms \subseteq mem.perms /\ seeding = {}
  /\ r \notin mem.roles
  /\ WriteThrough(AddRole(redis, r), AddRole(mem, r))
  /\ seeding' = {<<r, p>> : p \in RoleSeeds[r]}
  /\ phase' = "roles"
  /\ UNCHANGED <<userRoles, users, byID, drawn, tokens, req>>
AssignPermissionToRole(g) ==
  /\ phase = "roles" /\ g \in seeding
  /\ WriteThrough(Grant(redis, g), Grant(mem, g))
  /\ seeding' = seeding \ {g}
  /\ UNCHANGED <<phase, userRoles, users, byID, drawn, tokens, req>>

\* ... and SeedAdmin: the user, then the role.
SeedAdminUser ==
  /\ phase \in {"perms", "roles"} /\ seeding = {}
  /\ Perms \subseteq mem.perms /\ Roles \subseteq mem.roles
  /\ \E i \in Ids \ drawn : PutUser(AdminName, i) /\ drawn' = {i}
  /\ phase' = "assign"
  /\ UNCHANGED <<seeding, redis, mem, userRoles, tokens, req>>
SeedAdminRole ==
  /\ phase = "assign"
  /\ AssignRoleToUser(users[AdminName], Admin)
  /\ phase' = "serving"
  /\ UNCHANGED <<seeding, redis, mem, users, byID, drawn, tokens, req>>

\* The process ends: it crashes, or a write of the seeds fails and main gives up.
Exit ==
  /\ phase # "down" /\ phase' = "down"
  /\ seeding' = {} /\ mem' = NoDefs
  /\ userRoles' = [i \in Ids |-> {}]
  /\ users' = [n \in Names |-> None] /\ byID' = [i \in Ids |-> None] /\ drawn' = {}
  /\ tokens' = [t \in Tokens |-> [user |-> None, good |-> FALSE]]
  /\ req' = [r \in Requests |-> NoRequest]
  /\ UNCHANGED redis

-----------------------------------------------------------------------------
UserHasPermission(i, p) == \E r \in userRoles[i] : <<r, p>> \in mem.grants
To(r, at) == req' = [req EXCEPT ![r].at = at]
Return(r) == req' = [req EXCEPT ![r] = NoRequest]

\* Login: the user is found and the password right; a login that fails does nothing.
Login(r, n) ==
  /\ phase = "serving" /\ req[r].at = "idle"
  /\ users[n] # None
  /\ req' = [req EXCEPT ![r] = [NoRequest EXCEPT !.at = "login", !.user = users[n]]]
  /\ UNCHANGED <<defVars, userRoles, users, byID, drawn, tokens>>

\* JWTService: a token is signed under a fresh id for a user; it is good until it
\* expires.  Store: whether it is there and not invalidated.
Issue(i) == [user |-> i, good |-> TRUE]
InvalidateToken(t) == tokens' = [tokens EXCEPT ![t].good = FALSE]
Verify(t) == tokens[t].good

\* The token is signed and saved, though the user may have been deleted meanwhile.
SaveToken(r) ==
  /\ req[r].at = "login"
  /\ \E t \in Tokens : tokens[t].user = None
                       /\ tokens' = [tokens EXCEPT ![t] = Issue(req[r].user)]
  /\ Return(r)
  /\ UNCHANGED <<defVars, userRoles, users, byID, drawn>>

\* The token expires.
ExpireToken(t) ==
  /\ Verify(t)
  /\ tokens' = [tokens EXCEPT ![t].good = FALSE]
  /\ UNCHANGED <<defVars, userRoles, users, byID, drawn, req>>

\* ValidateToken up to the expiry: the token is known, good and in time; live
\* records whether its user exists at this moment (history).
CheckToken(r, t, op) ==
  /\ phase = "serving" /\ req[r].at = "idle"
  /\ Verify(t)
  /\ req' = [req EXCEPT ![r] =
       [NoRequest EXCEPT !.at = "token", !.op = op, !.user = tokens[t].user,
                         !.token = IF op = "logout" THEN t ELSE None,
                         !.live = byID[tokens[t].user] # None]]
  /\ UNCHANGED <<defVars, userRoles, users, byID, drawn, tokens>>

\* A faulty ValidateToken that takes the token's word for its user.
GetUserTrusting(r) ==
  /\ req[r].at = "token"
  /\ To(r, "user")
  /\ UNCHANGED <<defVars, userRoles, users, byID, drawn, tokens>>

\* ... and its last part: the user is there.
GetUser(r) ==
  /\ req[r].at = "token"
  /\ IF byID[req[r].user] # None THEN To(r, "user") ELSE Return(r)
  /\ UNCHANGED <<defVars, userRoles, users, byID, drawn, tokens>>

\* RequirePermission, where the route has it; no handler asks who the user is.
RequirePermission(r) ==
  /\ req[r].at = "user"
  /\ LET p == Needs[req[r].op]
     IN  IF p = None \/ UserHasPermission(req[r].user, p)
           THEN req' = [req EXCEPT ![r].at = "run", ![r].user = None] ELSE Return(r)
  /\ UNCHANGED <<defVars, userRoles, users, byID, drawn, tokens>>

\* createLiveSessionV1, whose session is RelaySession's subject: nothing changes here.
View_(r) ==
  /\ req[r].at = "run" /\ req[r].op = "view"
  /\ Return(r)
  /\ UNCHANGED <<defVars, userRoles, users, byID, drawn, tokens>>

Logout(r) ==
  /\ req[r].at = "run" /\ req[r].op = "logout"
  /\ InvalidateToken(req[r].token)
  /\ Return(r)
  /\ UNCHANGED <<defVars, userRoles, users, byID, drawn>>

\* resolveRoles: the role is known.
resolveRoles(x) == x \in mem.roles

\* CreateUser: the name is free and the role known when it looks ...
CreateUser(r, n, x) ==
  /\ req[r].at = "run" /\ req[r].op = "create"
  /\ IF users[n] = None /\ resolveRoles(x)
       THEN req' = [req EXCEPT ![r].at = "add", ![r].name = n, ![r].new = {x}]
       ELSE Return(r)
  /\ UNCHANGED <<defVars, userRoles, users, byID, drawn, tokens>>

\* A faulty AddUser that relies on the look.
AddUserUnchecked(r) ==
  /\ req[r].at = "add"
  /\ \E i \in Ids \ drawn :
       /\ users' = [users EXCEPT ![req[r].name] = i]
       /\ byID' = [byID EXCEPT ![i] = req[r].name]
       /\ drawn' = drawn \cup {i}
       /\ req' = [req EXCEPT ![r].at = "assign", ![r].target = i, ![r].name = None]
  /\ UNCHANGED <<defVars, userRoles, tokens>>

\* ... and AddUser looks again, under the lock.
AddUser(r) ==
  /\ req[r].at = "add"
  /\ \/ users[req[r].name] # None /\ Return(r) /\ UNCHANGED <<users, byID, drawn>>
     \/ \E i \in Ids \ drawn :
          /\ PutUser(req[r].name, i)
          /\ drawn' = drawn \cup {i}
          /\ req' = [req EXCEPT ![r].at = "assign", ![r].target = i, ![r].name = None]
  /\ UNCHANGED <<defVars, userRoles, tokens>>

\* UpdateUserRoles: the user is there and the role known; the user's roles are read.
UpdateUserRoles(r, i, x) ==
  /\ req[r].at = "run" /\ req[r].op = "update"
  /\ IF byID[i] # None /\ resolveRoles(x)
       THEN req' = [req EXCEPT ![r].at = "strip", ![r].target = i,
                               ![r].todo = UserRoles(i), ![r].new = {x}]
       ELSE Return(r)
  /\ UNCHANGED <<defVars, userRoles, users, byID, drawn, tokens>>

\* DeleteUser: the roles are read first, whoever it is.
DeleteUser(r, i) ==
  /\ req[r].at = "run" /\ req[r].op = "delete"
  /\ req' = [req EXCEPT ![r].at = "strip", ![r].target = i, ![r].todo = UserRoles(i)]
  /\ UNCHANGED <<defVars, userRoles, users, byID, drawn, tokens>>

\* RemoveRoleFromUser for each role; an error of Redis leaves the role, and is ignored.
RemoveRole(r) ==
  /\ req[r].at = "strip" /\ req[r].todo # {}
  /\ \E x \in req[r].todo :
       /\ RemoveRoleFromUser(req[r].target, x) \/ UNCHANGED userRoles
       /\ req' = [req EXCEPT ![r].todo = @ \ {x}]
  /\ UNCHANGED <<defVars, users, byID, drawn, tokens>>
Stripped(r, op) == req[r].at = "strip" /\ req[r].todo = {} /\ req[r].op = op

\* AssignRoleToUser for each new role; an error ends the request.
AssignRole(r) ==
  /\ req[r].at = "assign" \/ Stripped(r, "update")
  /\ \/ \E x \in req[r].new :
          /\ AssignRoleToUser(req[r].target, x)
          /\ IF req[r].new = {x} THEN Return(r) ELSE req' = [req EXCEPT ![r].new = @ \ {x}]
     \/ Return(r) /\ UNCHANGED userRoles
  /\ UNCHANGED <<defVars, users, byID, drawn, tokens>>

\* Store.DeleteUser takes the user out of both maps.
DropUser(r) ==
  /\ Stripped(r, "delete")
  /\ LET i == req[r].target
     IN  IF byID[i] = None THEN UNCHANGED <<users, byID>>
         ELSE /\ users' = [users EXCEPT ![byID[i]] = None]
              /\ byID' = [byID EXCEPT ![i] = None]
  /\ Return(r)
  /\ UNCHANGED <<defVars, userRoles, drawn, tokens>>

Seed ==
  \/ \E p \in Perms : SavePermission(p)
  \/ \E r \in Roles : SaveRole(r)
  \/ \E g \in seeding : AssignPermissionToRole(g)
  \/ SeedAdminUser \/ SeedAdminRole

\* The endpoints of auth/handlers.go, the middleware, the endpoints of users.
AuthHandler(r) ==
  \/ \E n \in Names : Login(r, n)
  \/ SaveToken(r) \/ View_(r) \/ Logout(r)
Middleware(r) ==
  \/ \E t \in Tokens, op \in DOMAIN Needs : CheckToken(r, t, op)
  \/ GetUser(r) \/ RequirePermission(r)
UserHandler(r) ==
  \/ \E n \in Names, x \in Roles : CreateUser(r, n, x)
  \/ \E i \in Ids, x \in Roles : UpdateUserRoles(r, i, x)
  \/ \E i \in Ids : DeleteUser(r, i)
  \/ AddUser(r) \/ AssignRole(r) \/ RemoveRole(r) \/ DropUser(r)

Next ==
  \/ Warm \/ Seed \/ Exit
  \/ \E r \in Requests : AuthHandler(r) \/ Middleware(r) \/ UserHandler(r)
  \/ \E t \in Tokens : ExpireToken(t)

Spec == Init /\ [][Next]_vars

-----------------------------------------------------------------------------
\* The two maps of Store agree, so no two users have one name, however many
\* requests create and delete the same one.
StoreMapsAgree ==
  \A i \in Ids, n \in Names : byID[i] = n <=> users[n] = i

\* "Idempotent - safe to call on every startup" (service.go): when the node serves,
\* every role has the permissions that SeedRBAC lists for it.
SeedIsComplete ==
  phase = "serving" => \A r \in Roles : \A p \in RoleSeeds[r] : <<r, p>> \in mem.grants

-----------------------------------------------------------------------------
\* The abstract state: a token is valid while it is good and its user exists; a
\* request is authenticated from the moment its token was checked, if that held.
Issued == {t \in Tokens : tokens[t].user # None}
Owner == [t \in Tokens |-> tokens[t].user]
Valid == {t \in Issued : tokens[t].good /\ byID[tokens[t].user] # None}
Spent == Issued \ Valid
Holds == {h \in Ids \X Perms : UserHasPermission(h[1], h[2])}

Abstract(r) ==
  LET q == req[r]
      at == IF q.at \in {"token", "user"} THEN IF q.live THEN "authenticated" ELSE "idle"
            ELSE IF q.at \in {"idle", "login"} THEN "idle" ELSE "admitted"
  IN  IF at = "idle" THEN [at |-> "idle", user |-> None, perm |-> None]
      ELSE [at |-> at, user |-> q.user, perm |-> Needs[q.op]]

Admission == [r \in Requests |-> Abstract(r)]

A == INSTANCE Access WITH
       Users <- Ids, owner <- Owner, valid <- Valid, spent <- Spent, holds <- Holds, req <- Admission

\* The maps, the middleware and the loops over roles implement Access: no request
\* gets in without a token and a permission that were good while it ran, no token
\* comes back to life, and only who may manage users changes what users may do.
ImplementsAccess == A!Spec
=============================================================================
