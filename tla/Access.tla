------------------------------- MODULE Access -------------------------------
(***************************************************************************)
(* What authentication and access control promise a protected endpoint,    *)
(* whatever maps, locks and loops there are behind it.                     *)
(*   - A request gets in with a token that was valid at one moment and a   *)
(*     permission that its user held at a later one.                       *)
(*   - A token that has lost its validity never has it again.              *)
(*   - Permissions change one user at a time, and only under a request     *)
(*     that got in with the permission to manage users, or at the start.   *)
(***************************************************************************)
CONSTANTS Tokens, Users, Perms, Manage, Requests, None

VARIABLES
  owner,  \* the user of each token that was issued
  valid,  \* the tokens that are valid
  spent,  \* the tokens that were
  holds,  \* who has which permission
  req     \* each request: where it is, its user, the permission it needs

vars == <<owner, valid, spent, holds, req>>
Idle == [at |-> "idle", user |-> None, perm |-> None]

Init ==
  /\ owner = [t \in Tokens |-> None]
  /\ valid = {} /\ spent = {} /\ holds = {}
  /\ req = [r \in Requests |-> Idle]

\* A token is issued; if its user is gone by then, it is spent from the start.
Issue(t, u) ==
  /\ t \notin valid \cup spent
  /\ owner' = [owner EXCEPT ![t] = u]
  /\ \/ valid' = valid \cup {t} /\ UNCHANGED spent
     \/ spent' = spent \cup {t} /\ UNCHANGED valid
  /\ UNCHANGED <<holds, req>>

\* Tokens lose their validity: they expire, are logged out, or their user is gone.
Withdraw ==
  /\ valid' \subseteq valid
  /\ spent' = spent \cup (valid \ valid')
  /\ UNCHANGED <<owner, holds>>
Expire == Withdraw /\ UNCHANGED req

Authenticate(r, t, p) ==
  /\ req[r] = Idle
  /\ t \in valid
  /\ req' = [req EXCEPT ![r] = [at |-> "authenticated", user |-> owner[t], perm |-> p]]
  /\ UNCHANGED <<owner, valid, spent, holds>>

Admit(r) ==
  /\ req[r].at = "authenticated"
  /\ req[r].perm # None => <<req[r].user, req[r].perm>> \in holds
  /\ req' = [req EXCEPT ![r] = [at |-> "admitted", user |-> None, perm |-> req[r].perm]]
  /\ UNCHANGED <<owner, valid, spent, holds>>

\* One user's permissions change.
Govern(r, u) ==
  /\ req[r].perm = Manage
  /\ \A h \in (holds \ holds') \cup (holds' \ holds) : h[1] = u
  /\ UNCHANGED <<owner, valid, spent>>

Ends(r) == req' = [req EXCEPT ![r] = Idle]

\* A request that got in acts, and may end with that.
Act(r) ==
  /\ req[r].at = "admitted"
  /\ UNCHANGED req \/ Ends(r)
  /\ Withdraw \/ \E u \in Users : Govern(r, u)

Finish(r) ==
  /\ Ends(r)
  /\ UNCHANGED <<owner, valid, spent, holds>>

\* The process starts again, with nothing but what it gives its first user.
Restart ==
  /\ owner' = [t \in Tokens |-> None]
  /\ valid' = {} /\ spent' = {} /\ holds' = {}
  /\ req' = [r \in Requests |-> Idle]
Boot(u) ==
  /\ holds = {} /\ valid \cup spent = {}
  /\ holds' \subseteq {u} \X Perms
  /\ UNCHANGED <<owner, valid, spent, req>>

Next ==
  \/ \E t \in Tokens, u \in Users : Issue(t, u)
  \/ \E r \in Requests :
       \/ \E t \in Tokens, p \in Perms \cup {None} : Authenticate(r, t, p)
       \/ Admit(r) \/ Act(r) \/ Finish(r)
  \/ Expire \/ Restart
  \/ \E u \in Users : Boot(u)

Spec == Init /\ [][Next]_vars
=============================================================================
