---------------------------- MODULE SingleFlight ----------------------------
(***************************************************************************)
(* What an idempotency store promises its callers, whatever maps, channels *)
(* and clocks there are behind it.                                         *)
(*   - A key's producer is let go only when none runs for the key and no   *)
(*     response of it is on offer, and nothing takes its turn from it.     *)
(*   - A success is on offer from the moment its producer's call returns;  *)
(*     a failure is the producer's own and leaves the key free.            *)
(*   - Who does not produce is given the response that is on offer when it *)
(*     is answered.                                                        *)
(***************************************************************************)
CONSTANTS Requests, Keys, KeyOf, NoKey, None

VARIABLES
  running,  \* for each key, the request whose producer runs
  current,  \* for each key, the request whose response is on offer
  at,       \* where each request is
  outcome,  \* what its own producer returned
  answer    \* whose response it was given

vars == <<running, current, at, outcome, answer>>

Init ==
  /\ running = [k \in Keys |-> None] /\ current = [k \in Keys |-> None]
  /\ at = [r \in Requests |-> "calling"]
  /\ outcome = [r \in Requests |-> "none"]
  /\ answer = [r \in Requests |-> None]

\* Responses may lapse: they have expired, or there are too many.
Lapse == \A k \in Keys : current'[k] \in {current[k], None}
Forget == Lapse /\ UNCHANGED <<running, at, outcome, answer>>

Answered(r, s) ==
  /\ answer' = [answer EXCEPT ![r] = s]
  /\ at' = [at EXCEPT ![r] = "answered"]

\* A request without a key has its producer to itself.
Alone(r) ==
  /\ at[r] = "calling" /\ KeyOf[r] = NoKey
  /\ \E o \in {"ok", "err"} : outcome' = [outcome EXCEPT ![r] = o]
  /\ Answered(r, r)
  /\ UNCHANGED <<running, current>>

Begin(r) ==
  /\ at[r] = "calling" /\ KeyOf[r] \in Keys
  /\ running[KeyOf[r]] = None
  /\ Lapse /\ current'[KeyOf[r]] = None
  /\ running' = [running EXCEPT ![KeyOf[r]] = r]
  /\ at' = [at EXCEPT ![r] = "producing"]
  /\ UNCHANGED <<outcome, answer>>

Produced(r) ==
  /\ at[r] = "producing" /\ outcome[r] = "none"
  /\ \E o \in {"ok", "err"} : outcome' = [outcome EXCEPT ![r] = o]
  /\ UNCHANGED <<running, current, at, answer>>

Settle(r) ==
  /\ at[r] = "producing" /\ running[KeyOf[r]] = r
  /\ running' = [running EXCEPT ![KeyOf[r]] = None]
  /\ \/ outcome[r] = "ok" /\ current' = [current EXCEPT ![KeyOf[r]] = r]
     \/ outcome[r] = "err" /\ UNCHANGED current
  /\ Answered(r, r)
  /\ UNCHANGED outcome

Replay(r) ==
  /\ at[r] = "calling" /\ KeyOf[r] \in Keys
  /\ Lapse /\ current'[KeyOf[r]] # None
  /\ Answered(r, current'[KeyOf[r]])
  /\ UNCHANGED <<running, outcome>>

GiveUp(r) ==
  /\ at[r] = "calling"
  /\ at' = [at EXCEPT ![r] = "gone"]
  /\ UNCHANGED <<running, current, outcome, answer>>

Next ==
  \/ Forget
  \/ \E r \in Requests : Alone(r) \/ Begin(r) \/ Produced(r) \/ Settle(r) \/ Replay(r) \/ GiveUp(r)

Spec == Init /\ [][Next]_vars
=============================================================================
