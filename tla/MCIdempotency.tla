--------------------------- MODULE MCIdempotency ---------------------------
(* Two requests of one key that race, one of another key and one without   *)
(* a key, for a store with room for one.                                   *)
EXTENDS Idempotency

TwoKeys == [r \in Requests |-> CASE r \in {"r1", "r2"} -> "a" [] r = "r3" -> "b"
                                 [] OTHER -> NoKey]
=============================================================================
