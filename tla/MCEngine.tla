------------------------------ MODULE MCEngine ------------------------------
(* Two callers of EnsureStream and two pulls of one key: one that is       *)
(* stopped, and its successor, which starts while the first still is there.*)
EXTENDS Engine
=============================================================================
