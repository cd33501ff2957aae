------------------------------- MODULE MCAuth -------------------------------
\* Small instances of authentication for TLC.
EXTENDS Auth, TLC
Seeds == [r \in Roles |-> IF r = Admin THEN Perms ELSE {View}]
Symmetry == Permutations(Requests) \cup Permutations(Tokens) \cup Permutations(Ids)
=============================================================================
