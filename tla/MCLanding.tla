----------------------------- MODULE MCLanding -----------------------------
(* Landing with two cards whose scopes share the chronicle.                *)
EXTENDS Landing

CONSTANTS r1, r2, a, b, chronicle

OwnScope == [r \in {r1, r2} |-> IF r = r1 THEN {a, chronicle} ELSE {b, chronicle}]
=============================================================================
