----------------------------- MODULE MCSsoSession -----------------------------
(* Small instances of SsoSession: a write and a user's read. *)
EXTENDS SsoSession

CONSTANTS w1, u1, c1

\* write_upstream goes before everything else.
PriorityDef == [r \in Requests |-> IF r = w1 THEN 0 ELSE 1]

=============================================================================
