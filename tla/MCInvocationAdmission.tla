------------------------- MODULE MCInvocationAdmission -------------------------
(***************************************************************************)
(* Three parents that compete for one pool, one of them with two turns.  A *)
(* parent with one turn is named by its lease.                             *)
(***************************************************************************)
EXTENDS InvocationAdmissionProperties, TLC

CONSTANTS a, a1, a2, b1, b2

MCOwnerOf == [l \in Lease |-> IF l \in {a1, a2} THEN a ELSE l]
MCSymmetry == Permutations({a1, a2}) \union Permutations({b1, b2})
=============================================================================
