------------------------------- MODULE PermitPool -------------------------------
(***************************************************************************)
(* What the invocation admission promises to the holders of leases, however *)
(* it queues them: a lease is active only while the process and its owner   *)
(* stay within their limits, and a suspended or released lease becomes      *)
(* active only through a resume of its own.                                 *)
(***************************************************************************)
EXTENDS Integers, FiniteSets

CONSTANTS Lease, OwnerOf, Capacity, Limit

VARIABLE state   \* AgentInvocationLease.state of every lease

States == {"suspended", "acquiring", "active", "released"}

Active == {l \in Lease : state[l] = "active"}
ActiveOf(o) == {l \in Active : OwnerOf[l] = o}
Fits(l) == Cardinality(Active) < Capacity /\ Cardinality(ActiveOf(OwnerOf[l])) < Limit

Becomes(l, s) == state' = [state EXCEPT ![l] = s]

Init == state = [l \in Lease |-> "suspended"]

Resume(l) == state[l] = "suspended" /\ Becomes(l, "acquiring")
Grant(l) == state[l] = "acquiring" /\ Fits(l) /\ Becomes(l, "active")
Refuse(l) == state[l] = "acquiring" /\ Becomes(l, "suspended")
Suspend(l) == state[l] \in {"acquiring", "active"} /\ Becomes(l, "suspended")
Release(l) == state[l] # "released" /\ Becomes(l, "released")
\* The next turn has a lease of its own.
Renew(l) == state[l] = "released" /\ Becomes(l, "suspended")

Next == \E l \in Lease :
    Resume(l) \/ Grant(l) \/ Refuse(l) \/ Suspend(l) \/ Release(l) \/ Renew(l)

Spec == Init /\ [][Next]_state
=============================================================================
