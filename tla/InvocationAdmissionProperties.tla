---------------------- MODULE InvocationAdmissionProperties ----------------------
(***************************************************************************)
(* What makes the invocation admission correct.                            *)
(***************************************************************************)
EXTENDS InvocationAdmission

\* The admission and its leases only hold values of their kind.
AdmissionTypeOK ==
    /\ queue \in [Owners -> Seq(Lease)] /\ ring \in Seq(Owners)
    /\ active \in Nat /\ activeOf \in [Owners -> Nat] /\ pending \in Nat
    /\ closed \in BOOLEAN /\ round \in RoundStates
    /\ state \in [Lease -> LeaseStates] /\ acq \in [Lease -> Acquisitions]
    /\ aborted \subseteq Lease /\ again \subseteq Lease
    /\ since \in [Owners -> SUBSET Owners]

\* The leases that hold a permit, and those of one owner.
Out == {l \in Lease : acq[l] = "granted" \/ state[l] = "active"}
OutOf(o) == {l \in Out : OwnerOf[l] = o}
Waiters == {l \in Lease : acq[l] = "queued"}

\* Every permit the counters know of is held by a lease that is active or about to learn
\* of its grant, and every such lease is counted, once; so a lease that is suspended,
\* released or aborted at any point of its acquisition gives back exactly what it took,
\* and neither the process nor an owner exceeds its limit.
PermitsAccounted ==
    /\ active = Cardinality(Out) /\ active <= Capacity
    /\ \A o \in Owners : activeOf[o] = Cardinality(OutOf(o)) /\ activeOf[o] <= Limit
    /\ pending = Cardinality(Waiters) /\ pending <= MaxPending

\* The ring names every owner that has waiters once and no other, and the queues hold
\* every waiter once, with its owner: what dispatch() and abortWaiter() rely on, in code
\* that also handles the contrary.
OwnersQueued ==
    /\ IsInjective(ring) /\ ToSet(ring) = {o \in Owners : Waiting(o)}
    /\ \A o \in Owners :
        IsInjective(queue[o]) /\ ToSet(queue[o]) = {l \in Waiters : OwnerOf[l] = o}

\* When dispatch() has returned no permit lies idle: while the process has one left, every
\* owner with waiters is at its own limit.
WorkConserving == Free /\ active < Capacity => \A o \in Owners : ~Eligible(o)

\* What the state of a lease says of its acquisition.
LeasesSound ==
    \A l \in Lease :
        /\ acq[l] = "queued" => state[l] = "acquiring"
        /\ state[l] = "active" => acq[l] \in {"none", "over"}
        /\ state[l] = "acquiring" => acq[l] # "none"

\* Where dispatch() is: the owners a round has passed without a grant are at their limit.
RoundSound ==
    /\ ~round.on => round = Quiet
    /\ round.left <= Len(ring)
    /\ round.on /\ ~round.granted =>
        \A i \in round.left + 1 .. Len(ring) : activeOf[ring[i]] >= Limit

Precedes(s, x, y) == \A i, j \in DOMAIN s : s[i] = x /\ s[j] = y => i < j

\* The owners served before o stand behind it in the ring, if they wait again.
SinceSound ==
    \A o \in Owners :
        /\ ~Eligible(o) => since[o] = {}
        /\ \A p \in since[o] : Precedes(ring, o, p)

\* The inductive invariant of the proofs.
AdmissionSound ==
    /\ AdmissionTypeOK /\ PermitsAccounted /\ OwnersQueued /\ WorkConserving
    /\ LeasesSound /\ RoundSound /\ SinceSound

\* Round-robin: while an owner has waiters and is below its limit, no other owner is
\* served twice before it is.
NoOvertaking ==
    [][\A o \in Owners, p \in Served : Eligible(o) /\ p # o => p \notin since[o]]_vars

\* The admission is a pool of permits to those who only see the states of their leases.
Pool == INSTANCE PermitPool
ImplementsPool == Pool!Spec

=============================================================================
