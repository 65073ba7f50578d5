--------------------------- MODULE InvocationAdmission ---------------------------
(***************************************************************************)
(* The process-wide limit on running child agents: AgentInvocationAdmission *)
(* with a queue of waiters for every owner (a parent session) and a ring of *)
(* the owners that have waiters, and StatefulAgentInvocationLease, by which *)
(* a turn holds its permit, gives it up while it waits for the user, and    *)
(* takes it again.                                                          *)
(*                                                                          *)
(* An action is one stretch of code between awaits.  The loop of dispatch() *)
(* is unrolled: `round` is on while a stretch is inside it, and nothing     *)
(* else happens meanwhile.  A lease has one acquisition at a time, so the   *)
(* lease stands for its waiter and its permit.                              *)
(***************************************************************************)
EXTENDS Integers, FiniteSets, SequencesExt

CONSTANTS Lease,       \* the leases: one for every turn of a delegation
          OwnerOf,     \* lease -> ownerId, the parent session
          Capacity,    \* capacity: permits of the process
          Limit,       \* maxActiveForOwner
          MaxPending   \* maxPending: waiters of the process

Owners == {OwnerOf[l] : l \in Lease}

ASSUME AdmissionAssumption ==
    /\ IsFiniteSet(Lease) /\ Lease # {}
    /\ Capacity \in Nat \ {0} /\ Limit \in Nat \ {0} /\ MaxPending \in Nat
    /\ DOMAIN OwnerOf = Lease

VARIABLES queue,     \* ownerQueues: owner -> its waiters
          ring,      \* ownerRing
          active,    \* active
          activeOf,  \* activeByOwner
          pending,   \* pending
          closed,    \* closedError # null
          round,     \* where dispatch() is: visits left of its round, whether it granted
          state,     \* lease -> currentState
          acq,       \* lease -> what has become of its acquisition
          aborted,   \* leases whose acquisition's signal fired after the grant
          again,     \* leases with a resume() that waits for the acquisition before it
          since      \* history: owner -> the owners served since it could be served itself

counters == <<active, activeOf, pending>>
leases == <<state, acq, aborted, again>>
vars == <<queue, ring, active, activeOf, pending, closed, round, state, acq, aborted, again,
          since>>

\* "queued": a waiter; "granted": resolved with a permit that `.then` has not seen;
\* "over": rejected, or seen by `.then`, so that `.finally` is to run.
Acquisitions == {"none", "queued", "granted", "over"}
LeaseStates == {"suspended", "acquiring", "active", "released"}
RoundStates == [on : BOOLEAN, left : Nat, granted : BOOLEAN]

Waiting(o) == queue[o] # <<>>
Eligible(o) == Waiting(o) /\ activeOf[o] < Limit

Quiet == [on |-> FALSE, left |-> 0, granted |-> FALSE]
\* dispatch() is called: it stands before its while condition.
Dispatch == round' = [on |-> TRUE, left |-> 0, granted |-> TRUE]

Init ==
    /\ queue = [o \in Owners |-> <<>>] /\ ring = <<>>
    /\ active = 0 /\ activeOf = [o \in Owners |-> 0] /\ pending = 0
    /\ closed = FALSE /\ round = Quiet
    /\ state = [l \in Lease |-> "suspended"] /\ acq = [l \in Lease |-> "none"]
    /\ aborted = {} /\ again = {}
    /\ since = [o \in Owners |-> {}]

-----------------------------------------------------------------------------
(* The admission.  Every operator says what becomes of the counters, the queues, *)
(* the ring and `round`.                                                         *)

\* grant(): a permit is out.
GrantPermit(o) ==
    active' = active + 1 /\ activeOf' = [activeOf EXCEPT ![o] = @ + 1]

\* A slip: the permit is counted back, but nobody is woken.
ReleaseQuietly(o) ==
    /\ active' = active - 1 /\ activeOf' = [activeOf EXCEPT ![o] = @ - 1]
    /\ UNCHANGED <<queue, ring, pending, round>>

\* releaseWithReason() of a permit that is out.
ReleasePermit(o) ==
    /\ active' = active - 1 /\ activeOf' = [activeOf EXCEPT ![o] = @ - 1]
    /\ UNCHANGED <<queue, ring, pending>> /\ Dispatch

\* A slip: a new owner enters the ring at its head.
EnqueueFirst(l) ==
    LET o == OwnerOf[l] IN
    /\ queue' = [queue EXCEPT ![o] = Append(@, l)]
    /\ ring' = IF Waiting(o) THEN ring ELSE <<o>> \o ring
    /\ pending' = pending + 1
    /\ UNCHANGED <<active, activeOf>> /\ Dispatch

\* The waiter joins its owner's queue, and a new owner the end of the ring.
Enqueue(l) ==
    LET o == OwnerOf[l] IN
    /\ queue' = [queue EXCEPT ![o] = Append(@, l)]
    /\ ring' = IF Waiting(o) THEN ring ELSE Append(ring, o)
    /\ pending' = pending + 1
    /\ UNCHANGED <<active, activeOf>> /\ Dispatch

\* abortWaiter(): the waiter leaves, and with the last one its owner the ring.
Unqueue(l) ==
    LET o == OwnerOf[l] IN
    /\ \E i \in 1 .. Len(queue[o]) :
        queue[o][i] = l /\ queue' = [queue EXCEPT ![o] = RemoveAt(@, i)]
    /\ IF Len(queue[o]) = 1
       THEN \E j \in 1 .. Len(ring) : ring[j] = o /\ ring' = RemoveAt(ring, j)
       ELSE UNCHANGED ring
    /\ pending' = pending - 1
    /\ UNCHANGED <<active, activeOf>> /\ Dispatch

\* The while condition of dispatch(), at its start and after every round.
Rounds ==
    /\ round.on /\ (round.left = 0 \/ active >= Capacity)
    /\ round' = IF round.granted /\ active < Capacity /\ pending > 0 /\ ring # <<>>
                THEN [on |-> TRUE, left |-> Len(ring), granted |-> FALSE]
                ELSE Quiet
    /\ UNCHANGED <<queue, ring, counters, closed, leases>>

\* One visit of a round, to the owner at the head of the ring: at its limit it goes to
\* the end; else its first waiter is granted and it goes to the end if it has another.
\* (An owner without waiters and a settled waiter are not found here: OwnersQueued.)
Skip ==
    LET o == Head(ring) IN
    /\ activeOf[o] >= Limit
    /\ ring' = Append(Tail(ring), o)
    /\ round' = [round EXCEPT !.left = @ - 1]
    /\ UNCHANGED <<queue, counters, acq>>

Serve ==
    LET o == Head(ring)
        l == Head(queue[o]) IN
    /\ activeOf[o] < Limit
    /\ queue' = [queue EXCEPT ![o] = Tail(@)]
    /\ ring' = IF Len(queue[o]) > 1 THEN Append(Tail(ring), o) ELSE Tail(ring)
    /\ pending' = pending - 1 /\ GrantPermit(o)
    /\ acq' = [acq EXCEPT ![l] = "granted"]
    /\ round' = [round EXCEPT !.left = @ - 1, !.granted = TRUE]

Visit ==
    /\ round.on /\ round.left > 0 /\ active < Capacity
    /\ Skip \/ Serve
    /\ UNCHANGED <<closed, state, aborted, again>>

-----------------------------------------------------------------------------
(* The leases. *)

Free == ~round.on

\* acquire() refuses: it is closed, its signal has fired, or its queue is full.
Refused(l) ==
    /\ state' = [state EXCEPT ![l] = "acquiring"] /\ acq' = [acq EXCEPT ![l] = "over"]
    /\ UNCHANGED <<queue, ring, counters, round>>

\* It grants at once: nobody waits and both limits leave room.
Granted(l) ==
    LET o == OwnerOf[l] IN
    /\ ~closed /\ active < Capacity /\ pending = 0 /\ activeOf[o] < Limit
    /\ state' = [state EXCEPT ![l] = "acquiring"] /\ acq' = [acq EXCEPT ![l] = "granted"]
    /\ GrantPermit(o) /\ UNCHANGED <<queue, ring, pending, round>>

Queued(l) ==
    /\ ~closed /\ pending < MaxPending
    /\ ~(active < Capacity /\ pending = 0 /\ activeOf[OwnerOf[l]] < Limit)
    /\ state' = [state EXCEPT ![l] = "acquiring"] /\ acq' = [acq EXCEPT ![l] = "queued"]
    /\ Enqueue(l)

\* A caller's signal may have fired before, so that Refused needs no condition.
Acquire(l) ==
    state[l] = "suspended" /\ acq[l] = "none" /\ (Refused(l) \/ Granted(l) \/ Queued(l))

\* resume() of a suspended lease.
Resume(l) == Free /\ Acquire(l) /\ UNCHANGED <<closed, aborted, again>>

\* resume() of a lease that was suspended while its acquisition is not over.
ResumeLater(l) ==
    /\ Free /\ state[l] = "suspended" /\ acq[l] # "none"
    /\ again' = again \union {l}
    /\ UNCHANGED <<queue, ring, counters, closed, round, state, acq, aborted>>

\* The resume() that waited calls resume() again; another may have come before it.
ResumeAgain(l) ==
    /\ Free /\ l \in again /\ again' = again \ {l}
    /\ \/ Acquire(l)
       \/ state[l] # "suspended" /\ UNCHANGED <<queue, ring, counters, round, state, acq>>
    /\ UNCHANGED <<closed, aborted>>

\* A slip: a permit that is on its way is given back at once, and again when it arrives.
GiveUpTwice(l, s) ==
    /\ state' = [state EXCEPT ![l] = s]
    /\ \/ acq[l] = "queued" /\ acq' = [acq EXCEPT ![l] = "over"] /\ Unqueue(l)
          /\ UNCHANGED aborted
       \/ /\ acq[l] = "granted" \/ state[l] = "active"
          /\ ReleasePermit(OwnerOf[l]) /\ UNCHANGED <<acq, aborted>>
    /\ UNCHANGED <<closed, again>>

\* suspend() and release(): an active lease gives its permit back, an acquisition under
\* way is aborted.
GiveUp(l, s) ==
    /\ state' = [state EXCEPT ![l] = s]
    /\ \/ state[l] = "active" /\ ReleasePermit(OwnerOf[l]) /\ UNCHANGED <<acq, aborted>>
       \/ /\ state[l] # "active" /\ acq[l] = "queued"
          /\ acq' = [acq EXCEPT ![l] = "over"] /\ Unqueue(l) /\ UNCHANGED aborted
       \/ /\ state[l] # "active" /\ acq[l] = "granted"
          /\ aborted' = aborted \union {l}
          /\ UNCHANGED <<queue, ring, counters, round, acq>>
       \/ /\ state[l] # "active" /\ acq[l] \notin {"queued", "granted"}
          /\ UNCHANGED <<queue, ring, counters, round, acq, aborted>>
    /\ UNCHANGED <<closed, again>>

Suspend(l) == Free /\ state[l] \in {"acquiring", "active"} /\ GiveUp(l, "suspended")
Release(l) == Free /\ state[l] # "released" /\ GiveUp(l, "released")

\* A signal of the acquisition fires: the turn's, or that of the call that began it.
Abort(l) ==
    /\ Free /\ state[l] = "acquiring"
    /\ \/ acq[l] = "queued" /\ acq' = [acq EXCEPT ![l] = "over"] /\ Unqueue(l)
          /\ UNCHANGED aborted
       \/ acq[l] = "granted" /\ aborted' = aborted \union {l}
          /\ UNCHANGED <<queue, ring, counters, round, acq>>
    /\ UNCHANGED <<closed, state, again>>

\* A slip: `.then` does not look what has become of the lease.
ArriveUnchecked(l) ==
    /\ Free /\ acq[l] = "granted"
    /\ acq' = [acq EXCEPT ![l] = "over"]
    /\ state' = [state EXCEPT ![l] = "active"]
    /\ UNCHANGED <<queue, ring, counters, closed, round, aborted, again>>

\* `.then` of the acquisition: the permit is the lease's, or goes straight back.
Arrive(l) ==
    /\ Free /\ acq[l] = "granted"
    /\ acq' = [acq EXCEPT ![l] = "over"]
    /\ \/ /\ l \notin aborted /\ state[l] = "acquiring"
          /\ state' = [state EXCEPT ![l] = "active"]
          /\ UNCHANGED <<queue, ring, counters, round>>
       \/ /\ l \in aborted \/ state[l] # "acquiring"
          /\ ReleasePermit(OwnerOf[l]) /\ UNCHANGED state
    /\ UNCHANGED <<closed, aborted, again>>

\* `.finally` of the acquisition.
Finish(l) ==
    /\ Free /\ acq[l] = "over"
    /\ acq' = [acq EXCEPT ![l] = "none"] /\ aborted' = aborted \ {l}
    /\ state' = [state EXCEPT ![l] = IF @ = "acquiring" THEN "suspended" ELSE @]
    /\ UNCHANGED <<queue, ring, counters, closed, round, again>>

\* createLease() for the next turn, in place of a lease nobody uses any more.
Renew(l) ==
    /\ Free /\ state[l] = "released" /\ acq[l] = "none" /\ l \notin again
    /\ state' = [state EXCEPT ![l] = "suspended"]
    /\ UNCHANGED <<queue, ring, counters, closed, round, acq, aborted, again>>

\* close(), at shutdown: all waiters are rejected.
Close ==
    /\ Free /\ ~closed /\ closed' = TRUE
    /\ acq' = [l \in Lease |-> IF acq[l] = "queued" THEN "over" ELSE acq[l]]
    /\ queue' = [o \in Owners |-> <<>>] /\ ring' = <<>> /\ pending' = 0
    /\ UNCHANGED <<active, activeOf, round, state, aborted, again>>

-----------------------------------------------------------------------------
\* The owners that get a permit in this step.
Served == {p \in Owners : activeOf'[p] > activeOf[p]}

Track ==
    since' = [o \in Owners |->
        IF Eligible(o) /\ Eligible(o)' /\ o \notin Served THEN since[o] \union Served ELSE {}]

Use(l) ==
    \/ Resume(l) \/ ResumeLater(l) \/ ResumeAgain(l) \/ Suspend(l) \/ Release(l)
    \/ Abort(l) \/ Arrive(l) \/ Finish(l) \/ Renew(l)

Next ==
    \/ Rounds /\ Track
    \/ Visit /\ Track
    \/ Close /\ Track
    \/ \E l \in Lease : Use(l) /\ Track

Spec == Init /\ [][Next]_vars
=============================================================================
