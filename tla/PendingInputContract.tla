-------------------------- MODULE PendingInputContract --------------------------
(***************************************************************************)
(* What a session promises about the messages it accepts, whatever rows,   *)
(* leases and transcripts it keeps.  One batch at a time is being answered,*)
(* from its start until its answer is final, across any tool interaction   *)
(* it pauses for.  A message parked for the user is not started before the *)
(* user approves it.  An answered or withdrawn message is never started    *)
(* again.                                                                  *)
(***************************************************************************)
CONSTANT Inputs

VARIABLE phase

Phases == {"absent", "waiting", "parked", "running", "answered", "withdrawn"}

In(p) == {u \in Inputs : phase[u] = p}

\* Move the inputs of S to phase p.
Put(S, p) == phase' = [u \in Inputs |-> IF u \in S THEN p ELSE phase[u]]

Init == phase = [u \in Inputs |-> "absent"]

\* A message is accepted: it waits, starts at once, or could not be started.
Accept(u) ==
    /\ phase[u] = "absent"
    /\ \/ Put({u}, "waiting")
       \/ In("running") = {} /\ Put({u}, "running")
       \/ In("running") = {} /\ Put({u}, "parked")

\* A batch starts, or fails to start and shows its error as the answer.
Start(G) ==
    /\ G # {} /\ G \subseteq In("waiting") /\ In("running") = {}
    /\ \/ Put(G, "running")
       \/ Put(G, "answered")
       \/ Put(G, "parked")

\* The answer is final.
Finish == In("running") # {} /\ Put(In("running"), "answered")

\* A message that has left no trace is given back to the user.
GiveUp == \E u \in Inputs : In("running") = {u} /\ Put({u}, "parked")

\* Preparing a waiting message needs the user.
Park(u) == phase[u] = "waiting" /\ Put({u}, "parked")

\* The user lets parked messages go on.
Approve(S) == S # {} /\ S \subseteq In("parked") /\ Put(S, "waiting")

Withdraw(u) == phase[u] \in {"waiting", "parked"} /\ Put({u}, "withdrawn")

\* A crash starts nothing: a waiting message is parked or closed, a running one is
\* closed, parked, or still waits for the answer to its interaction.
Crash ==
    \E S \in SUBSET In("waiting"), p \in {"running", "answered", "parked"} :
        phase' = [u \in Inputs |->
            CASE u \in In("running") -> p
              [] u \in S -> "parked"
              [] u \in In("waiting") \ S -> "answered"
              [] OTHER -> phase[u]]

Next ==
    \/ \E u \in Inputs : Accept(u) \/ Park(u) \/ Withdraw(u)
    \/ \E S \in SUBSET Inputs : Start(S) \/ Approve(S)
    \/ Finish \/ GiveUp \/ Crash

Spec == Init /\ [][Next]_phase
=============================================================================
