---------------------- MODULE LiveDelegationProperties ----------------------
(***************************************************************************)
(* What live delegation promises: to the user, who sees one turn of a      *)
(* delegation after the other, and to the parent, whose permits and        *)
(* answers the turns use.                                                  *)
(***************************************************************************)
EXTENDS LiveDelegation

Row == [status : RowStatuses, of : Delegation, kind : {"initial", "follow_up"},
        dispatched : BOOLEAN]
Phases == {"no", "lookup", "tape", "over"}
Leases == {"suspended", "acquiring", "active", "released"}
MemoryFields ==
  [live : BOOLEAN, step : Steps, knows : BOOLEAN, aborted : BOOLEAN, started : BOOLEAN,
   runtime : {"none", "idle", "generating", "error"}, seen : Turn \union {NoTurn},
   lease : Leases, settle : Phases, outcome : Ended \union {"none"}]
\* A turn that is being settled has an outcome.
Memory == {m \in MemoryFields : m.settle \in {"lookup", "tape"} => m.outcome \in Ended}
ChildSession == [status : ChildStatuses, turn : Turn \union {NoTurn},
                 answer : Turn \union {NoTurn}, fresh : BOOLEAN]
Queued == {"run", "gate", "check"} \X Turn
Call == [op : {"none", "spawn", "follow_up", "interrupt"}, of : Delegation,
         turn : Turn \union {NoTurn}, stage : {"none", "checking", "cancel", "drain", "settling"}]
GateFields == [stage : {"none", "verify", "resume", "enter"}, kind : {"tool", "answer"},
               turn : Turn \union {NoTurn}]
\* A boundary that is passed at all is a turn's.
Gate == {g \in GateFields : g.stage # "none" => g.turn \in Turn}
Record == [todo : SUBSET Turn, at : Turn \union {NoTurn}, stage : {"none", "read", "settle"},
           shown : {"none", "idle", "generating", "error"}, knew : BOOLEAN]

\* The state of a turn, its row and its child, and the state of the service around them.
TurnTypeOK ==
  /\ row \in [Turn -> Row] /\ turn \in [Turn -> Memory]
  /\ child \in [Delegation -> ChildSession]
  /\ bound \subseteq Delegation /\ mapped \in [Delegation -> Turn \union {NoTurn}]
  /\ chain \in [Delegation -> Seq(Queued)]
  /\ svc \in {"off", "on", "draining", "emptying", "closing", "settling", "stopped"}
  /\ faults \in Nat /\ sent \in [Turn -> Nat] /\ lost \subseteq Turn
  /\ taken \in [Turn -> Turn \union {NoTurn}]

ServiceTypeOK ==
  /\ call \in [Caller -> Call] /\ gate \in [Delegation -> Gate] /\ rec \in Record
  /\ captured \subseteq Turn /\ quarantined \subseteq Turn /\ events \in Nat

DelegationTypeOK == TurnTypeOK /\ ServiceTypeOK

\* A child that works, works for a turn that has not ended: an interrupted, failed or
\* stopped turn leaves no run behind it, wherever the end overtakes the acquisition of the
\* child and the delivery of the handoff.  While stop() is under way it may.  Not meant are
\* turns that a failed reconciliation, or a stop that a crash cuts off, ends without
\* cancelling their child.
NoOrphanedRun ==
  \A d \in Delegation :
    child[d].status \in Working /\ svc \in {"off", "on", "stopped"}
    => IsActive(child[d].turn) \/ child[d].turn \in lost

\* A turn is completed with the answer of its own run, not with one an earlier turn left
\* in the same child.
CompletedByItsOwnRun == \A t \in Turn : row[t].status = "completed" => taken[t] = t

\* No crash, however it falls between the record of the dispatch and the delivery, makes a
\* child do the work of a turn twice.
DispatchedAtMostOnce == \A t \in Turn : sent[t] <= 1

\* While a child waits for its user, its turn, as long as the service hears of it, holds no
\* permit of the process: not after a restart and not when the run could not go on after an
\* answer either.
WaitingHoldsNoPermit ==
  \A d \in Delegation : LET t == mapped[d] IN
    /\ svc = "on" /\ child[d].status = "waiting" /\ AtGate(d, "none")
    /\ t # NoTurn /\ row[t].status = "waiting"
    => turn[t].lease # "active"

\* Nothing waits for what waits for it: interrupt() and stop() return whatever the child is
\* doing, and the end of a child that the service heard of ends the turn, also when it was
\* heard before the delivery returned.
NothingHangs ==
  /\ \A c \in Caller : call[c].op = "interrupt" ~> call[c].op # "interrupt"
  /\ svc = "draining" ~> svc \in {"stopped", "off"}
  /\ \A t \in Turn :
       /\ svc = "on" /\ turn[t].live /\ turn[t].started
       /\ turn[t].runtime \in {"idle", "error"}
       ~> ~turn[t].live \/ svc # "on"
=============================================================================
