-------------------------- MODULE DelegationTurns --------------------------
(***************************************************************************)
(* The turns of live delegations: the rows of live_delegation_turns, the   *)
(* ActiveTurn that carries a row in the memory of LiveDelegationService,   *)
(* and the child session a delegation works in.                            *)
(*                                                                         *)
(* SQLite and the publication of session updates are synchronous, so a     *)
(* stretch of the service between two awaits is one step.  The awaits of   *)
(* executeTurn are the stages of `step`, those of settle() of `settle`.    *)
(* A delegation has one child session, which goes by the delegation's name.*)
(***************************************************************************)
EXTENDS Naturals, FiniteSets, SequencesExt

CONSTANTS
  Delegation,   \* delegations of one parent session
  Turn,         \* turn ids, handed out in increasing order
  NoTurn,       \* no turn
  Capacity,     \* permits of the process for running children
  MaxFaults     \* how many operations fail that do not always succeed

ASSUME DelegationAssumption == Delegation # {} /\ Turn \subseteq Nat /\ NoTurn \notin Turn

VARIABLES
  row,      \* turn -> its row: status, delegation, kind, whether started_at is set
  bound,    \* the delegations whose child_session_id is set
  svc,      \* the service: "off", "on", the stages of stopOnce(), "stopped"
  turn,     \* turn -> its ActiveTurn; `live` while it is in activeTurns
  mapped,   \* delegation -> childToTurn of its child
  chain,    \* delegation -> childSafetyTails: operations serialized on its child, in order
  child,    \* delegation -> its child session
  faults,   \* failures so far
  sent,     \* history: turn -> the number of times its handoff was accepted
  taken,    \* history: turn -> the turn whose answer it was completed with
  lost      \* history: turns that ended without the cancellation of their run

turnVars == <<row, bound, svc, turn, mapped, chain, child, faults, sent, taken, lost>>

-----------------------------------------------------------------------------
(* Rows and sessions.                                                      *)

ActiveStatuses == {"queued", "running", "waiting"}
Ended == {"completed", "failed", "interrupted"}
RowStatuses == ActiveStatuses \union Ended \union {"none"}

\* "cancelling": asked to stop, its run still unwinds.
Working == {"generating", "waiting"}
ChildStatuses == Working \union {"none", "idle", "error", "cancelling"}

NoRow == [status |-> "none", of |-> CHOOSE d \in Delegation : TRUE, kind |-> "initial",
          dispatched |-> FALSE]

\* `turn` is the turn the latest run is for, `answer` the turn of the latest answer, and
\* `fresh` whether that answer is not older than the last recorded dispatch.
NoChild == [status |-> "none", turn |-> NoTurn, answer |-> NoTurn, fresh |-> FALSE]

IsActive(t) == row[t].status \in ActiveStatuses
TurnsOf(d) == {t \in Turn : row[t].status # "none" /\ row[t].of = d}
Busy(d) == child[d].status \in Working \union {"cancelling"}

\* The visible status of a session.
Shown(d) == IF Busy(d) THEN "generating" ELSE child[d].status

\* markTurnStarted(), markTurnWaiting(): started_at is set with the first of them.
MarkedAs(rows, t, s) == [rows EXCEPT ![t].status = s, ![t].dispatched = TRUE]

\* cancelConversation() asks for the end of the run and does not wait for it.
Cancelled(d) ==
  IF child[d].status \in Working THEN [child EXCEPT ![d].status = "cancelling"] ELSE child

Fault == faults < MaxFaults /\ faults' = faults + 1

-----------------------------------------------------------------------------
(* The ActiveTurn.                                                         *)

NoMemory ==
  [live |-> FALSE, step |-> "none", knows |-> FALSE, aborted |-> FALSE, started |-> FALSE,
   runtime |-> "none", seen |-> NoTurn, lease |-> "suspended", settle |-> "no",
   outcome |-> "none"]

Steps == {"none", "admit", "safety", "acquire", "create", "unbound", "sync", "send",
          "accepted", "recalled", "readmit", "watch", "over"}

\* The stages of acquireAndBindChild (childAcquisition) and of the delivery (childHandoff).
Acquiring == {"acquire", "create", "unbound"}
HandingOff == {"send", "accepted", "recalled"}

Pool == INSTANCE PermitPool
          WITH Lease <- Turn, OwnerOf <- [t \in Turn |-> "parent"], Limit <- Capacity,
               state <- [t \in Turn |-> turn[t].lease]

\* createActiveTurn() of a turn that has none.
NewMemory(d) == [NoMemory EXCEPT !.live = TRUE, !.knows = d \in bound]

\* settle(): only the first call has an effect; the others wait for it.
Settling(m, o) ==
  IF m.settle = "no"
    THEN [m EXCEPT !.settle = "lookup", !.outcome = o, !.lease = "released"]
    ELSE m

\* controller.abort(): a permit that is being acquired is given up.
Aborted(m) ==
  [m EXCEPT !.aborted = TRUE, !.lease = IF @ = "acquiring" THEN "suspended" ELSE @]

\* lease.suspend().
Suspended(m) ==
  [m EXCEPT !.lease = IF @ \in {"acquiring", "active"} THEN "suspended" ELSE @]

\* An error in executeTurn reaches the handler of runWithAdmission.
Thrown(m) ==
  [Settling(m, IF m.aborted THEN "interrupted" ELSE "failed") EXCEPT !.step = "over"]

Becomes(t, m) == turn' = [turn EXCEPT ![t] = m]

\* applyRuntimeStatus() of turn t with memory m, up to its first await: an idle child is
\* synchronized once more before its turn is completed ("check").
Apply(t, m) ==
  LET d == row[t].of IN
  CASE ~m.started \/ m.settle # "no" -> Becomes(t, m) /\ UNCHANGED <<row, chain>>
    [] m.started /\ m.settle = "no" /\ m.aborted ->
         Becomes(t, Settling(m, "interrupted")) /\ UNCHANGED <<row, chain>>
    [] m.started /\ m.settle = "no" /\ ~m.aborted /\ m.runtime = "error" ->
         Becomes(t, Settling(m, "failed")) /\ UNCHANGED <<row, chain>>
    [] m.started /\ m.settle = "no" /\ ~m.aborted /\ m.runtime = "idle" ->
         /\ Becomes(t, m) /\ UNCHANGED row
         /\ chain' = IF Contains(chain[d], <<"check", t>>)
                       THEN chain
                       ELSE [chain EXCEPT ![d] = Append(@, <<"check", t>>)]
    [] OTHER ->
         /\ Becomes(t, m) /\ UNCHANGED chain
         /\ row' = IF m.runtime = "generating" /\ row[t].status = "queued"
                     THEN MarkedAs(row, t, "running") ELSE row

-----------------------------------------------------------------------------
(* Updates of a child session, as handleRuntimeUpdate() takes them: only   *)
(* the turn the child is mapped to hears of them.                          *)

Hears(d) ==
  /\ svc = "on" /\ mapped[d] # NoTurn
  /\ turn[mapped[d]].live /\ turn[mapped[d]].settle = "no"

PublishStatus(d, s) ==
  IF Hears(d)
    THEN Apply(mapped[d], [turn[mapped[d]] EXCEPT !.runtime = s])
    ELSE UNCHANGED <<turn, row, chain>>

\* A block update that shows an interaction: the permit is given up.
PublishWaiting(d) ==
  LET t == mapped[d] IN
  /\ UNCHANGED chain
  /\ IF Hears(d)
       THEN /\ Becomes(t, [Suspended(turn[t]) EXCEPT !.seen = child[d].turn])
            /\ row' = IF IsActive(t) THEN MarkedAs(row, t, "waiting") ELSE row
       ELSE UNCHANGED <<turn, row>>

\* Any other block update: a turn that waited runs again if it has its permit.
PublishBlocks(d) ==
  LET t == mapped[d]
      m == turn[t] IN
  /\ UNCHANGED chain
  /\ IF Hears(d)
       THEN /\ Becomes(t, [m EXCEPT !.seen = child[d].turn])
            /\ row' = IF /\ m.started /\ m.runtime = "generating" /\ m.lease = "active"
                         /\ row[t].status = "waiting"
                        THEN MarkedAs(row, t, "running") ELSE row
       ELSE UNCHANGED <<turn, row>>

-----------------------------------------------------------------------------
(* The end of a turn.                                                      *)

\* The answers settle() may take: that of the message it has seen, where the text of the
\* updates stands in for one that is not stored, or the latest one unless it is older than
\* the recorded dispatch.
\* A slip: any answer found in the child is taken.
ResultsOfAnyAge(t) == {IF turn[t].knows THEN child[row[t].of].answer ELSE NoTurn}

Results(t) ==
  LET c == child[row[t].of]
      m == turn[t] IN
  CASE ~m.knows -> {NoTurn}
    [] m.knows /\ m.seen # NoTurn -> IF c.answer = m.seen THEN {m.seen} ELSE {m.seen, NoTurn}
    [] m.knows /\ m.seen = NoTurn -> {IF c.fresh \/ ~row[t].dispatched THEN c.answer ELSE NoTurn}

\* What an ActiveTurn leaves behind: of one whose task has nothing left to do, nothing is
\* read again.
Forgotten(m) ==
  IF m.step \in {"none", "admit", "readmit", "watch", "unbound", "recalled", "over"}
    THEN [NoMemory EXCEPT !.step = "over", !.settle = "over", !.lease = "released"]
    ELSE [m EXCEPT !.live = FALSE, !.settle = "over", !.lease = "released"]

\* The `finally` of settle().
Unlist(t) ==
  /\ Becomes(t, Forgotten(turn[t]))
  /\ mapped' = IF turn[t].knows THEN [mapped EXCEPT ![row[t].of] = NoTurn] ELSE mapped

\* finishTurn(), which leaves a terminal row as it is.
RowEnds(t, s) == row' = IF IsActive(t) THEN [row EXCEPT ![t].status = s] ELSE row

\* The row is finished; a contract-bearing turn that cannot be is left to a recovery.
Finish(t, s) ==
  /\ Unlist(t)
  /\ \/ RowEnds(t, s) /\ UNCHANGED faults
     \/ Fault /\ UNCHANGED row
  /\ UNCHANGED <<bound, svc, chain, child, sent, lost>>

\* Once the result is read: a turn that was delivered is linked to the tape of its child
\* before its row is finished.
Resolve(t, r) ==
  LET m == turn[t]
      s == IF m.aborted THEN "interrupted"
           ELSE IF m.outcome = "completed" /\ r = NoTurn THEN "failed" ELSE m.outcome IN
  /\ taken' = [taken EXCEPT ![t] = IF s = "completed" THEN r ELSE @]
  /\ IF m.knows /\ m.started
       THEN /\ Becomes(t, [m EXCEPT !.settle = "tape", !.outcome = s])
            /\ UNCHANGED <<row, bound, svc, mapped, chain, child, faults, sent, lost>>
       ELSE Finish(t, s)

LookUpResult(t) == turn[t].settle = "lookup" /\ \E r \in Results(t) : Resolve(t, r)

LinkTape(t) ==
  /\ turn[t].settle = "tape"
  /\ \/ Finish(t, turn[t].outcome)
     \/ /\ Fault /\ Unlist(t) /\ RowEnds(t, "failed")
        /\ UNCHANGED <<bound, svc, chain, child, sent, lost>>
  /\ UNCHANGED taken

\* parkTaskContractBoundary(): the row stays active for a recovery.
Park(t) ==
  /\ Becomes(t, [turn[t] EXCEPT !.live = FALSE, !.lease = "released", !.step = "over"])
  /\ mapped' = IF turn[t].knows THEN [mapped EXCEPT ![row[t].of] = NoTurn] ELSE mapped
  /\ UNCHANGED lost

Throw(t) ==
  /\ Becomes(t, Thrown(turn[t]))
  /\ UNCHANGED <<row, bound, svc, mapped, chain, child, sent, taken, lost>>

-----------------------------------------------------------------------------
(* executeTurn(), from the permit to the delivery.                         *)

Goes(t, s) ==
  /\ Becomes(t, [turn[t] EXCEPT !.step = s])
  /\ UNCHANGED <<row, bound, svc, mapped, chain, child, sent, taken, lost>>

\* The admission grants the lease.  A recovered turn only watches its child from here.
Admit(t) ==
  LET m == turn[t] IN
  /\ m.lease = "acquiring" /\ Pool!Fits(t)
  /\ Becomes(t, [m EXCEPT !.lease = "active",
                          !.step = CASE @ = "admit" -> "safety"
                                     [] @ = "readmit" -> "watch"
                                     [] OTHER -> @])
  /\ UNCHANGED <<row, bound, svc, mapped, chain, child, faults, sent, taken, lost>>

\* The admission's queue is full.
Refuse(t) ==
  /\ turn[t].lease = "acquiring" /\ Fault
  /\ Becomes(t, [turn[t] EXCEPT !.lease = "suspended"])
  /\ UNCHANGED <<row, bound, svc, mapped, chain, child, sent, taken, lost>>

\* resume() is rejected: a turn whose lease is only suspended is kept, without a task.
NotAdmitted(t) ==
  LET m == turn[t] IN
  /\ m.step \in {"admit", "readmit"} /\ m.lease \in {"suspended", "released"}
  /\ IF m.lease = "suspended" /\ ~m.aborted /\ m.settle = "no"
       THEN Goes(t, "none")
       ELSE Throw(t)
  /\ UNCHANGED faults

\* The parent's safety is read; an abort is noticed before and after.
Checked(t) ==
  /\ turn[t].step = "safety"
  /\ \/ Throw(t) /\ (IF turn[t].aborted THEN UNCHANGED faults ELSE Fault)
     \/ ~turn[t].aborted /\ Goes(t, "acquire") /\ UNCHANGED faults

\* The child is the delegation's: its turn goes on.  An aborted turn binds the child all the
\* same, and cancels it; so does one that fails to bind it.
Bind(t) ==
  LET d == row[t].of
      m == [turn[t] EXCEPT !.knows = TRUE] IN
  /\ \/ /\ ~m.aborted /\ bound' = bound \union {d}
        /\ Becomes(t, [m EXCEPT !.step = "sync"])
        /\ chain' = [chain EXCEPT ![d] = Append(@, <<"run", t>>)]
        /\ UNCHANGED <<child, faults>>
     \/ /\ \/ m.aborted /\ bound' = bound \union {d} /\ UNCHANGED faults
           \/ Fault /\ UNCHANGED bound
        /\ Becomes(t, [m EXCEPT !.step = "unbound"])
        /\ child' = Cancelled(d) /\ UNCHANGED chain
  /\ UNCHANGED <<row, svc, mapped, sent, taken, lost>>

\* The child is looked up; a follow-up never joins a child that still works.
Acquire(t) ==
  LET d == row[t].of IN
  /\ turn[t].step = "acquire"
  /\ CASE child[d].status = "none" ->
            (IF turn[t].aborted THEN Throw(t) ELSE Goes(t, "create")) /\ UNCHANGED faults
       [] row[t].kind = "follow_up" /\ Busy(d) -> Throw(t) /\ UNCHANGED faults
       [] OTHER -> Bind(t)

\* createSubagentSession(): the session is there before the call returns, or it fails.
ChildIsMade(t) ==
  LET d == row[t].of IN
  /\ turn[t].step = "create" /\ child[d].status = "none"
  /\ \/ /\ child' = [child EXCEPT ![d].status = "idle"]
        /\ UNCHANGED <<row, bound, svc, turn, mapped, chain, faults, sent, taken, lost>>
     \/ Fault /\ Throw(t)

Made(t) == turn[t].step = "create" /\ child[row[t].of].status # "none" /\ Bind(t)

\* The cancellation of a child that was bound for an aborted turn, or not bound, is over.
Unbound(t) == turn[t].step = "unbound" /\ Throw(t) /\ UNCHANGED faults

\* The child is synchronized; the contract is inherited, the child mapped to the turn, and
\* the dispatch recorded before the handoff is sent.
\* A slip: the handoff is sent first.
DispatchUnrecorded(t) ==
  LET d == row[t].of IN
  /\ mapped' = [mapped EXCEPT ![d] = t]
  /\ Becomes(t, [turn[t] EXCEPT !.step = "send"])
  /\ row' = [row EXCEPT ![t].status = "running"]
  /\ UNCHANGED <<child, lost>>

Dispatch(t) ==
  LET d == row[t].of IN
  /\ mapped' = [mapped EXCEPT ![d] = t]
  /\ Becomes(t, [turn[t] EXCEPT !.step = "send"])
  /\ row' = MarkedAs(row, t, "running")
  /\ child' = [child EXCEPT ![d].fresh = FALSE]
  /\ UNCHANGED lost

Inherit(t) ==
  LET d == row[t].of IN
  \/ /\ ~IsActive(t) /\ Park(t) /\ UNCHANGED <<row, child, faults>>
  \/ /\ IsActive(t) /\ Fault /\ Park(t) /\ UNCHANGED <<row, child>>
  \/ /\ IsActive(t) /\ turn[t].aborted /\ mapped' = [mapped EXCEPT ![d] = t]
     /\ Becomes(t, Thrown(turn[t])) /\ UNCHANGED <<row, child, lost, faults>>
  \/ IsActive(t) /\ ~turn[t].aborted /\ Dispatch(t) /\ UNCHANGED faults

\* The operation at the head of the child's chain is done.  An abort that it notices in
\* time, or a child or a parent that cannot be verified, makes it fail.
Leaves(d) == chain' = [chain EXCEPT ![d] = Tail(@)]
Noticed(t) == IF turn[t].aborted THEN UNCHANGED faults ELSE Fault

Synchronized(t) ==
  LET d == row[t].of IN
  /\ turn[t].step = "sync" /\ chain[d] # <<>> /\ Head(chain[d]) = <<"run", t>>
  /\ Leaves(d)
  /\ \/ Inherit(t)
     \/ Noticed(t) /\ Becomes(t, Thrown(turn[t])) /\ UNCHANGED <<row, mapped, child, lost>>
  /\ UNCHANGED <<bound, svc, sent, taken>>

-----------------------------------------------------------------------------
(* The delivery, and the child's run.                                      *)

\* The child accepts the handoff and starts to work: sendConversationMessage() returns
\* later.
ChildAccepts(t) ==
  LET d == row[t].of
      m == [turn[t] EXCEPT !.step = "accepted"] IN
  /\ turn[t].step = "send" /\ child[d].status \in {"idle", "error"}
  /\ child' = [child EXCEPT ![d].status = "generating", ![d].turn = t]
  /\ sent' = [sent EXCEPT ![t] = @ + 1]
  /\ Becomes(t, IF Hears(d) /\ mapped[d] = t THEN [m EXCEPT !.runtime = "generating"] ELSE m)
  /\ UNCHANGED <<row, bound, svc, mapped, chain, faults, taken, lost>>

SendFails(t) == turn[t].step = "send" /\ Fault /\ Throw(t)

\* A slip: what the child published before the call returned is not looked at.
SendReturnsBlind(t) ==
  LET m == [turn[t] EXCEPT !.started = TRUE] IN
  /\ turn[t].step = "accepted"
  /\ IF m.aborted
       THEN /\ Becomes(t, [m EXCEPT !.step = "recalled"])
            /\ child' = Cancelled(row[t].of) /\ UNCHANGED <<row, chain>>
       ELSE Becomes(t, [m EXCEPT !.step = "watch"]) /\ UNCHANGED <<child, row, chain>>
  /\ UNCHANGED <<bound, svc, mapped, faults, sent, taken, lost>>

SendReturns(t) ==
  LET m == [turn[t] EXCEPT !.started = TRUE] IN
  /\ turn[t].step = "accepted"
  /\ IF m.aborted
       THEN /\ Becomes(t, [m EXCEPT !.step = "recalled"])
            /\ child' = Cancelled(row[t].of) /\ UNCHANGED <<row, chain>>
       ELSE Apply(t, [m EXCEPT !.step = "watch"]) /\ UNCHANGED child
  /\ UNCHANGED <<bound, svc, mapped, faults, sent, taken, lost>>

Recalled(t) == turn[t].step = "recalled" /\ Throw(t) /\ UNCHANGED faults
=============================================================================
