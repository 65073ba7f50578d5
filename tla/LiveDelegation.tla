--------------------------- MODULE LiveDelegation ---------------------------
(***************************************************************************)
(* The live delegation service: the calls of the parent's tools (spawn,    *)
(* follow_up, interrupt), the boundary every tool call and every answer of *)
(* a child passes (prepareChildBoundary), the reconciliation of the turns  *)
(* a previous run of the app left, and stop().                             *)
(***************************************************************************)
EXTENDS DelegationTurns

CONSTANTS
  Caller,       \* callers, numbered: how many calls can be under way at once
  MaxEvents     \* calls of the parent, stops of the service and restarts of the app in all

VARIABLES
  call,         \* caller -> the call it has under way
  gate,         \* delegation -> the boundary its child stands at
  rec,          \* the reconciliation: turns to come, the one at hand, what was read for it
  captured,     \* the turns stopOnce() has taken
  quarantined,  \* quarantinedTurns
  events        \* calls, stops and restarts so far

serviceVars == <<call, gate, rec, captured, quarantined, events>>
vars == <<turnVars, serviceVars>>

NoCall == [op |-> "none", of |-> CHOOSE d \in Delegation : TRUE, turn |-> NoTurn,
           stage |-> "none"]
NoGate == [stage |-> "none", kind |-> "tool", turn |-> NoTurn]
NoRecord == [todo |-> {}, at |-> NoTurn, stage |-> "none", shown |-> "none", knew |-> FALSE]

Init ==
  /\ row = [t \in Turn |-> NoRow] /\ bound = {} /\ svc = "off"
  /\ turn = [t \in Turn |-> NoMemory] /\ mapped = [d \in Delegation |-> NoTurn]
  /\ chain = [d \in Delegation |-> <<>>] /\ child = [d \in Delegation |-> NoChild]
  /\ faults = 0 /\ sent = [t \in Turn |-> 0] /\ taken = [t \in Turn |-> NoTurn] /\ lost = {}
  /\ call = [c \in Caller |-> NoCall] /\ gate = [d \in Delegation |-> NoGate]
  /\ rec = NoRecord /\ captured = {} /\ quarantined = {} /\ events = 0

-----------------------------------------------------------------------------
(* The calls of the parent.  One that is refused changes nothing.          *)

\* Which caller makes a call is the same; the first that is free does.
Free(c) == call[c] = NoCall /\ \A e \in Caller : e < c => call[e] # NoCall
Ends(c) == call' = [call EXCEPT ![c] = NoCall]

\* assertStarted() stands at the head of every call.
Begins(c, op, d, stage) ==
  /\ svc = "on" /\ Free(c) /\ events < MaxEvents
  /\ events' = events + 1
  /\ call' = [call EXCEPT ![c] = [op |-> op, of |-> d, turn |-> NoTurn, stage |-> stage]]

IsNext(t) == row[t].status = "none" /\ \A q \in Turn : q < t => row[q].status # "none"

\* The row is inserted, and the turn scheduled: it asks for its permit.
Schedule(t, d, kind) ==
  /\ row' = [row EXCEPT ![t] = [status |-> "queued", of |-> d, kind |-> kind,
                                dispatched |-> FALSE]]
  /\ Becomes(t, [NewMemory(d) EXCEPT !.step = "admit", !.lease = "acquiring"])
  /\ mapped' = IF d \in bound THEN [mapped EXCEPT ![d] = t] ELSE mapped
  /\ UNCHANGED <<bound, svc, chain, child, faults, sent, taken, lost>>

Spawn(c) ==
  /\ \E d \in Delegation : TurnsOf(d) = {} /\ Begins(c, "spawn", d, "checking")
  /\ UNCHANGED <<turnVars, gate, rec, captured, quarantined>>

FollowUp(c) ==
  /\ \E d \in Delegation :
       TurnsOf(d) # {} /\ child[d].status # "none" /\ Begins(c, "follow_up", d, "checking")
  /\ UNCHANGED <<turnVars, gate, rec, captured, quarantined>>

\* After their awaits: the parent, its authority and the child have been read.
SpawnCommits(c) ==
  LET d == call[c].of IN
  /\ call[c].op = "spawn" /\ Ends(c)
  /\ IF TurnsOf(d) = {}
       THEN \E t \in Turn : IsNext(t) /\ Schedule(t, d, "initial")
       ELSE UNCHANGED turnVars
  /\ UNCHANGED <<gate, rec, captured, quarantined, events>>

FollowUpCommits(c) ==
  LET d == call[c].of IN
  /\ call[c].op = "follow_up" /\ Ends(c)
  /\ IF ~Busy(d) /\ ~\E t \in TurnsOf(d) : IsActive(t)
       THEN \E t \in Turn : IsNext(t) /\ Schedule(t, d, "follow_up")
       ELSE UNCHANGED turnVars
  /\ UNCHANGED <<gate, rec, captured, quarantined, events>>

Listed(d) == {t \in TurnsOf(d) : turn[t].live}

\* interruptDelegation() of a turn in activeTurns: abort, cancel the child, and wait for
\* what is being acquired or delivered.
InterruptListed(c, d, t) ==
  /\ call' = [call EXCEPT ![c] = [op |-> "interrupt", of |-> d, turn |-> t, stage |-> "drain"]]
  /\ Becomes(t, Aborted(turn[t]))
  /\ child' = IF turn[t].knows THEN Cancelled(d) ELSE child
  /\ UNCHANGED row

\* Of a turn that is not there, because it waits for the reconciliation or was left.
InterruptUnlisted(c, d, t) ==
  /\ Listed(d) = {} /\ (\A q \in TurnsOf(d) : q <= t) /\ IsActive(t)
  /\ RowEnds(t, "interrupted") /\ UNCHANGED turn
  /\ child' = IF d \in bound THEN Cancelled(d) ELSE child
  /\ call' = [call EXCEPT ![c] = [op |-> "interrupt", of |-> d, turn |-> t, stage |-> "cancel"]]

Interrupt(c) ==
  /\ svc = "on" /\ Free(c) /\ events < MaxEvents /\ events' = events + 1
  /\ \E d \in Delegation :
       \/ \E t \in Listed(d) : InterruptListed(c, d, t)
       \/ \E t \in TurnsOf(d) : InterruptUnlisted(c, d, t)
  /\ UNCHANGED <<bound, svc, mapped, chain, faults, sent, taken, lost,
                 gate, rec, captured, quarantined>>

\* The cancellation is over: the child is unmapped, whatever turn it is mapped to now.
CancelReturns(c) ==
  LET d == call[c].of IN
  /\ call[c].stage = "cancel" /\ Ends(c)
  /\ mapped' = IF d \in bound THEN [mapped EXCEPT ![d] = NoTurn] ELSE mapped
  /\ quarantined' = quarantined \ {call[c].turn}
  /\ UNCHANGED <<row, bound, svc, turn, chain, child, faults, sent, taken, lost,
                 gate, rec, captured, events>>

\* Acquisition and delivery are over; the turn is settled.
\* A slip: the settlement does not wait for them.
DrainsNothing(c) ==
  /\ call[c].stage = "drain"
  /\ Becomes(call[c].turn, Settling(turn[call[c].turn], "interrupted"))
  /\ call' = [call EXCEPT ![c].stage = "settling"]
  /\ UNCHANGED <<row, bound, svc, mapped, chain, child, faults, sent, taken, lost,
                 gate, rec, captured, quarantined, events>>

Drained(c) ==
  LET t == call[c].turn IN
  /\ call[c].stage = "drain" /\ turn[t].step \notin Acquiring \union HandingOff
  /\ Becomes(t, Settling(turn[t], "interrupted"))
  /\ call' = [call EXCEPT ![c].stage = "settling"]
  /\ UNCHANGED <<row, bound, svc, mapped, chain, child, faults, sent, taken, lost,
                 gate, rec, captured, quarantined, events>>

InterruptReturns(c) ==
  /\ call[c].stage = "settling" /\ turn[call[c].turn].settle = "over" /\ Ends(c)
  /\ UNCHANGED <<turnVars, gate, rec, captured, quarantined, events>>

-----------------------------------------------------------------------------
(* The child's boundary: prepareChildBoundary() before a tool call and     *)
(* before the run continues after an answer.                               *)

\* resolveActiveChildTurn() finds the turn.
Owned(d) ==
  LET t == mapped[d] IN
  /\ t # NoTurn /\ t \notin quarantined
  /\ turn[t].live /\ turn[t].settle = "no" /\ ~turn[t].aborted

AtGate(d, stage) == gate[d].stage = stage
Passes(d) == gate' = [gate EXCEPT ![d] = NoGate]
Stands(d, stage) == gate' = [gate EXCEPT ![d].stage = stage]
Synchronizes(d, t) == chain' = [chain EXCEPT ![d] = Append(@, <<"gate", t>>)]

\* interruptUnverifiedTurn(), with its cancellation over at once.
Unverified(d, t) ==
  IF turn[t].settle = "no"
    THEN Becomes(t, Settling(Aborted(turn[t]), "interrupted")) /\ child' = Cancelled(d)
    ELSE UNCHANGED <<turn, child>>

\* A turn without its permit is synchronized before it asks for it.
GateOpens(d) ==
  LET t == mapped[d] IN
  /\ AtGate(d, "none") /\ child[d].status \in Working /\ Owned(d)
  /\ gate' = [gate EXCEPT ![d] =
       [kind |-> IF child[d].status = "waiting" THEN "answer" ELSE "tool", turn |-> t,
        stage |-> IF turn[t].lease = "active" THEN "enter" ELSE "verify"]]
  /\ Synchronizes(d, t)
  /\ UNCHANGED <<row, bound, svc, turn, mapped, child, faults, sent, taken, lost,
                 call, rec, captured, quarantined, events>>

GateIsUp(d, stage) ==
  AtGate(d, stage) /\ chain[d] # <<>> /\ Head(chain[d]) = <<"gate", gate[d].turn>>

\* The answer's caller is still there.
Wanted(d) == child[d].status \in Working

\* Verified: resumeChildAdmission() asks for the permit.
GateVerified(d) ==
  LET t == gate[d].turn IN
  /\ GateIsUp(d, "verify") /\ Leaves(d)
  /\ \/ /\ Wanted(d) /\ Owned(d) /\ mapped[d] = t
        /\ Becomes(t, [turn[t] EXCEPT !.lease = IF @ = "suspended" THEN "acquiring" ELSE @])
        /\ Stands(d, "resume") /\ UNCHANGED <<child, faults>>
     \/ /\ IF Wanted(d) /\ Owned(d) /\ mapped[d] = t THEN Fault ELSE UNCHANGED faults
        /\ Unverified(d, t) /\ Passes(d)
  /\ UNCHANGED <<row, bound, svc, mapped, sent, taken, lost,
                 call, rec, captured, quarantined, events>>

GateAdmitted(d) ==
  LET t == gate[d].turn IN
  /\ AtGate(d, "resume") /\ turn[t].lease = "active"
  /\ IF Wanted(d) /\ ~turn[t].aborted /\ IsActive(t) /\ turn[t].settle = "no"
       THEN Stands(d, "enter") /\ Synchronizes(d, t) /\ UNCHANGED <<turn, child>>
       ELSE Unverified(d, t) /\ Passes(d) /\ UNCHANGED chain
  /\ UNCHANGED <<row, bound, svc, mapped, faults, sent, taken, lost,
                 call, rec, captured, quarantined, events>>

\* The permit is refused, or the answer's caller gives it up.
GateRefused(d) ==
  LET t == gate[d].turn IN
  /\ AtGate(d, "resume")
  /\ \/ turn[t].lease \in {"suspended", "released"}
     \/ turn[t].lease = "acquiring" /\ ~Wanted(d) /\ turn[t].step # "readmit"
  /\ Unverified(d, t) /\ Passes(d)
  /\ UNCHANGED <<row, bound, svc, mapped, chain, faults, sent, taken, lost,
                 call, rec, captured, quarantined, events>>

\* The last synchronization is over.  A tool call goes on, and maps the child once more when
\* it is not only authorized; after an answer the run does, or fails to, and then the permit
\* is given up again.
GateEntered(d) ==
  LET t == gate[d].turn
      ok == Wanted(d) /\ ~turn[t].aborted
      answered == gate[d].kind = "answer" /\ child[d].status = "waiting" IN
  /\ GateIsUp(d, "enter") /\ Leaves(d) /\ Passes(d)
  /\ \/ /\ ok
        /\ child' = IF answered THEN [child EXCEPT ![d].status = "generating"] ELSE child
        /\ \/ UNCHANGED mapped
           \/ /\ gate[d].kind = "tool" /\ svc = "on" /\ turn[t].lease = "active"
              /\ mapped' = [mapped EXCEPT ![d] = t]
        /\ UNCHANGED <<turn, faults>>
     \/ /\ ok /\ answered /\ Fault
        /\ Becomes(t, IF turn[t].live /\ row[t].status = "waiting" THEN Suspended(turn[t])
                      ELSE turn[t])
        /\ UNCHANGED <<child, mapped>>
     \/ /\ IF ok THEN Fault ELSE UNCHANGED faults
        /\ Unverified(d, t) /\ UNCHANGED mapped
  /\ UNCHANGED <<row, bound, svc, sent, taken, lost,
                 call, rec, captured, quarantined, events>>

\* A child that no turn is mapped to is nobody's: an answer lets it go on.
AnswerUnowned(d) ==
  /\ child[d].status = "waiting" /\ mapped[d] = NoTurn /\ AtGate(d, "none")
  /\ child' = [child EXCEPT ![d].status = "generating"]
  /\ UNCHANGED <<row, bound, svc, turn, mapped, chain, faults, sent, taken, lost, serviceVars>>

-----------------------------------------------------------------------------
(* The child at work, and what an idle one causes.                         *)

\* It asks for a permission or puts a question.
ChildAsks(d) ==
  /\ child[d].status = "generating" /\ AtGate(d, "none")
  /\ child' = [child EXCEPT ![d].status = "waiting"]
  /\ PublishWaiting(d)
  /\ UNCHANGED <<bound, svc, mapped, faults, sent, taken, lost, serviceVars>>

ChildWrites(d) ==
  /\ child[d].status = "generating" /\ AtGate(d, "none")
  /\ PublishBlocks(d) /\ <<turn, row>>' # <<turn, row>>
  /\ UNCHANGED <<bound, svc, mapped, child, faults, sent, taken, lost, serviceVars>>

\* The run ends, with an answer or without; what one that fails has written is not used.
ChildEnds(d) ==
  /\ \/ child[d].status \in Working /\ AtGate(d, "none")
     \/ child[d].status = "cancelling"
  /\ \E s \in IF child[d].status = "generating" THEN {"idle", "error"} ELSE {"idle"} :
     \E answered \in IF s = "idle" THEN BOOLEAN ELSE {FALSE} :
       /\ child' = [child EXCEPT ![d].status = s,
                                 ![d].answer = IF answered THEN child[d].turn ELSE @,
                                 ![d].fresh = @ \/ answered]
       /\ PublishStatus(d, s)
  /\ UNCHANGED <<bound, svc, mapped, faults, sent, taken, lost, serviceVars>>

\* applyRuntimeStatus() goes on after the synchronization.
Completes(d) ==
  /\ chain[d] # <<>> /\ Head(chain[d])[1] = "check" /\ Leaves(d)
  /\ LET t == Head(chain[d])[2] IN
     \/ Becomes(t, Settling(turn[t], "completed")) /\ UNCHANGED <<child, faults>>
     \/ Noticed(t) /\ Unverified(d, t)
  /\ UNCHANGED <<row, bound, svc, mapped, sent, taken, lost, serviceVars>>

-----------------------------------------------------------------------------
(* start(), and the reconciliation of the turns it finds, one by one.      *)

Start ==
  LET todo == {t \in Turn : IsActive(t)} IN
  /\ svc = "off" /\ svc' = "on"
  /\ mapped' = [d \in Delegation |->
       IF d \in bound /\ \E t \in todo : row[t].of = d
         THEN CHOOSE t \in todo : row[t].of = d ELSE NoTurn]
  /\ rec' = [NoRecord EXCEPT !.todo = todo]
  /\ UNCHANGED <<row, bound, turn, chain, child, faults, sent, taken, lost,
                 call, gate, captured, quarantined, events>>

RecordDone == rec' = [NoRecord EXCEPT !.todo = rec.todo]

\* The delegation and the child are read; the answer is used later.
ReadRecord ==
  /\ rec.at = NoTurn /\ rec.todo # {}
  /\ IF svc = "on"
       THEN \E t \in rec.todo :
              rec' = [todo |-> rec.todo \ {t}, at |-> t, stage |-> "read",
                      shown |-> Shown(row[t].of), knew |-> row[t].of \in bound]
       ELSE rec' = NoRecord
  /\ UNCHANGED <<turnVars, call, gate, captured, quarantined, events>>

Unmaps(d) == mapped' = IF rec.knew THEN [mapped EXCEPT ![d] = NoTurn] ELSE mapped

\* The service has stopped, or the turn was ended meanwhile.
RecordGone(t) ==
  /\ svc # "on" \/ ~IsActive(t)
  /\ RecordDone
  /\ IF svc = "on" THEN Unmaps(row[t].of) ELSE UNCHANGED mapped
  /\ UNCHANGED <<row, bound, turn, child, lost, quarantined, faults>>

\* There is no child, or the reconciliation fails: the turn is interrupted.
RecordInterrupted(t) ==
  /\ svc = "on" /\ IsActive(t)
  /\ IF rec.shown = "none"
       THEN UNCHANGED <<lost, faults>>
       ELSE Fault /\ lost' = lost \union {t}
  /\ RowEnds(t, "interrupted") /\ Unmaps(row[t].of) /\ RecordDone
  /\ UNCHANGED <<bound, turn, child, quarantined>>

\* The contract cannot be inherited: the turn is quarantined and its child cancelled.
RecordQuarantined(t) ==
  LET d == row[t].of IN
  /\ svc = "on" /\ IsActive(t) /\ rec.shown # "none"
  /\ rec.shown = "generating" \/ row[t].dispatched
  /\ Fault /\ quarantined' = quarantined \union {t}
  /\ bound' = bound \union {d} /\ mapped' = [mapped EXCEPT ![d] = t]
  /\ child' = Cancelled(d) /\ RecordDone /\ UNCHANGED <<row, turn, lost>>

\* A child that works is watched, with a permit unless it waits for the user.
\* A slip: with one in any case.
WatchedWithPermit(t, m) == [m EXCEPT !.step = "readmit", !.lease = "acquiring"]

Watched(t, m) ==
  IF row[t].status = "waiting" THEN m ELSE [m EXCEPT !.step = "readmit", !.lease = "acquiring"]

\* The turn is taken up: its child is watched, a handoff that was not recorded is sent, or
\* the turn is settled.
TakenUp(t, m) ==
  CASE rec.shown = "generating" -> Watched(t, m)
    [] rec.shown # "generating" /\ ~row[t].dispatched ->
         [m EXCEPT !.runtime = "none", !.step = "admit", !.lease = "acquiring"]
    [] OTHER -> Settling(m, IF rec.shown = "error" THEN "failed" ELSE "completed")

RecordTaken(t) ==
  LET d == row[t].of
      works == rec.shown = "generating"
      m == [NewMemory(d) EXCEPT !.knows = TRUE, !.started = row[t].dispatched \/ works,
                                !.runtime = rec.shown] IN
  /\ svc = "on" /\ IsActive(t) /\ rec.shown # "none"
  /\ bound' = bound \union {d} /\ mapped' = [mapped EXCEPT ![d] = t]
  /\ Becomes(t, TakenUp(t, m))
  /\ row' = IF works /\ ~row[t].dispatched THEN MarkedAs(row, t, "running") ELSE row
  /\ child' = IF works /\ ~row[t].dispatched THEN [child EXCEPT ![d].fresh = FALSE] ELSE child
  /\ IF TakenUp(t, m).settle # "no" THEN rec' = [rec EXCEPT !.stage = "settle"] ELSE RecordDone
  /\ UNCHANGED <<lost, quarantined, faults>>

Reconcile ==
  LET t == rec.at IN
  /\ t # NoTurn /\ rec.stage = "read"
  /\ RecordGone(t) \/ RecordInterrupted(t) \/ RecordQuarantined(t) \/ RecordTaken(t)
  /\ UNCHANGED <<svc, chain, sent, taken, call, gate, captured, events>>

\* The reconciliation waits for the turn it settles.
RecordSettled ==
  /\ rec.stage = "settle" /\ turn[rec.at].settle = "over" /\ RecordDone
  /\ UNCHANGED <<turnVars, call, gate, captured, quarantined, events>>

-----------------------------------------------------------------------------
(* stop(), and the end of the app.                                         *)

Moves(s) == svc' = s

Stop ==
  /\ svc = "on" /\ Moves("draining") /\ events < MaxEvents /\ events' = events + 1
  /\ UNCHANGED <<row, bound, turn, mapped, chain, child, faults, sent, taken, lost,
                 call, gate, rec, captured, quarantined>>

\* The reconciliation has returned: the turns there are are taken and aborted.  Without
\* any there is nothing to wait for.
StopTakes ==
  LET listed == {t \in Turn : turn[t].live} IN
  /\ svc = "draining" /\ rec.at = NoTurn /\ rec.todo = {}
  /\ Moves(IF listed = {} THEN "settling" ELSE "emptying")
  /\ captured' = listed
  /\ turn' = [t \in Turn |-> IF t \in listed THEN Aborted(turn[t]) ELSE turn[t]]
  /\ UNCHANGED <<row, bound, mapped, chain, child, faults, sent, taken, lost,
                 call, gate, rec, quarantined, events>>

\* The operations on their children are over: the children are cancelled.
StopCancels ==
  /\ svc = "emptying" /\ Moves("closing")
  /\ \A d \in Delegation, t \in captured : \A k \in {"run", "gate", "check"} :
       ~Contains(chain[d], <<k, t>>)
  /\ child' = [d \in Delegation |->
       IF d \in bound /\ \E t \in captured : row[t].of = d THEN Cancelled(d)[d] ELSE child[d]]
  /\ UNCHANGED <<row, bound, turn, mapped, chain, faults, sent, taken, lost, serviceVars>>

\* So are acquisitions and deliveries: the turns are settled.
StopSettles ==
  /\ svc = "closing" /\ Moves("settling")
  /\ \A t \in captured : turn[t].step \notin Acquiring \union HandingOff
  /\ turn' = [t \in Turn |->
       IF t \in captured THEN Settling(turn[t], "interrupted") ELSE turn[t]]
  /\ UNCHANGED <<row, bound, mapped, chain, child, faults, sent, taken, lost, serviceVars>>

StopEnds ==
  /\ svc = "settling" /\ Moves("stopped")
  /\ \A t \in captured : turn[t].settle = "over"
  /\ turn' = [t \in Turn |-> [turn[t] EXCEPT !.live = FALSE]]
  /\ mapped' = [d \in Delegation |-> IF mapped[d] \in quarantined THEN mapped[d] ELSE NoTurn]
  /\ captured' = {}
  /\ UNCHANGED <<row, bound, chain, child, faults, sent, taken, lost,
                 call, gate, rec, quarantined, events>>

\* The app goes down, in order or not, and comes up again.  A run of a child is gone, with
\* or without an answer; an interaction it waits for is kept.  A stop that is cut off may
\* have ended turns whose children it had still to cancel.
Restart ==
  /\ svc # "off" /\ events < MaxEvents /\ events' = events + 1
  /\ svc' = "off" /\ turn' = [t \in Turn |-> NoMemory]
  /\ mapped' = [d \in Delegation |-> NoTurn] /\ chain' = [d \in Delegation |-> <<>>]
  /\ call' = [c \in Caller |-> NoCall] /\ gate' = [d \in Delegation |-> NoGate]
  /\ rec' = NoRecord /\ captured' = {} /\ quarantined' = {}
  /\ lost' = lost \union captured
  /\ \E answered \in [Delegation -> BOOLEAN] :
       child' = [d \in Delegation |->
         IF child[d].status \in {"generating", "cancelling"}
           THEN [child[d] EXCEPT !.status = "idle",
                                 !.answer = IF answered[d] THEN child[d].turn ELSE @,
                                 !.fresh = @ \/ answered[d]]
           ELSE child[d]]
  /\ UNCHANGED <<row, bound, faults, sent, taken>>

-----------------------------------------------------------------------------
Calls(c) ==
  \/ SpawnCommits(c) \/ FollowUpCommits(c) \/ CancelReturns(c) \/ Drained(c)
  \/ InterruptReturns(c)

Task(t) ==
  \/ Admit(t) \/ NotAdmitted(t) \/ Checked(t) \/ Acquire(t) \/ ChildIsMade(t)
  \/ Made(t) \/ Unbound(t) \/ Synchronized(t) \/ ChildAccepts(t) \/ SendReturns(t)
  \/ Recalled(t) \/ LookUpResult(t) \/ LinkTape(t)

Boundary(d) ==
  GateVerified(d) \/ GateAdmitted(d) \/ GateRefused(d) \/ GateEntered(d) \/ Completes(d)

Reconciling == ReadRecord \/ Reconcile \/ RecordSettled

Stopping == StopTakes \/ StopCancels \/ StopSettles \/ StopEnds

Child(d) ==
  GateOpens(d) \/ AnswerUnowned(d) \/ ChildAsks(d) \/ ChildWrites(d) \/ ChildEnds(d)

Next ==
  \/ \E c \in Caller : Spawn(c) \/ FollowUp(c) \/ Interrupt(c) \/ Calls(c)
  \/ \E t \in Turn : /\ Task(t) \/ Refuse(t) \/ SendFails(t)
                     /\ UNCHANGED serviceVars
  \/ \E d \in Delegation : Boundary(d) \/ Child(d)
  \/ Start \/ Reconciling \/ Stop \/ Stopping \/ Restart

Spec == Init /\ [][Next]_vars

\* What the service starts it goes on with, and a child that was asked to stop does.  What
\* the user and the parent do, how long a child works, and a restart are left open.
Fairness ==
  /\ \A c \in Caller : WF_vars(Calls(c))
  /\ \A t \in Turn : WF_vars(Task(t) /\ UNCHANGED serviceVars)
  /\ \A d \in Delegation :
       WF_vars(Boundary(d)) /\ WF_vars(child[d].status = "cancelling" /\ ChildEnds(d))
  /\ WF_vars(Reconciling) /\ WF_vars(Stopping)

FairSpec == Spec /\ Fairness
=============================================================================
