------------------------ MODULE LiveDelegationProofs ------------------------
(***************************************************************************)
(* For any delegations, turns, callers, capacity and number of faults: the *)
(* state of live delegation keeps its type, no turn's work is handed to    *)
(* its child twice, wherever crashes fall, a child that waits for its user *)
(* costs no permit of the process, no child works on for nobody, and a     *)
(* turn is completed with the answer of its own run.                       *)
(*                                                                         *)
(* A handoff is accepted at one step of a turn's task, which is reached    *)
(* over the record of the dispatch only; a recovery sends a turn again     *)
(* only where that record is missing.  Every other step of the system      *)
(* keeps a turn where it is or takes it off the way to its delivery.       *)
(***************************************************************************)
EXTENDS LiveDelegationProperties, TLAPS

\* The steps of a task before the dispatch is recorded.
Undelivered == {"admit", "safety", "acquire", "create", "unbound", "sync"}

\* What the rows, the tasks and the history of handoffs agree on.
DispatchSound ==
  \A t \in Turn :
    /\ sent[t] # 0 => sent[t] = 1 /\ row[t].dispatched
    /\ turn[t].step \in Undelivered => sent[t] = 0
    /\ turn[t].step = "send" => sent[t] = 0 /\ row[t].dispatched
    /\ row[t].status = "none" => ~row[t].dispatched

\* A row stays what it is, or an existing one goes on and keeps its record.
RowKept(t) ==
  \/ row'[t] = row[t]
  \/ /\ row[t].status # "none" /\ row'[t].status # "none"
     /\ row[t].dispatched => row'[t].dispatched

\* A task comes no nearer to the delivery, except along its way to the record.
TaskKept(t) ==
  \/ turn'[t].step = turn[t].step
  \/ turn'[t].step \notin Undelivered \union {"send"}
  \/ turn[t].step \in Undelivered /\ turn'[t].step \in Undelivered

\* A step that hands nothing over.
HandsNothing == sent' = sent /\ \A t \in Turn : RowKept(t) /\ TaskKept(t)

Sound == DelegationTypeOK /\ DispatchSound

-----------------------------------------------------------------------------
(* The ActiveTurn. *)

LEMMA SettlingMemory ==
  ASSUME NEW m \in Memory, NEW o \in Ended
  PROVE  Settling(m, o) \in Memory /\ Settling(m, o).step = m.step
BY ZenonT(40) DEF Settling, Memory, MemoryFields, Leases, Phases

LEMMA AbortedMemory ==
  ASSUME NEW m \in Memory
  PROVE  Aborted(m) \in Memory /\ Aborted(m).step = m.step
BY DEF Aborted, Memory, MemoryFields, Leases

LEMMA SuspendedMemory ==
  ASSUME NEW m \in Memory
  PROVE  Suspended(m) \in Memory /\ Suspended(m).step = m.step
BY DEF Suspended, Memory, MemoryFields, Leases

LEMMA ThrownMemory ==
  ASSUME NEW m \in Memory
  PROVE  Thrown(m) \in Memory /\ Thrown(m).step = "over"
<1>1. Settling(m, "interrupted") \in Memory /\ Settling(m, "failed") \in Memory
  BY SettlingMemory DEF Ended
<1> QED
  BY <1>1 DEF Thrown, Memory, MemoryFields, Steps

LEMMA NoMemoryMemory == NoMemory \in Memory /\ NoMemory.step = "none"
BY DEF NoMemory, Memory, MemoryFields, Leases, Phases, Steps

LEMMA NewMemoryMemory ==
  ASSUME NEW d
  PROVE  NewMemory(d) \in Memory /\ NewMemory(d).step = "none"
<1>1. ASSUME NEW m \in Memory, NEW b \in BOOLEAN
      PROVE  /\ [m EXCEPT !.live = TRUE, !.knows = b] \in Memory
             /\ [m EXCEPT !.live = TRUE, !.knows = b].step = m.step
  BY DEF Memory, MemoryFields
<1>2. (d \in bound) \in BOOLEAN
  OBVIOUS
<1> QED
  BY <1>1, <1>2, NoMemoryMemory, Zenon DEF NewMemory

LEMMA ForgottenMemory ==
  ASSUME NEW m \in Memory
  PROVE  /\ Forgotten(m) \in Memory
         /\ Forgotten(m).step = m.step \/ Forgotten(m).step = "over"
<1>1. ASSUME NEW n \in Memory
      PROVE  /\ [n EXCEPT !.step = "over", !.settle = "over", !.lease = "released"] \in Memory
             /\ [n EXCEPT !.step = "over", !.settle = "over", !.lease = "released"].step = "over"
  <2>1. "over" \in Steps /\ "released" \in Leases /\ "over" \in Phases
    BY DEF Steps, Leases, Phases
  <2> QED
    BY <2>1 DEF Memory, MemoryFields
<1>2. /\ [m EXCEPT !.live = FALSE, !.settle = "over", !.lease = "released"] \in Memory
      /\ [m EXCEPT !.live = FALSE, !.settle = "over", !.lease = "released"].step = m.step
  BY DEF Memory, MemoryFields, Leases, Phases
<1> QED
  BY <1>1, <1>2, NoMemoryMemory DEF Forgotten

\* Only the turn that is named changes, and to a memory of its type.
LEMMA BecomesTyped ==
  ASSUME turn \in [Turn -> Memory], NEW t, NEW m, t \in Turn => m \in Memory, Becomes(t, m)
  PROVE  turn' \in [Turn -> Memory]
BY DEF Becomes

\* It does not come nearer to its delivery.
LEMMA BecomesKept ==
  ASSUME turn \in [Turn -> Memory], NEW t, NEW m, Becomes(t, m),
         t \in Turn => \/ m.step = turn[t].step
                       \/ m.step \notin Undelivered \union {"send"}
                       \/ turn[t].step \in Undelivered /\ m.step \in Undelivered
  PROVE  \A q \in Turn : TaskKept(q)
<1>1. SUFFICES ASSUME NEW q \in Turn PROVE TaskKept(q)
  OBVIOUS
<1>2. turn'[q] = IF q = t THEN m ELSE turn[q]
  BY DEF Becomes
<1> QED
  BY <1>2 DEF TaskKept

LEMMA SameTurn == turn' = turn => \A q \in Turn : TaskKept(q)
BY DEF TaskKept

LEMMA SameRow == row' = row => \A q \in Turn : RowKept(q)
BY DEF RowKept

-----------------------------------------------------------------------------
(* Rows and children. *)

LEMMA MarkedRow ==
  ASSUME row \in [Turn -> Row], NEW t, NEW s \in {"running", "waiting"},
         t \in Turn => row[t].status # "none", row' = MarkedAs(row, t, s)
  PROVE  row' \in [Turn -> Row] /\ \A q \in Turn : RowKept(q)
BY DEF MarkedAs, Row, RowStatuses, ActiveStatuses, RowKept

LEMMA EndedRow ==
  ASSUME row \in [Turn -> Row], NEW t, NEW s \in Ended, RowEnds(t, s)
  PROVE  row' \in [Turn -> Row] /\ \A q \in Turn : RowKept(q)
BY DEF RowEnds, IsActive, Row, RowStatuses, ActiveStatuses, Ended, RowKept

LEMMA CancelledChild ==
  ASSUME child \in [Delegation -> ChildSession], NEW d
  PROVE  Cancelled(d) \in [Delegation -> ChildSession]
BY DEF Cancelled, ChildSession, ChildStatuses, Working

\* An operation joins the chain of a child, or leaves it.
LEMMA ChainGrows ==
  ASSUME chain \in [Delegation -> Seq(Queued)], NEW d, NEW k \in {"run", "gate", "check"},
         NEW t \in Turn, chain' = [chain EXCEPT ![d] = Append(@, <<k, t>>)]
  PROVE  chain' \in [Delegation -> Seq(Queued)]
<1>1. <<k, t>> \in Queued
  BY DEF Queued
<1>2. ASSUME NEW s \in Seq(Queued) PROVE Append(s, <<k, t>>) \in Seq(Queued)
  BY <1>1
<1> QED
  BY <1>2

LEMMA ChainLeaves ==
  ASSUME chain \in [Delegation -> Seq(Queued)], NEW d \in Delegation, chain[d] # <<>>,
         Leaves(d)
  PROVE  chain' \in [Delegation -> Seq(Queued)]
<1>1. ASSUME NEW s \in Seq(Queued), s # <<>> PROVE Tail(s) \in Seq(Queued)
  BY <1>1
<1> QED
  BY <1>1 DEF Leaves

\* A status of the child reaches its turn.
LEMMA ApplyStep ==
  ASSUME TurnTypeOK, NEW t \in Turn, NEW m \in Memory, Apply(t, m),
         \/ m.step = turn[t].step
         \/ m.step \notin Undelivered \union {"send"}
  PROVE  /\ turn' \in [Turn -> Memory] /\ row' \in [Turn -> Row]
         /\ chain' \in [Delegation -> Seq(Queued)]
         /\ \A q \in Turn : RowKept(q) /\ TaskKept(q)
<1> DEFINE d == row[t].of
<1>1. row \in [Turn -> Row] /\ turn \in [Turn -> Memory]
      /\ chain \in [Delegation -> Seq(Queued)] /\ d \in Delegation
  BY DEF TurnTypeOK, Row
<1>2. /\ Settling(m, "interrupted") \in Memory /\ Settling(m, "interrupted").step = m.step
      /\ Settling(m, "failed") \in Memory /\ Settling(m, "failed").step = m.step
  BY SettlingMemory DEF Ended
<1>3. /\ turn' \in [Turn -> Memory]
      /\ \A q \in Turn : TaskKept(q)
  <2>1. \E n \in {m, Settling(m, "interrupted"), Settling(m, "failed")} : Becomes(t, n)
    BY Zenon DEF Apply
  <2>2. PICK n \in {m, Settling(m, "interrupted"), Settling(m, "failed")} : Becomes(t, n)
    BY <2>1
  <2>3. n \in Memory /\ n.step = m.step
    BY <1>2, <2>2
  <2> QED
    BY <1>1, <2>2, <2>3, BecomesTyped, BecomesKept
<1>4. row' \in [Turn -> Row] /\ \A q \in Turn : RowKept(q)
  <2>1. UNCHANGED row \/ row' = IF m.runtime = "generating" /\ row[t].status = "queued"
                                   THEN MarkedAs(row, t, "running") ELSE row
    BY Zenon DEF Apply
  <2> QED
    BY <1>1, <2>1, MarkedRow, SameRow
<1>5. chain' \in [Delegation -> Seq(Queued)]
  <2>1. UNCHANGED chain \/ chain' = [chain EXCEPT ![d] = Append(@, <<"check", t>>)]
    BY DEF Apply
  <2> QED
    BY <1>1, <2>1, ChainGrows
<1> QED
  BY <1>3, <1>4, <1>5

-----------------------------------------------------------------------------
(* The task of a turn.                                                     *)

\* A step that keeps the type of the turns and hands nothing over.
Harmless == TurnTypeOK' /\ HandsNothing

\* One memory changes, and neither a row nor a chain.
LEMMA MemoryStep ==
  ASSUME TurnTypeOK, NEW t \in Turn, NEW m \in Memory, Becomes(t, m),
         \/ m.step = turn[t].step
         \/ m.step \notin Undelivered \union {"send"}
         \/ turn[t].step \in Undelivered /\ m.step \in Undelivered
  PROVE  turn' \in [Turn -> Memory] /\ \A q \in Turn : TaskKept(q)
BY BecomesTyped, BecomesKept DEF TurnTypeOK

LEMMA ThrowStep ==
  ASSUME TurnTypeOK, NEW t \in Turn, Throw(t), faults' \in Nat
  PROVE  Harmless
<1>1. turn[t] \in Memory
  BY DEF TurnTypeOK
<1>2. Thrown(turn[t]) \in Memory /\ Thrown(turn[t]).step = "over"
  BY <1>1, ThrownMemory
<1>3. turn' \in [Turn -> Memory] /\ \A q \in Turn : TaskKept(q)
  BY <1>2, MemoryStep DEF Throw, Undelivered
<1>4. \A q \in Turn : RowKept(q)
  BY SameRow DEF Throw
<1> QED
  BY <1>3, <1>4 DEF Throw, Harmless, HandsNothing, TurnTypeOK

LEMMA GoesStep ==
  ASSUME TurnTypeOK, NEW t \in Turn, NEW s \in Steps, Goes(t, s), faults' \in Nat,
         \/ s \notin Undelivered \union {"send"}
         \/ turn[t].step \in Undelivered /\ s \in Undelivered
  PROVE  Harmless
<1>1. turn[t] \in Memory
  BY DEF TurnTypeOK
<1>2. [turn[t] EXCEPT !.step = s] \in Memory /\ [turn[t] EXCEPT !.step = s].step = s
  BY <1>1 DEF Memory, MemoryFields
<1>3. turn' \in [Turn -> Memory] /\ \A q \in Turn : TaskKept(q)
  BY <1>2, MemoryStep DEF Goes
<1>4. \A q \in Turn : RowKept(q)
  BY SameRow DEF Goes
<1> QED
  BY <1>3, <1>4 DEF Goes, Harmless, HandsNothing, TurnTypeOK

LEMMA AdmitStep ==
  ASSUME TurnTypeOK, NEW t \in Turn, Admit(t)
  PROVE  Harmless
<1> DEFINE m == turn[t]
           s == CASE m.step = "admit" -> "safety"
                  [] m.step = "readmit" -> "watch"
                  [] OTHER -> m.step
           n == [m EXCEPT !.lease = "active", !.step = s]
<1>1. m \in Memory /\ "active" \in Leases
  BY DEF TurnTypeOK, Leases
<1>2. s \in Steps
  BY <1>1 DEF Memory, MemoryFields, Steps
<1>3. n \in Memory /\ n.step = s
  <2> HIDE DEF s
  <2> QED
    BY <1>1, <1>2 DEF Memory, MemoryFields
<1>4. \/ s = m.step
      \/ s \notin Undelivered \union {"send"}
      \/ m.step \in Undelivered /\ s \in Undelivered
  BY DEF Undelivered
<1>5. Becomes(t, n)
  BY DEF Admit
<1>6. turn' \in [Turn -> Memory] /\ \A q \in Turn : TaskKept(q)
  <2> HIDE DEF s, n
  <2> QED
    BY <1>3, <1>4, <1>5, MemoryStep
<1>7. \A q \in Turn : RowKept(q)
  BY SameRow DEF Admit
<1> QED
  BY <1>6, <1>7 DEF Admit, Harmless, HandsNothing, TurnTypeOK

LEMMA RefuseStep ==
  ASSUME TurnTypeOK, NEW t \in Turn, Refuse(t)
  PROVE  Harmless
<1> DEFINE n == [turn[t] EXCEPT !.lease = "suspended"]
<1>1. turn[t] \in Memory /\ "suspended" \in Leases
  BY DEF TurnTypeOK, Leases
<1>2. n \in Memory /\ n.step = turn[t].step
  BY <1>1 DEF Memory, MemoryFields
<1>3. turn' \in [Turn -> Memory] /\ \A q \in Turn : TaskKept(q)
  <2>1. Becomes(t, n)
    BY DEF Refuse
  <2> HIDE DEF n
  <2> QED
    BY <1>2, <2>1, MemoryStep
<1>4. \A q \in Turn : RowKept(q)
  BY SameRow DEF Refuse
<1> QED
  BY <1>3, <1>4 DEF Refuse, Fault, Harmless, HandsNothing, TurnTypeOK

\* Steps that only throw, or go on to the next step before the delivery.
LEMMA NotAdmittedStep ==
  ASSUME TurnTypeOK, NEW t \in Turn, NotAdmitted(t)
  PROVE  Harmless
<1>1. faults' \in Nat
  BY DEF NotAdmitted, TurnTypeOK
<1>2. Goes(t, "none") \/ Throw(t)
  BY DEF NotAdmitted
<1> QED
  BY <1>1, <1>2, GoesStep, ThrowStep DEF Steps, Undelivered

LEMMA CheckedStep ==
  ASSUME TurnTypeOK, NEW t \in Turn, Checked(t)
  PROVE  Harmless
<1>1. faults' \in Nat
  BY DEF Checked, Fault, TurnTypeOK
<1>2. Goes(t, "acquire") \/ Throw(t)
  BY DEF Checked
<1> QED
  BY <1>1, <1>2, GoesStep, ThrowStep DEF Checked, Steps, Undelivered

\* The child is bound: the turn waits to be synchronized, or goes no further.
LEMMA BindStep ==
  ASSUME TurnTypeOK, NEW t \in Turn, Bind(t), turn[t].step \in Undelivered
  PROVE  Harmless
<1> DEFINE d == row[t].of
           m == [turn[t] EXCEPT !.knows = TRUE]
           n(s) == [m EXCEPT !.step = s]
<1>1. turn[t] \in Memory /\ d \in Delegation
  BY DEF TurnTypeOK, Row
<1>2. ASSUME NEW s \in Steps PROVE n(s) \in Memory /\ n(s).step = s
  BY <1>1 DEF Memory, MemoryFields
<1>3. \E s \in {"unbound", "sync"} : Becomes(t, n(s))
  BY DEF Bind
<1>4. turn' \in [Turn -> Memory] /\ \A q \in Turn : TaskKept(q)
  <2>1. PICK s \in {"unbound", "sync"} : Becomes(t, n(s))
    BY <1>3
  <2>2. s \in Steps /\ (s \notin Undelivered \union {"send"} \/ s \in Undelivered)
    BY DEF Steps, Undelivered
  <2> HIDE DEF n
  <2> QED
    BY <1>2, <2>1, <2>2, MemoryStep
<1>5. child' \in [Delegation -> ChildSession]
  BY CancelledChild DEF Bind, TurnTypeOK
<1>6. chain' \in [Delegation -> Seq(Queued)]
  <2>1. UNCHANGED chain \/ chain' = [chain EXCEPT ![d] = Append(@, <<"run", t>>)]
    BY DEF Bind
  <2> QED
    BY <2>1, ChainGrows DEF TurnTypeOK
<1>7. \A q \in Turn : RowKept(q)
  BY SameRow DEF Bind
<1>8. faults' \in Nat /\ bound' \subseteq Delegation
  BY <1>1 DEF Bind, Fault, TurnTypeOK
<1> QED
  BY <1>1, <1>4, <1>5, <1>6, <1>7, <1>8 DEF Bind, Harmless, HandsNothing, TurnTypeOK

LEMMA AcquireStep ==
  ASSUME TurnTypeOK, NEW t \in Turn, Acquire(t)
  PROVE  Harmless
<1>1. turn[t].step \in Undelivered
  BY DEF Acquire, Undelivered
<1>2. Bind(t) \/ (UNCHANGED faults /\ (Throw(t) \/ Goes(t, "create")))
  BY Zenon DEF Acquire
<1>3. UNCHANGED faults => faults' \in Nat
  BY DEF TurnTypeOK
<1> QED
  BY <1>1, <1>2, <1>3, BindStep, ThrowStep, GoesStep DEF Steps, Undelivered

LEMMA ChildIsMadeStep ==
  ASSUME TurnTypeOK, NEW t \in Turn, ChildIsMade(t)
  PROVE  Harmless
<1>1. CASE Fault /\ Throw(t)
  <2>1. faults' \in Nat
    BY <1>1 DEF Fault, TurnTypeOK
  <2> QED
    BY <1>1, <2>1, ThrowStep
<1>2. CASE ~(Fault /\ Throw(t))
  <2> DEFINE d == row[t].of
  <2>1. /\ child' = [child EXCEPT ![d].status = "idle"]
        /\ UNCHANGED <<row, bound, svc, turn, mapped, chain, faults, sent, taken, lost>>
    BY <1>2 DEF ChildIsMade
  <2>2. child' \in [Delegation -> ChildSession]
    BY <2>1, ZenonT(40) DEF TurnTypeOK, ChildSession, ChildStatuses
  <2> QED
    BY <2>1, <2>2, SameRow, SameTurn DEF Harmless, HandsNothing, TurnTypeOK
<1> QED
  BY <1>1, <1>2 DEF ChildIsMade

LEMMA MadeStep ==
  ASSUME TurnTypeOK, NEW t \in Turn, Made(t)
  PROVE  Harmless
BY BindStep DEF Made, Undelivered

\* Steps that can only throw.
LEMMA OtherwiseThrownStep ==
  ASSUME TurnTypeOK, NEW t \in Turn, Unbound(t) \/ Recalled(t) \/ SendFails(t)
  PROVE  Harmless
<1>1. Throw(t) /\ faults' \in Nat
  BY DEF Unbound, Recalled, SendFails, Fault, TurnTypeOK
<1> QED
  BY <1>1, ThrowStep

LEMMA SendReturnsStep ==
  ASSUME TurnTypeOK, NEW t \in Turn, SendReturns(t)
  PROVE  Harmless
<1> DEFINE m == [turn[t] EXCEPT !.started = TRUE]
           n(s) == [m EXCEPT !.step = s]
<1>1. turn[t] \in Memory
  BY DEF TurnTypeOK
<1>2. ASSUME NEW s \in Steps PROVE n(s) \in Memory /\ n(s).step = s
  BY <1>1 DEF Memory, MemoryFields
<1>3. /\ "recalled" \in Steps /\ "recalled" \notin Undelivered \union {"send"}
      /\ "watch" \in Steps /\ "watch" \notin Undelivered \union {"send"}
  BY DEF Steps, Undelivered
<1>4. CASE m.aborted
  <2>1. /\ Becomes(t, n("recalled")) /\ child' = Cancelled(row[t].of)
        /\ UNCHANGED <<row, chain, bound, svc, mapped, faults, sent, taken, lost>>
    BY <1>4 DEF SendReturns
  <2>2. turn' \in [Turn -> Memory] /\ \A q \in Turn : TaskKept(q)
    <3> HIDE DEF n
    <3> QED
      BY <1>2, <1>3, <2>1, MemoryStep
  <2> QED
    BY <2>1, <2>2, SameRow, CancelledChild DEF Harmless, HandsNothing, TurnTypeOK
<1>5. CASE ~m.aborted
  <2>1. /\ Apply(t, n("watch"))
        /\ UNCHANGED <<child, bound, svc, mapped, faults, sent, taken, lost>>
    BY <1>5 DEF SendReturns
  <2>2. /\ turn' \in [Turn -> Memory] /\ row' \in [Turn -> Row]
        /\ chain' \in [Delegation -> Seq(Queued)]
        /\ \A q \in Turn : RowKept(q) /\ TaskKept(q)
    <3> HIDE DEF n
    <3> QED
      BY <1>2, <1>3, <2>1, ApplyStep
  <2> QED
    BY <2>1, <2>2 DEF Harmless, HandsNothing, TurnTypeOK
<1> QED
  BY <1>4, <1>5

\* The `finally` of a settlement, and the end of the row.
LEMMA UnlistStep ==
  ASSUME TurnTypeOK, NEW t \in Turn, Unlist(t)
  PROVE  /\ turn' \in [Turn -> Memory] /\ \A q \in Turn : TaskKept(q)
         /\ mapped' \in [Delegation -> Turn \union {NoTurn}]
<1>1. /\ Forgotten(turn[t]) \in Memory
      /\ \/ Forgotten(turn[t]).step = turn[t].step
         \/ Forgotten(turn[t]).step \notin Undelivered \union {"send"}
  BY ForgottenMemory DEF TurnTypeOK, Undelivered
<1>2. turn' \in [Turn -> Memory] /\ \A q \in Turn : TaskKept(q)
  BY <1>1, MemoryStep DEF Unlist
<1> QED
  BY <1>2 DEF Unlist, TurnTypeOK

LEMMA FinishStep ==
  ASSUME TurnTypeOK, NEW t \in Turn, NEW s \in Ended, Finish(t, s),
         taken' \in [Turn -> Turn \union {NoTurn}]
  PROVE  Harmless
<1>1. row' \in [Turn -> Row] /\ \A q \in Turn : RowKept(q)
  <2>1. RowEnds(t, s) \/ UNCHANGED row
    BY DEF Finish
  <2> QED
    BY <2>1, EndedRow, SameRow DEF TurnTypeOK
<1>2. lost' \subseteq Turn /\ faults' \in Nat
  BY DEF Finish, Fault, TurnTypeOK
<1>3. Unlist(t)
  BY DEF Finish
<1> QED
  BY <1>1, <1>2, <1>3, UnlistStep DEF Finish, Harmless, HandsNothing, TurnTypeOK

\* A turn is completed with an answer that its child has.
LEMMA ResultsTyped ==
  ASSUME TurnTypeOK, NEW t \in Turn
  PROVE  Results(t) \subseteq Turn \union {NoTurn}
<1>1. /\ row[t].of \in Delegation /\ turn[t].seen \in Turn \union {NoTurn}
  BY DEF TurnTypeOK, Row, Memory, MemoryFields
<1>2. child[row[t].of].answer \in Turn \union {NoTurn}
  BY <1>1 DEF TurnTypeOK, ChildSession
<1>3. \A r \in Results(t) : r \in {NoTurn, turn[t].seen, child[row[t].of].answer}
  BY Zenon DEF Results
<1> QED
  BY <1>1, <1>2, <1>3

LEMMA LookUpResultStep ==
  ASSUME TurnTypeOK, NEW t \in Turn, LookUpResult(t)
  PROVE  Harmless
<1>1. PICK r \in Results(t) : Resolve(t, r)
  BY DEF LookUpResult
<1> DEFINE m == turn[t]
           s == IF m.aborted THEN "interrupted"
                ELSE IF m.outcome = "completed" /\ r = NoTurn THEN "failed" ELSE m.outcome
           n == [m EXCEPT !.settle = "tape", !.outcome = s]
<1>2. m \in Memory /\ m.settle = "lookup" /\ r \in Turn \union {NoTurn}
  BY ResultsTyped DEF TurnTypeOK, LookUpResult
<1>3. s \in Ended
  BY <1>2 DEF Memory, Ended
<1>4. n \in Memory /\ n.step = m.step
  <2>1. "tape" \in Phases
    BY DEF Phases
  <2> HIDE DEF s
  <2> QED
    BY <1>2, <1>3, <2>1 DEF Memory, MemoryFields
<1>5. /\ taken' = [taken EXCEPT ![t] = IF s = "completed" THEN r ELSE @]
      /\ \/ /\ Becomes(t, n)
            /\ UNCHANGED <<row, bound, svc, mapped, chain, child, faults, sent, lost>>
         \/ Finish(t, s)
  BY <1>1 DEF Resolve
<1> HIDE DEF s, n
<1>6. taken' \in [Turn -> Turn \union {NoTurn}]
  BY <1>2, <1>5 DEF TurnTypeOK
<1>7. CASE Finish(t, s)
  BY <1>3, <1>6, <1>7, FinishStep
<1>8. CASE /\ Becomes(t, n)
           /\ UNCHANGED <<row, bound, svc, mapped, chain, child, faults, sent, lost>>
  <2>1. turn' \in [Turn -> Memory] /\ \A q \in Turn : TaskKept(q)
    BY <1>4, <1>8, MemoryStep
  <2> QED
    BY <1>6, <1>8, <2>1, SameRow DEF Harmless, HandsNothing, TurnTypeOK
<1> QED
  BY <1>5, <1>7, <1>8

LEMMA LinkTapeStep ==
  ASSUME TurnTypeOK, NEW t \in Turn, LinkTape(t)
  PROVE  Harmless
<1>1. taken' \in [Turn -> Turn \union {NoTurn}]
  BY DEF LinkTape, TurnTypeOK
<1>2. turn[t].outcome \in Ended
  BY DEF LinkTape, TurnTypeOK, Memory
<1>3. CASE Finish(t, turn[t].outcome)
  BY <1>1, <1>2, <1>3, FinishStep
<1>4. CASE Fault /\ Unlist(t) /\ RowEnds(t, "failed")
           /\ UNCHANGED <<bound, svc, chain, child, sent, lost>>
  <2>1. row' \in [Turn -> Row] /\ \A q \in Turn : RowKept(q)
    BY <1>4, EndedRow DEF TurnTypeOK, Ended
  <2>2. faults' \in Nat
    BY <1>4 DEF Fault, TurnTypeOK
  <2> QED
    BY <1>1, <1>4, <2>1, <2>2, UnlistStep DEF Harmless, HandsNothing, TurnTypeOK
<1> QED
  BY <1>3, <1>4 DEF LinkTape

-----------------------------------------------------------------------------
(* The record of the dispatch, and the handoff.                            *)

LEMMA HarmlessSound == DispatchSound /\ HandsNothing => DispatchSound'
<1>1. SUFFICES ASSUME DispatchSound, HandsNothing, NEW t \in Turn
               PROVE  /\ sent'[t] # 0 => sent'[t] = 1 /\ row'[t].dispatched
                      /\ turn'[t].step \in Undelivered => sent'[t] = 0
                      /\ turn'[t].step = "send" => sent'[t] = 0 /\ row'[t].dispatched
                      /\ row'[t].status = "none" => ~row'[t].dispatched
  BY DEF DispatchSound
<1>2. sent'[t] = sent[t] /\ RowKept(t) /\ TaskKept(t)
  BY <1>1 DEF HandsNothing
<1>3. row[t].dispatched => row'[t].dispatched
  BY <1>2 DEF RowKept
<1>4. turn'[t].step \in Undelivered => turn[t].step \in Undelivered
  BY <1>2 DEF TaskKept
<1>5. turn'[t].step = "send" => turn[t].step = "send"
  BY <1>2 DEF TaskKept, Undelivered
<1>6. row'[t].status = "none" => row'[t] = row[t]
  BY <1>2 DEF RowKept
<1> QED
  BY <1>1, <1>2, <1>3, <1>4, <1>5, <1>6 DEF DispatchSound

LEMMA ParkStep ==
  ASSUME TurnTypeOK, NEW t \in Turn, Park(t)
  PROVE  /\ turn' \in [Turn -> Memory] /\ \A q \in Turn : TaskKept(q)
         /\ mapped' \in [Delegation -> Turn \union {NoTurn}] /\ lost' \subseteq Turn
<1> DEFINE n == [turn[t] EXCEPT !.live = FALSE, !.lease = "released", !.step = "over"]
<1>1. turn[t] \in Memory /\ "over" \in Steps /\ "released" \in Leases
  BY DEF TurnTypeOK, Steps, Leases
<1>2. n \in Memory /\ n.step = "over"
  BY <1>1 DEF Memory, MemoryFields
<1>3. Becomes(t, n)
  BY DEF Park
<1>4. turn' \in [Turn -> Memory] /\ \A q \in Turn : TaskKept(q)
  <2> HIDE DEF n
  <2> QED
    BY <1>2, <1>3, MemoryStep DEF Undelivered
<1> QED
  BY <1>4 DEF Park, TurnTypeOK

\* The dispatch is recorded before the handoff is on its way.
LEMMA DispatchStep ==
  ASSUME TurnTypeOK, DispatchSound, NEW t \in Turn, Dispatch(t), IsActive(t),
         turn[t].step \in Undelivered, UNCHANGED sent
  PROVE  /\ turn' \in [Turn -> Memory] /\ row' \in [Turn -> Row]
         /\ mapped' \in [Delegation -> Turn \union {NoTurn}]
         /\ child' \in [Delegation -> ChildSession]
         /\ DispatchSound'
<1> DEFINE n == [turn[t] EXCEPT !.step = "send"]
<1>1. turn[t] \in Memory /\ "send" \in Steps
  BY DEF TurnTypeOK, Steps
<1>2. n \in Memory /\ n.step = "send"
  BY <1>1 DEF Memory, MemoryFields
<1>3. turn' = [turn EXCEPT ![t] = n]
  BY DEF Dispatch, Becomes
<1> HIDE DEF n
<1>4. turn' \in [Turn -> Memory]
  BY <1>2, <1>3 DEF TurnTypeOK
<1>5. /\ row' \in [Turn -> Row]
      /\ row' = [row EXCEPT ![t].status = "running", ![t].dispatched = TRUE]
  BY MarkedRow DEF Dispatch, MarkedAs, IsActive, ActiveStatuses, TurnTypeOK
<1>6. DispatchSound'
  <2>1. SUFFICES ASSUME NEW q \in Turn
                 PROVE  /\ sent'[q] # 0 => sent'[q] = 1 /\ row'[q].dispatched
                        /\ turn'[q].step \in Undelivered => sent'[q] = 0
                        /\ turn'[q].step = "send" => sent'[q] = 0 /\ row'[q].dispatched
                        /\ row'[q].status = "none" => ~row'[q].dispatched
    BY DEF DispatchSound
  <2>2. CASE q # t
    <3>1. row'[q] = row[q] /\ turn'[q] = turn[q]
      BY <1>3, <1>5, <2>2 DEF TurnTypeOK
    <3> QED
      BY <3>1 DEF DispatchSound
  <2>3. CASE q = t
    <3>1. row'[t].status = "running" /\ row'[t].dispatched = TRUE /\ turn'[t].step = "send"
      BY <1>2, <1>3, <1>5 DEF TurnTypeOK, Row
    <3>2. sent'[t] = 0
      BY DEF DispatchSound
    <3> QED
      BY <2>3, <3>1, <3>2
  <2> QED
    BY <2>2, <2>3
<1>7. /\ mapped' \in [Delegation -> Turn \union {NoTurn}]
      /\ child' \in [Delegation -> ChildSession]
  BY DEF Dispatch, TurnTypeOK, ChildSession
<1> QED
  BY <1>4, <1>5, <1>6, <1>7

LEMMA SynchronizedStep ==
  ASSUME TurnTypeOK, DispatchSound, NEW t \in Turn, Synchronized(t)
  PROVE  TurnTypeOK' /\ DispatchSound'
<1> DEFINE d == row[t].of
<1>1. /\ turn[t] \in Memory /\ d \in Delegation /\ turn[t].step \in Undelivered
      /\ UNCHANGED <<bound, svc, sent, taken>>
  BY DEF Synchronized, TurnTypeOK, Row, Undelivered
<1>2. chain' \in [Delegation -> Seq(Queued)]
  BY <1>1, ChainLeaves DEF Synchronized, TurnTypeOK
<1>3. Thrown(turn[t]) \in Memory /\ Thrown(turn[t]).step = "over"
  BY <1>1, ThrownMemory
<1>4. CASE Becomes(t, Thrown(turn[t])) /\ UNCHANGED <<row, child, lost>> /\ faults' \in Nat
           /\ mapped' \in [Delegation -> Turn \union {NoTurn}]
  <2>1. turn' \in [Turn -> Memory] /\ \A q \in Turn : TaskKept(q)
    BY <1>3, <1>4, MemoryStep DEF Undelivered
  <2> QED
    BY <1>1, <1>2, <1>4, <2>1, SameRow, HarmlessSound DEF HandsNothing, TurnTypeOK
<1>5. CASE Park(t) /\ UNCHANGED <<row, child>> /\ faults' \in Nat
  BY <1>1, <1>2, <1>5, ParkStep, SameRow, HarmlessSound DEF HandsNothing, TurnTypeOK
<1>6. CASE Dispatch(t) /\ IsActive(t) /\ UNCHANGED faults
  <2>1. UNCHANGED lost
    BY <1>6 DEF Dispatch
  <2> QED
    BY <1>1, <1>2, <1>6, <2>1, DispatchStep DEF TurnTypeOK
<1>7. faults' = faults \/ Fault => faults' \in Nat
  BY DEF Fault, TurnTypeOK
<1>8. mapped' = mapped \/ mapped' = [mapped EXCEPT ![d] = t]
      => mapped' \in [Delegation -> Turn \union {NoTurn}]
  BY DEF TurnTypeOK
<1>9. \/ Inherit(t)
      \/ Noticed(t) /\ Becomes(t, Thrown(turn[t])) /\ UNCHANGED <<row, mapped, child, lost>>
  BY DEF Synchronized
<1>10. CASE Inherit(t)
  <2>1. \/ Park(t) /\ UNCHANGED <<row, child>> /\ (UNCHANGED faults \/ Fault)
        \/ mapped' = [mapped EXCEPT ![d] = t] /\ Becomes(t, Thrown(turn[t]))
           /\ UNCHANGED <<row, child, lost, faults>>
        \/ IsActive(t) /\ Dispatch(t) /\ UNCHANGED faults
    BY <1>10 DEF Inherit
  <2> QED
    BY <1>4, <1>5, <1>6, <1>7, <1>8, <2>1
<1> QED
  BY <1>4, <1>7, <1>8, <1>9, <1>10 DEF Noticed

\* A handoff is accepted once.
LEMMA ChildAcceptsStep ==
  ASSUME TurnTypeOK, DispatchSound, NEW t \in Turn, ChildAccepts(t)
  PROVE  TurnTypeOK' /\ DispatchSound'
<1> DEFINE d == row[t].of
           m == [turn[t] EXCEPT !.step = "accepted"]
           n == IF Hears(d) /\ mapped[d] = t THEN [m EXCEPT !.runtime = "generating"] ELSE m
<1>1. turn[t] \in Memory /\ "accepted" \in Steps /\ "accepted" \notin Undelivered
      /\ turn[t].step = "send"
  BY DEF TurnTypeOK, Steps, Undelivered, ChildAccepts
<1>2. n \in Memory /\ n.step = "accepted"
  BY <1>1 DEF Memory, MemoryFields
<1>3. turn' = [turn EXCEPT ![t] = n]
  BY DEF ChildAccepts, Becomes
<1> HIDE DEF n
<1>4. turn' \in [Turn -> Memory]
  BY <1>2, <1>3 DEF TurnTypeOK
<1>5. child' \in [Delegation -> ChildSession]
  <2>1. d \in Delegation /\ child \in [Delegation -> ChildSession]
    BY DEF TurnTypeOK, Row
  <2>2. [child[d] EXCEPT !.status = "generating", !.turn = t] \in ChildSession
    BY <2>1 DEF ChildSession, ChildStatuses, Working
  <2>3. child' = [child EXCEPT ![d] = [child[d] EXCEPT !.status = "generating", !.turn = t]]
    BY <2>1 DEF ChildAccepts
  <2> QED
    BY <2>1, <2>2, <2>3
<1>6. sent[t] = 0 /\ row[t].dispatched
  BY <1>1 DEF DispatchSound
<1>7. sent' = [sent EXCEPT ![t] = 1] /\ UNCHANGED row
  BY <1>6 DEF ChildAccepts, TurnTypeOK
<1>8. TurnTypeOK'
  <2>1. UNCHANGED <<bound, svc, mapped, chain, faults, taken, lost>>
    BY DEF ChildAccepts
  <2> QED
    BY <1>4, <1>5, <1>7, <2>1 DEF TurnTypeOK
<1>9. DispatchSound'
  <2>1. SUFFICES ASSUME NEW q \in Turn
                 PROVE  /\ sent'[q] # 0 => sent'[q] = 1 /\ row'[q].dispatched
                        /\ turn'[q].step \in Undelivered => sent'[q] = 0
                        /\ turn'[q].step = "send" => sent'[q] = 0 /\ row'[q].dispatched
                        /\ row'[q].status = "none" => ~row'[q].dispatched
    BY DEF DispatchSound
  <2>2. CASE q # t
    <3>1. sent'[q] = sent[q] /\ turn'[q] = turn[q]
      BY <1>3, <1>7, <2>2 DEF TurnTypeOK
    <3> QED
      BY <1>7, <3>1 DEF DispatchSound
  <2>3. CASE q = t
    <3>1. sent'[t] = 1 /\ turn'[t].step = "accepted"
      BY <1>2, <1>3, <1>7 DEF TurnTypeOK
    <3> QED
      BY <1>1, <1>6, <1>7, <2>3, <3>1 DEF DispatchSound
  <2> QED
    BY <2>2, <2>3
<1> QED
  BY <1>8, <1>9

\* Every step of a task.
LEMMA TaskStep ==
  ASSUME TurnTypeOK, DispatchSound, NEW t \in Turn, Task(t) \/ Refuse(t) \/ SendFails(t)
  PROVE  TurnTypeOK' /\ DispatchSound'
<1>1. Harmless => TurnTypeOK' /\ DispatchSound'
  BY HarmlessSound DEF Harmless
<1>2. CASE Admit(t) \/ Refuse(t) \/ NotAdmitted(t) \/ Checked(t)
  BY <1>1, <1>2, AdmitStep, RefuseStep, NotAdmittedStep, CheckedStep
<1>3. CASE Acquire(t) \/ ChildIsMade(t) \/ Made(t)
  BY <1>1, <1>3, AcquireStep, ChildIsMadeStep, MadeStep
<1>4. CASE Unbound(t) \/ Recalled(t) \/ SendFails(t) \/ SendReturns(t)
  BY <1>1, <1>4, OtherwiseThrownStep, SendReturnsStep
<1>5. CASE LookUpResult(t) \/ LinkTape(t)
  BY <1>1, <1>5, LookUpResultStep, LinkTapeStep
<1>6. CASE Synchronized(t) \/ ChildAccepts(t)
  BY <1>6, SynchronizedStep, ChildAcceptsStep
<1> QED
  BY <1>2, <1>3, <1>4, <1>5, <1>6 DEF Task

-----------------------------------------------------------------------------
(* The calls of the parent.                                                *)

\* A row is inserted: its turn has no record of a dispatch, and was never handed over.
LEMMA ScheduleStep ==
  ASSUME TurnTypeOK, DispatchSound, NEW t \in Turn, NEW d \in Delegation,
         NEW k \in {"initial", "follow_up"}, row[t].status = "none", Schedule(t, d, k)
  PROVE  TurnTypeOK' /\ DispatchSound'
<1> DEFINE n == [NewMemory(d) EXCEPT !.step = "admit", !.lease = "acquiring"]
           r == [status |-> "queued", of |-> d, kind |-> k, dispatched |-> FALSE]
<1>1. NewMemory(d) \in Memory /\ "admit" \in Steps /\ "acquiring" \in Leases
  BY NewMemoryMemory DEF Steps, Leases
<1>2. n \in Memory /\ n.step = "admit"
  BY <1>1 DEF Memory, MemoryFields
<1>3. r \in Row
  BY DEF Row, RowStatuses, ActiveStatuses
<1>4. turn' = [turn EXCEPT ![t] = n] /\ row' = [row EXCEPT ![t] = r]
  BY DEF Schedule, Becomes
<1>5. sent[t] = 0 /\ UNCHANGED sent
  BY DEF DispatchSound, Schedule
<1>6. r.status = "queued" /\ ~r.dispatched
  OBVIOUS
<1> HIDE DEF n, r
<1>7. TurnTypeOK'
  BY <1>2, <1>3, <1>4 DEF Schedule, TurnTypeOK
<1>8. ASSUME NEW q \in Turn
      PROVE  /\ sent'[q] # 0 => sent'[q] = 1 /\ row'[q].dispatched
             /\ turn'[q].step \in Undelivered => sent'[q] = 0
             /\ turn'[q].step = "send" => sent'[q] = 0 /\ row'[q].dispatched
             /\ row'[q].status = "none" => ~row'[q].dispatched
  <2>1. CASE q # t
    <3>1. row'[q] = row[q] /\ turn'[q] = turn[q]
      BY <1>4, <2>1 DEF TurnTypeOK
    <3> QED
      BY <1>5, <3>1 DEF DispatchSound
  <2>2. CASE q = t
    <3>1. row'[t] = r /\ turn'[t] = n
      BY <1>4 DEF TurnTypeOK
    <3> QED
      BY <1>2, <1>5, <1>6, <2>2, <3>1
  <2> QED
    BY <2>1, <2>2
<1> QED
  BY <1>7, <1>8 DEF DispatchSound

\* The empty values have their types; there is a delegation.
LEMMA EmptyTyped ==
  /\ NoCall \in Call /\ NoGate \in Gate /\ NoRecord \in Record
  /\ NoRow \in Row /\ ~NoRow.dispatched /\ NoChild \in ChildSession
<1>1. (CHOOSE d \in Delegation : TRUE) \in Delegation
  BY DelegationAssumption
<1> QED
  BY <1>1 DEF NoCall, Call, NoGate, Gate, GateFields, NoRecord, Record, NoRow, Row, RowStatuses,
              NoChild, ChildSession, ChildStatuses

LEMMA QuietStep ==
  ASSUME TurnTypeOK, DispatchSound, UNCHANGED turnVars
  PROVE  TurnTypeOK' /\ DispatchSound'
BY DEF turnVars, TurnTypeOK, DispatchSound

\* A call ends, or comes to its next stage.
LEMMA CallEnds ==
  ASSUME call \in [Caller -> Call], NEW c, Ends(c)
  PROVE  call' \in [Caller -> Call]
BY EmptyTyped DEF Ends

LEMMA CallBegins ==
  ASSUME ServiceTypeOK, NEW c \in Caller, NEW o \in {"spawn", "follow_up"}, NEW d \in Delegation,
         Begins(c, o, d, "checking"), UNCHANGED <<gate, rec, captured, quarantined>>
  PROVE  ServiceTypeOK'
<1>1. [op |-> o, of |-> d, turn |-> NoTurn, stage |-> "checking"] \in Call
  BY DEF Call
<1>2. call' \in [Caller -> Call] /\ events' \in Nat
  BY <1>1 DEF Begins, ServiceTypeOK
<1> QED
  BY <1>2 DEF ServiceTypeOK

LEMMA BeginStep ==
  ASSUME Sound, NEW c \in Caller, Spawn(c) \/ FollowUp(c)
  PROVE  Sound'
<1>1. \E o \in {"spawn", "follow_up"}, d \in Delegation : Begins(c, o, d, "checking")
  BY DEF Spawn, FollowUp
<1>2. UNCHANGED <<turnVars, gate, rec, captured, quarantined>>
  BY DEF Spawn, FollowUp
<1> QED
  BY <1>1, <1>2, CallBegins, QuietStep DEF Sound, DelegationTypeOK

LEMMA CommitStep ==
  ASSUME Sound, NEW c \in Caller, SpawnCommits(c) \/ FollowUpCommits(c)
  PROVE  Sound'
<1> DEFINE d == call[c].of
<1>1. d \in Delegation
  BY DEF Sound, DelegationTypeOK, ServiceTypeOK, Call
<1>2. UNCHANGED turnVars \/ \E t \in Turn, k \in {"initial", "follow_up"} :
                              IsNext(t) /\ Schedule(t, d, k)
  BY DEF SpawnCommits, FollowUpCommits
<1>3. TurnTypeOK' /\ DispatchSound'
  BY <1>1, <1>2, QuietStep, ScheduleStep DEF Sound, DelegationTypeOK, IsNext
<1>4. Ends(c) /\ UNCHANGED <<gate, rec, captured, quarantined, events>>
  BY DEF SpawnCommits, FollowUpCommits
<1>5. ServiceTypeOK'
  BY <1>4, CallEnds DEF Sound, DelegationTypeOK, ServiceTypeOK
<1> QED
  BY <1>3, <1>5 DEF Sound, DelegationTypeOK

LEMMA InterruptListedStep ==
  ASSUME Sound, NEW c \in Caller, NEW d \in Delegation, NEW t \in Turn,
         InterruptListed(c, d, t)
  PROVE  /\ turn' \in [Turn -> Memory] /\ row' \in [Turn -> Row]
         /\ \A q \in Turn : TaskKept(q) /\ RowKept(q)
         /\ child' \in [Delegation -> ChildSession] /\ call' \in [Caller -> Call]
<1>1. turn[t] \in Memory /\ TurnTypeOK /\ call \in [Caller -> Call]
  BY DEF Sound, DelegationTypeOK, TurnTypeOK, ServiceTypeOK
<1>2. turn' \in [Turn -> Memory] /\ \A q \in Turn : TaskKept(q)
  BY <1>1, AbortedMemory, MemoryStep DEF InterruptListed
<1>3. row' \in [Turn -> Row] /\ \A q \in Turn : RowKept(q)
  BY <1>1, SameRow DEF InterruptListed, TurnTypeOK
<1>4. child' \in [Delegation -> ChildSession]
  BY <1>1, CancelledChild DEF InterruptListed, TurnTypeOK
<1>5. call' \in [Caller -> Call]
  <2>1. [op |-> "interrupt", of |-> d, turn |-> t, stage |-> "drain"] \in Call
    BY DEF Call
  <2> QED
    BY <1>1, <2>1 DEF InterruptListed
<1> QED
  BY <1>2, <1>3, <1>4, <1>5

LEMMA InterruptUnlistedStep ==
  ASSUME Sound, NEW c \in Caller, NEW d \in Delegation, NEW t \in Turn,
         InterruptUnlisted(c, d, t)
  PROVE  /\ turn' \in [Turn -> Memory] /\ row' \in [Turn -> Row]
         /\ \A q \in Turn : TaskKept(q) /\ RowKept(q)
         /\ child' \in [Delegation -> ChildSession] /\ call' \in [Caller -> Call]
<1>1. TurnTypeOK /\ call \in [Caller -> Call]
  BY DEF Sound, DelegationTypeOK, ServiceTypeOK
<1>2. turn' \in [Turn -> Memory] /\ \A q \in Turn : TaskKept(q)
  BY <1>1, SameTurn DEF InterruptUnlisted, TurnTypeOK
<1>3. row' \in [Turn -> Row] /\ \A q \in Turn : RowKept(q)
  BY <1>1, EndedRow DEF InterruptUnlisted, TurnTypeOK, Ended
<1>4. child' \in [Delegation -> ChildSession]
  BY <1>1, CancelledChild DEF InterruptUnlisted, TurnTypeOK
<1>5. call' \in [Caller -> Call]
  <2>1. [op |-> "interrupt", of |-> d, turn |-> t, stage |-> "cancel"] \in Call
    BY DEF Call
  <2> QED
    BY <1>1, <2>1 DEF InterruptUnlisted
<1> QED
  BY <1>2, <1>3, <1>4, <1>5

LEMMA HarmlessServed ==
  ASSUME Sound, Harmless, ServiceTypeOK'
  PROVE  Sound'
BY HarmlessSound DEF Sound, Harmless, DelegationTypeOK

LEMMA InterruptStep ==
  ASSUME Sound, NEW c \in Caller, Interrupt(c)
  PROVE  Sound'
<1>1. \E d \in Delegation, t \in Turn : InterruptListed(c, d, t) \/ InterruptUnlisted(c, d, t)
  BY DEF Interrupt, Listed, TurnsOf
<1>2. /\ turn' \in [Turn -> Memory] /\ row' \in [Turn -> Row]
      /\ \A q \in Turn : TaskKept(q) /\ RowKept(q)
      /\ child' \in [Delegation -> ChildSession] /\ call' \in [Caller -> Call]
  BY <1>1, InterruptListedStep, InterruptUnlistedStep
<1>3. /\ UNCHANGED <<bound, svc, mapped, chain, faults, sent, taken, lost,
                     gate, rec, captured, quarantined>>
      /\ events' = events + 1
  BY DEF Interrupt
<1>4. Harmless
  BY <1>2, <1>3 DEF Sound, DelegationTypeOK, TurnTypeOK, Harmless, HandsNothing
<1>5. ServiceTypeOK'
  BY <1>2, <1>3 DEF Sound, DelegationTypeOK, ServiceTypeOK
<1> QED
  BY <1>4, <1>5, HarmlessServed

LEMMA CancelReturnsStep ==
  ASSUME Sound, NEW c \in Caller, CancelReturns(c)
  PROVE  Sound'
<1>1. mapped' \in [Delegation -> Turn \union {NoTurn}]
  BY DEF CancelReturns, Sound, DelegationTypeOK, TurnTypeOK
<1>2. Harmless
  BY <1>1, SameTurn, SameRow
  DEF CancelReturns, Sound, DelegationTypeOK, TurnTypeOK, Harmless, HandsNothing
<1>3. ServiceTypeOK'
  BY CallEnds DEF CancelReturns, Sound, DelegationTypeOK, ServiceTypeOK
<1> QED
  BY <1>2, <1>3, HarmlessServed

LEMMA DrainedStep ==
  ASSUME Sound, NEW c \in Caller, Drained(c)
  PROVE  Sound'
<1> DEFINE t == call[c].turn
           m == Settling(turn[t], "interrupted")
<1>1. turn \in [Turn -> Memory] /\ call \in [Caller -> Call]
  BY DEF Sound, DelegationTypeOK, TurnTypeOK, ServiceTypeOK
<1>2. t \in Turn => m \in Memory /\ m.step = turn[t].step
  BY <1>1, SettlingMemory DEF Ended
<1>3. Becomes(t, m)
  BY DEF Drained
<1>4. turn' \in [Turn -> Memory] /\ \A q \in Turn : TaskKept(q)
  <2> HIDE DEF m
  <2> QED
    BY <1>1, <1>2, <1>3, BecomesTyped, BecomesKept
<1>5. Harmless
  BY <1>4, SameRow DEF Drained, Sound, DelegationTypeOK, TurnTypeOK, Harmless, HandsNothing
<1>6. ServiceTypeOK'
  <2>1. [call[c] EXCEPT !.stage = "settling"] \in Call
    BY <1>1 DEF Call
  <2>2. call' = [call EXCEPT ![c] = [call[c] EXCEPT !.stage = "settling"]]
    BY <1>1 DEF Drained
  <2> QED
    BY <1>1, <2>1, <2>2 DEF Drained, Sound, DelegationTypeOK, ServiceTypeOK
<1> QED
  BY <1>5, <1>6, HarmlessServed

LEMMA CallsStep ==
  ASSUME Sound, NEW c \in Caller, Calls(c)
  PROVE  Sound'
<1>1. CASE InterruptReturns(c)
  <2>1. ServiceTypeOK'
    BY <1>1, CallEnds DEF InterruptReturns, Sound, DelegationTypeOK, ServiceTypeOK
  <2> QED
    BY <1>1, <2>1, QuietStep DEF InterruptReturns, Sound, DelegationTypeOK
<1> QED
  BY <1>1, CommitStep, CancelReturnsStep, DrainedStep DEF Calls

-----------------------------------------------------------------------------
(* The boundary of a child.                                                *)

\* The turn at the boundary is stopped if it is not being settled.
LEMMA UnverifiedStep ==
  ASSUME TurnTypeOK, NEW d, NEW t, Unverified(d, t)
  PROVE  /\ turn' \in [Turn -> Memory] /\ \A q \in Turn : TaskKept(q)
         /\ child' \in [Delegation -> ChildSession]
<1> DEFINE m == Settling(Aborted(turn[t]), "interrupted")
<1>1. t \in Turn => m \in Memory /\ m.step = turn[t].step
  BY AbortedMemory, SettlingMemory DEF TurnTypeOK, Ended
<1>2. CASE Becomes(t, m) /\ child' = Cancelled(d)
  <2> HIDE DEF m
  <2>1. turn \in [Turn -> Memory] /\ child \in [Delegation -> ChildSession]
    BY DEF TurnTypeOK
  <2> QED
    BY <1>1, <1>2, <2>1, BecomesTyped, BecomesKept, CancelledChild
<1>3. CASE UNCHANGED <<turn, child>>
  BY <1>3, SameTurn DEF TurnTypeOK
<1> QED
  BY <1>2, <1>3 DEF Unverified

\* What a boundary does to itself.
LEMMA GateTyped ==
  ASSUME gate \in [Delegation -> Gate], NEW d \in Delegation, gate[d].turn \in Turn,
         \/ Passes(d) \/ \E s \in {"verify", "resume", "enter"} : Stands(d, s)
  PROVE  gate' \in [Delegation -> Gate]
<1>1. gate[d] \in Gate
  OBVIOUS
<1>2. ASSUME NEW s \in {"verify", "resume", "enter"}
      PROVE  [gate[d] EXCEPT !.stage = s] \in Gate
  BY <1>1 DEF Gate, GateFields
<1> QED
  BY <1>2, EmptyTyped DEF Passes, Stands

\* The turn at a boundary.
LEMMA GateTurn ==
  ASSUME Sound, NEW d \in Delegation, gate[d].stage # "none"
  PROVE  gate[d].turn \in Turn /\ gate[d] \in Gate
BY DEF Sound, DelegationTypeOK, ServiceTypeOK, Gate

\* What the steps of a boundary share: they change a turn, a child, a chain and the boundary.
LEMMA BoundaryServed ==
  ASSUME Sound, turn' \in [Turn -> Memory], \A q \in Turn : TaskKept(q),
         row' \in [Turn -> Row], \A q \in Turn : RowKept(q),
         child' \in [Delegation -> ChildSession], chain' \in [Delegation -> Seq(Queued)],
         mapped' \in [Delegation -> Turn \union {NoTurn}], gate' \in [Delegation -> Gate],
         faults' \in Nat,
         UNCHANGED <<bound, svc, sent, taken, lost, call, rec, captured, quarantined, events>>
  PROVE  Sound'
<1>1. Harmless
  BY DEF Sound, DelegationTypeOK, TurnTypeOK, Harmless, HandsNothing
<1>2. ServiceTypeOK'
  BY DEF Sound, DelegationTypeOK, ServiceTypeOK
<1> QED
  BY <1>1, <1>2, HarmlessServed

\* The parts of the type that the steps of a boundary and of a child rest on.
LEMMA SoundParts ==
  ASSUME Sound
  PROVE  /\ TurnTypeOK /\ turn \in [Turn -> Memory] /\ row \in [Turn -> Row]
         /\ child \in [Delegation -> ChildSession] /\ chain \in [Delegation -> Seq(Queued)]
         /\ mapped \in [Delegation -> Turn \union {NoTurn}] /\ gate \in [Delegation -> Gate]
         /\ faults \in Nat /\ (faults' = faults \/ Fault => faults' \in Nat)
BY DEF Sound, DelegationTypeOK, TurnTypeOK, ServiceTypeOK, Fault

LEMMA GateOpensStep ==
  ASSUME Sound, NEW d \in Delegation, GateOpens(d)
  PROVE  Sound'
<1> DEFINE t == mapped[d]
<1>1. t \in Turn
  BY SoundParts DEF GateOpens, Owned
<1>2. gate' \in [Delegation -> Gate]
  <2>1. PICK k \in {"answer", "tool"}, s \in {"enter", "verify"} :
               gate' = [gate EXCEPT ![d] = [kind |-> k, turn |-> t, stage |-> s]]
    BY Zenon DEF GateOpens
  <2>2. [kind |-> k, turn |-> t, stage |-> s] \in Gate
    BY <1>1 DEF Gate, GateFields
  <2> QED
    BY <2>1, <2>2, SoundParts
<1>3. chain' \in [Delegation -> Seq(Queued)]
  BY <1>1, ChainGrows, SoundParts DEF GateOpens, Synchronizes
<1>4. UNCHANGED <<row, bound, svc, turn, mapped, child, faults, sent, taken, lost,
                  call, rec, captured, quarantined, events>>
  BY DEF GateOpens
<1> QED
  BY <1>2, <1>3, <1>4, SoundParts, SameRow, SameTurn, BoundaryServed

LEMMA GateVerifiedStep ==
  ASSUME Sound, NEW d \in Delegation, GateVerified(d)
  PROVE  Sound'
<1> DEFINE t == gate[d].turn
           n == [turn[t] EXCEPT !.lease = IF @ = "suspended" THEN "acquiring" ELSE @]
<1>1. t \in Turn
  BY GateTurn DEF GateVerified, GateIsUp, AtGate
<1>2. n \in Memory /\ n.step = turn[t].step
  <2>1. turn[t] \in Memory /\ "acquiring" \in Leases
    BY <1>1, SoundParts DEF Leases
  <2>2. ASSUME NEW l \in Leases
        PROVE  /\ [turn[t] EXCEPT !.lease = l] \in Memory
               /\ [turn[t] EXCEPT !.lease = l].step = turn[t].step
    BY <2>1 DEF Memory, MemoryFields
  <2>3. turn[t].lease \in Leases
    BY <2>1 DEF Memory, MemoryFields
  <2> QED
    BY <2>1, <2>2, <2>3
<1>3. \/ Becomes(t, n) /\ Stands(d, "resume") /\ UNCHANGED <<child, faults>>
      \/ (UNCHANGED faults \/ Fault) /\ Unverified(d, t) /\ Passes(d)
  BY Zenon DEF GateVerified
<1>4. /\ Leaves(d) /\ chain[d] # <<>>
      /\ UNCHANGED <<row, bound, svc, mapped, sent, taken, lost,
                     call, rec, captured, quarantined, events>>
  BY DEF GateVerified, GateIsUp
<1> HIDE DEF n
<1>5. /\ turn' \in [Turn -> Memory] /\ \A q \in Turn : TaskKept(q)
      /\ child' \in [Delegation -> ChildSession]
  BY <1>1, <1>2, <1>3, SoundParts, MemoryStep, UnverifiedStep
<1>6. gate' \in [Delegation -> Gate] /\ chain' \in [Delegation -> Seq(Queued)]
  BY <1>1, <1>3, <1>4, SoundParts, GateTyped, ChainLeaves
<1>7. faults' \in Nat
  BY <1>3, SoundParts
<1> QED
  BY <1>4, <1>5, <1>6, <1>7, SoundParts, SameRow, BoundaryServed

LEMMA GateAdmittedStep ==
  ASSUME Sound, NEW d \in Delegation, GateAdmitted(d)
  PROVE  Sound'
<1> DEFINE t == gate[d].turn
<1>1. t \in Turn
  BY GateTurn DEF GateAdmitted, AtGate
<1>2. \/ Stands(d, "enter") /\ Synchronizes(d, t) /\ UNCHANGED <<turn, child>>
      \/ Unverified(d, t) /\ Passes(d) /\ UNCHANGED chain
  BY Zenon DEF GateAdmitted
<1>3. UNCHANGED <<row, bound, svc, mapped, faults, sent, taken, lost,
                  call, rec, captured, quarantined, events>>
  BY DEF GateAdmitted
<1>4. /\ turn' \in [Turn -> Memory] /\ \A q \in Turn : TaskKept(q)
      /\ child' \in [Delegation -> ChildSession]
  BY <1>1, <1>2, SoundParts, SameTurn, UnverifiedStep
<1>5. gate' \in [Delegation -> Gate]
  BY <1>1, <1>2, SoundParts, GateTyped
<1>6. chain' \in [Delegation -> Seq(Queued)]
  BY <1>1, <1>2, SoundParts, ChainGrows DEF Synchronizes
<1> QED
  BY <1>3, <1>4, <1>5, <1>6, SoundParts, SameRow, BoundaryServed

LEMMA GateRefusedStep ==
  ASSUME Sound, NEW d \in Delegation, GateRefused(d)
  PROVE  Sound'
<1> DEFINE t == gate[d].turn
<1>1. t \in Turn
  BY GateTurn DEF GateRefused, AtGate
<1>2. /\ Unverified(d, t) /\ Passes(d)
      /\ UNCHANGED <<row, bound, svc, mapped, chain, faults, sent, taken, lost,
                     call, rec, captured, quarantined, events>>
  BY DEF GateRefused
<1>3. /\ turn' \in [Turn -> Memory] /\ \A q \in Turn : TaskKept(q)
      /\ child' \in [Delegation -> ChildSession]
  BY <1>2, SoundParts, UnverifiedStep
<1>4. gate' \in [Delegation -> Gate]
  BY <1>1, <1>2, SoundParts, GateTyped
<1> QED
  BY <1>2, <1>3, <1>4, SoundParts, SameRow, BoundaryServed

LEMMA GateEnteredStep ==
  ASSUME Sound, NEW d \in Delegation, GateEntered(d)
  PROVE  Sound'
<1> DEFINE t == gate[d].turn
           n == IF turn[t].live /\ row[t].status = "waiting" THEN Suspended(turn[t]) ELSE turn[t]
           goes == [child EXCEPT ![d].status = "generating"]
<1>1. t \in Turn /\ turn[t] \in Memory
  BY GateTurn, SoundParts DEF GateEntered, GateIsUp, AtGate
<1>2. n \in Memory /\ n.step = turn[t].step
  BY <1>1, SuspendedMemory
<1>3. goes \in [Delegation -> ChildSession]
  BY SoundParts DEF ChildSession, ChildStatuses, Working
<1>4. /\ Leaves(d) /\ chain[d] # <<>> /\ Passes(d)
      /\ UNCHANGED <<row, bound, svc, sent, taken, lost, call, rec, captured, quarantined, events>>
  BY DEF GateEntered, GateIsUp
<1>5. /\ UNCHANGED mapped \/ mapped' = [mapped EXCEPT ![d] = t]
      /\ UNCHANGED faults \/ Fault
      /\ \/ (child' = goes \/ UNCHANGED child) /\ UNCHANGED turn
         \/ Becomes(t, n) /\ UNCHANGED child
         \/ Unverified(d, t)
  <2> HIDE DEF n, goes
  <2> DEFINE ok == Wanted(d) /\ ~turn[t].aborted
             answered == gate[d].kind = "answer" /\ child[d].status = "waiting"
  <2>1. \/ /\ child' = IF answered THEN goes ELSE child
           /\ UNCHANGED mapped \/ mapped' = [mapped EXCEPT ![d] = t]
           /\ UNCHANGED <<turn, faults>>
        \/ /\ Fault /\ Becomes(t, n) /\ UNCHANGED <<child, mapped>>
        \/ /\ IF ok THEN Fault ELSE UNCHANGED faults
           /\ Unverified(d, t) /\ UNCHANGED mapped
    BY Zenon DEF GateEntered, n, goes
  <2> HIDE DEF ok, answered
  <2> QED
    BY <2>1, Zenon
<1> HIDE DEF n, goes
<1>6. /\ turn' \in [Turn -> Memory] /\ \A q \in Turn : TaskKept(q)
      /\ child' \in [Delegation -> ChildSession]
  <2>1. CASE UNCHANGED turn /\ (child' = goes \/ UNCHANGED child)
    BY <1>3, <2>1, SoundParts, SameTurn
  <2>2. CASE Becomes(t, n) /\ UNCHANGED child
    BY <1>1, <1>2, <2>2, SoundParts, MemoryStep
  <2>3. CASE Unverified(d, t)
    BY <2>3, SoundParts, UnverifiedStep
  <2> QED
    BY <1>5, <2>1, <2>2, <2>3
<1>7. /\ mapped' \in [Delegation -> Turn \union {NoTurn}] /\ faults' \in Nat
  BY <1>1, <1>5, SoundParts
<1>8. gate' \in [Delegation -> Gate] /\ chain' \in [Delegation -> Seq(Queued)]
  BY <1>1, <1>4, SoundParts, GateTyped, ChainLeaves
<1> QED
  BY <1>4, <1>6, <1>7, <1>8, SoundParts, SameRow, BoundaryServed

LEMMA CompletesStep ==
  ASSUME Sound, NEW d \in Delegation, Completes(d)
  PROVE  Sound'
<1> DEFINE t == Head(chain[d])[2]
           n == Settling(turn[t], "completed")
<1>1. chain[d] # <<>> /\ chain[d] \in Seq(Queued)
  BY SoundParts DEF Completes
<1>2. t \in Turn
  <2>1. Head(chain[d]) \in Queued
    BY <1>1
  <2> QED
    BY <2>1 DEF Queued
<1>3. n \in Memory /\ n.step = turn[t].step
  BY <1>2, SoundParts, SettlingMemory DEF Ended
<1>4. \/ Becomes(t, n) /\ UNCHANGED <<child, faults>>
      \/ (UNCHANGED faults \/ Fault) /\ Unverified(d, t)
  BY Zenon DEF Completes, Noticed
<1>5. /\ Leaves(d)
      /\ UNCHANGED <<row, bound, svc, mapped, sent, taken, lost, serviceVars>>
  BY DEF Completes
<1> HIDE DEF t, n
<1>6. /\ turn' \in [Turn -> Memory] /\ \A q \in Turn : TaskKept(q)
      /\ child' \in [Delegation -> ChildSession]
  BY <1>2, <1>3, <1>4, SoundParts, MemoryStep, UnverifiedStep
<1>7. chain' \in [Delegation -> Seq(Queued)] /\ faults' \in Nat
  BY <1>1, <1>4, <1>5, SoundParts, ChainLeaves
<1> QED
  BY <1>5, <1>6, <1>7, SoundParts, SameRow, BoundaryServed DEF serviceVars

LEMMA BoundaryStep ==
  ASSUME Sound, NEW d \in Delegation, Boundary(d)
  PROVE  Sound'
BY GateVerifiedStep, GateAdmittedStep, GateRefusedStep, GateEnteredStep, CompletesStep
DEF Boundary

-----------------------------------------------------------------------------
(* The child at work.                                                      *)

LEMMA AnswerUnownedStep ==
  ASSUME Sound, NEW d \in Delegation, AnswerUnowned(d)
  PROVE  Sound'
<1>1. child' \in [Delegation -> ChildSession]
  BY SoundParts, ZenonT(40) DEF AnswerUnowned, ChildSession, ChildStatuses, Working
<1> QED
  BY <1>1, SoundParts, SameRow, SameTurn, BoundaryServed DEF AnswerUnowned, serviceVars

LEMMA ChildAsksStep ==
  ASSUME Sound, NEW d \in Delegation, ChildAsks(d)
  PROVE  Sound'
<1> DEFINE t == mapped[d]
           n == [Suspended(turn[t]) EXCEPT !.seen = child[d].turn]
<1>1. child' \in [Delegation -> ChildSession]
  BY SoundParts DEF ChildAsks, ChildSession, ChildStatuses, Working
<1>2. UNCHANGED <<chain, bound, svc, mapped, faults, sent, taken, lost, serviceVars>>
  BY DEF ChildAsks, PublishWaiting
<1>3. CASE Hears(d)
  <2>1. t \in Turn
    BY <1>3, SoundParts DEF Hears
  <2>2. child[d].turn \in Turn \union {NoTurn}
    BY SoundParts DEF ChildSession
  <2>3. Suspended(turn[t]) \in Memory /\ Suspended(turn[t]).step = turn[t].step
    BY <2>1, SoundParts, SuspendedMemory
  <2>4. n \in Memory /\ n.step = turn[t].step
    BY <2>2, <2>3 DEF Memory, MemoryFields
  <2>5. /\ Becomes(t, n)
        /\ row' = IF IsActive(t) THEN MarkedAs(row, t, "waiting") ELSE row
    BY <1>3 DEF ChildAsks, PublishWaiting
  <2>6. turn' \in [Turn -> Memory] /\ \A q \in Turn : TaskKept(q)
    <3> HIDE DEF n
    <3> QED
      BY <2>1, <2>4, <2>5, SoundParts, MemoryStep
  <2>7. row' \in [Turn -> Row] /\ \A q \in Turn : RowKept(q)
    BY <2>5, SoundParts, MarkedRow, SameRow DEF IsActive, ActiveStatuses
  <2> QED
    BY <1>1, <1>2, <2>6, <2>7, SoundParts, BoundaryServed DEF serviceVars
<1>4. CASE ~Hears(d)
  BY <1>1, <1>2, <1>4, SoundParts, SameRow, SameTurn, BoundaryServed
  DEF ChildAsks, PublishWaiting, serviceVars
<1> QED
  BY <1>3, <1>4

LEMMA ChildWritesStep ==
  ASSUME Sound, NEW d \in Delegation, ChildWrites(d)
  PROVE  Sound'
<1> DEFINE t == mapped[d]
           n == [turn[t] EXCEPT !.seen = child[d].turn]
<1>1. UNCHANGED <<chain, bound, svc, mapped, child, faults, sent, taken, lost, serviceVars>>
  BY DEF ChildWrites, PublishBlocks
<1>2. CASE Hears(d)
  <2>1. t \in Turn /\ turn[t] \in Memory
    BY <1>2, SoundParts DEF Hears
  <2>2. child[d].turn \in Turn \union {NoTurn}
    BY SoundParts DEF ChildSession
  <2>3. n \in Memory /\ n.step = turn[t].step
    BY <2>1, <2>2 DEF Memory, MemoryFields
  <2>4. Becomes(t, n)
    BY <1>2 DEF ChildWrites, PublishBlocks
  <2>5. UNCHANGED row \/ (row[t].status = "waiting" /\ row' = MarkedAs(row, t, "running"))
    BY <1>2 DEF ChildWrites, PublishBlocks
  <2>6. turn' \in [Turn -> Memory] /\ \A q \in Turn : TaskKept(q)
    <3> HIDE DEF n
    <3> QED
      BY <2>1, <2>3, <2>4, SoundParts, MemoryStep
  <2>7. row' \in [Turn -> Row] /\ \A q \in Turn : RowKept(q)
    BY <2>5, SoundParts, MarkedRow, SameRow
  <2> QED
    BY <1>1, <2>6, <2>7, SoundParts, BoundaryServed DEF serviceVars
<1>3. CASE ~Hears(d)
  BY <1>1, <1>3, SoundParts, SameRow, SameTurn, BoundaryServed
  DEF ChildWrites, PublishBlocks, serviceVars
<1> QED
  BY <1>2, <1>3

LEMMA ChildEndsStep ==
  ASSUME Sound, NEW d \in Delegation, ChildEnds(d)
  PROVE  Sound'
<1>1. PICK s \in {"idle", "error"}, answered \in BOOLEAN :
        /\ child' = [child EXCEPT ![d].status = s,
                                  ![d].answer = IF answered THEN child[d].turn ELSE @,
                                  ![d].fresh = @ \/ answered]
        /\ PublishStatus(d, s)
  BY DEF ChildEnds
<1>2. UNCHANGED <<bound, svc, mapped, faults, sent, taken, lost, serviceVars>>
  BY DEF ChildEnds
<1>3. child' \in [Delegation -> ChildSession]
  <2> DEFINE c == child[d]
             a == IF answered THEN c.turn ELSE c.answer
             f == c.fresh \/ answered
  <2>1. c \in ChildSession /\ a \in Turn \union {NoTurn}
    BY SoundParts DEF ChildSession
  <2>2. f \in BOOLEAN
    OBVIOUS
  <2>3. ASSUME NEW b \in BOOLEAN
        PROVE  [c EXCEPT !.status = s, !.answer = a, !.fresh = b] \in ChildSession
    <3> HIDE DEF a
    <3> QED
      BY <2>1 DEF ChildSession, ChildStatuses
  <2>4. child' = [child EXCEPT ![d] = [c EXCEPT !.status = s, !.answer = a, !.fresh = f]]
    BY <1>1, SoundParts
  <2> HIDE DEF a, c, f
  <2> QED
    BY <2>2, <2>3, <2>4, SoundParts
<1>4. CASE Hears(d)
  <2> DEFINE t == mapped[d]
             n == [turn[t] EXCEPT !.runtime = s]
  <2>1. t \in Turn /\ turn[t] \in Memory
    BY <1>4, SoundParts DEF Hears
  <2>2. n \in Memory /\ n.step = turn[t].step
    BY <2>1 DEF Memory, MemoryFields
  <2>3. Apply(t, n)
    BY <1>1, <1>4 DEF PublishStatus
  <2>4. /\ turn' \in [Turn -> Memory] /\ row' \in [Turn -> Row]
        /\ chain' \in [Delegation -> Seq(Queued)]
        /\ \A q \in Turn : RowKept(q) /\ TaskKept(q)
    <3> HIDE DEF n
    <3> QED
      BY <2>1, <2>2, <2>3, SoundParts, ApplyStep
  <2> QED
    BY <1>2, <1>3, <2>4, SoundParts, BoundaryServed DEF serviceVars
<1>5. CASE ~Hears(d)
  BY <1>1, <1>2, <1>3, <1>5, SoundParts, SameRow, SameTurn, BoundaryServed
  DEF PublishStatus, serviceVars
<1> QED
  BY <1>4, <1>5

-----------------------------------------------------------------------------
(* The reconciliation.                                                     *)

LEMMA RecordParts ==
  ASSUME Sound
  PROVE  /\ rec \in Record /\ rec.todo \subseteq Turn /\ rec.at \in Turn \union {NoTurn}
         /\ [NoRecord EXCEPT !.todo = rec.todo] \in Record
BY EmptyTyped DEF Sound, DelegationTypeOK, ServiceTypeOK, Record

LEMMA StartStep ==
  ASSUME Sound, Start
  PROVE  Sound'
<1> DEFINE todo == {t \in Turn : IsActive(t)}
<1>1. ASSUME NEW d \in Delegation
      PROVE  (IF d \in bound /\ \E t \in todo : row[t].of = d
                THEN CHOOSE t \in todo : row[t].of = d ELSE NoTurn) \in Turn \union {NoTurn}
  OBVIOUS
<1>2. mapped' \in [Delegation -> Turn \union {NoTurn}]
  BY <1>1 DEF Start
<1>3. rec' \in Record
  <2>1. rec' = [NoRecord EXCEPT !.todo = todo] /\ todo \subseteq Turn
    BY DEF Start
  <2> HIDE DEF todo
  <2> QED
    BY <2>1, EmptyTyped DEF Record
<1>4. /\ svc' = "on"
      /\ UNCHANGED <<row, bound, turn, chain, child, faults, sent, taken, lost,
                     call, gate, captured, quarantined, events>>
  BY DEF Start
<1>5. Harmless
  BY <1>2, <1>4, SameRow, SameTurn
  DEF Sound, DelegationTypeOK, TurnTypeOK, Harmless, HandsNothing
<1>6. ServiceTypeOK'
  BY <1>3, <1>4 DEF Sound, DelegationTypeOK, ServiceTypeOK
<1> QED
  BY <1>5, <1>6, HarmlessServed

LEMMA ReadRecordStep ==
  ASSUME Sound, ReadRecord
  PROVE  Sound'
<1>1. rec' \in Record
  <2>1. CASE svc # "on"
    BY <2>1, EmptyTyped DEF ReadRecord
  <2>2. CASE svc = "on"
    <3>1. PICK t \in rec.todo :
            rec' = [todo |-> rec.todo \ {t}, at |-> t, stage |-> "read",
                    shown |-> Shown(row[t].of), knew |-> row[t].of \in bound]
      BY <2>2 DEF ReadRecord
    <3>2. t \in Turn /\ rec.todo \subseteq Turn
      BY <3>1, RecordParts
    <3>3. row[t].of \in Delegation
      BY <3>2, SoundParts DEF Row
    <3>4. Shown(row[t].of) \in {"none", "idle", "generating", "error"}
      BY <3>3, SoundParts DEF Shown, Busy, ChildSession, ChildStatuses, Working
    <3>5. (row[t].of \in bound) \in BOOLEAN
      OBVIOUS
    <3>6. ASSUME NEW s \in {"none", "idle", "generating", "error"}, NEW b \in BOOLEAN
          PROVE  [todo |-> rec.todo \ {t}, at |-> t, stage |-> "read",
                  shown |-> s, knew |-> b] \in Record
      BY <3>2 DEF Record
    <3> QED
      BY <3>1, <3>4, <3>5, <3>6, Zenon
  <2> QED
    BY <2>1, <2>2
<1>2. UNCHANGED <<turnVars, call, gate, captured, quarantined, events>>
  BY DEF ReadRecord
<1>3. ServiceTypeOK'
  BY <1>1, <1>2 DEF Sound, DelegationTypeOK, ServiceTypeOK
<1> QED
  BY <1>2, <1>3, QuietStep DEF Sound, DelegationTypeOK

LEMMA RecordSettledStep ==
  ASSUME Sound, RecordSettled
  PROVE  Sound'
<1>1. /\ rec' \in Record
      /\ UNCHANGED <<turnVars, call, gate, captured, quarantined, events>>
  BY RecordParts DEF RecordSettled, RecordDone
<1>2. ServiceTypeOK'
  BY <1>1 DEF Sound, DelegationTypeOK, ServiceTypeOK
<1> QED
  BY <1>1, <1>2, QuietStep DEF Sound, DelegationTypeOK

\* A turn that is not taken up again.
LEMMA RecordLeftStep ==
  ASSUME Sound, Reconcile,
         RecordGone(rec.at) \/ RecordInterrupted(rec.at) \/ RecordQuarantined(rec.at)
  PROVE  Sound'
<1> DEFINE t == rec.at
           d == row[t].of
<1>1. t \in Turn /\ d \in Delegation
  BY RecordParts, SoundParts DEF Reconcile, Row
<1>2. UNCHANGED <<svc, chain, sent, taken, call, gate, captured, events, turn>>
  BY DEF Reconcile, RecordGone, RecordInterrupted, RecordQuarantined
<1>3. RecordDone /\ (UNCHANGED faults \/ Fault)
  BY DEF RecordGone, RecordInterrupted, RecordQuarantined
<1>4. \/ UNCHANGED mapped \/ mapped' = [mapped EXCEPT ![d] = NoTurn]
      \/ mapped' = [mapped EXCEPT ![d] = t]
  BY DEF RecordGone, RecordInterrupted, RecordQuarantined, Unmaps
<1>5. /\ UNCHANGED row \/ RowEnds(t, "interrupted")
      /\ UNCHANGED child \/ child' = Cancelled(d)
      /\ UNCHANGED bound \/ bound' = bound \union {d}
      /\ UNCHANGED quarantined \/ quarantined' = quarantined \union {t}
      /\ UNCHANGED lost \/ lost' = lost \union {t}
  BY DEF RecordGone, RecordInterrupted, RecordQuarantined
<1>6. row' \in [Turn -> Row] /\ \A q \in Turn : RowKept(q)
  BY <1>1, <1>5, SoundParts, EndedRow, SameRow DEF Ended
<1>7. child' \in [Delegation -> ChildSession]
  BY <1>5, SoundParts, CancelledChild
<1>8. mapped' \in [Delegation -> Turn \union {NoTurn}] /\ faults' \in Nat
  BY <1>1, <1>3, <1>4, SoundParts
<1>9. bound' \subseteq Delegation /\ quarantined' \subseteq Turn /\ lost' \subseteq Turn
  BY <1>1, <1>5 DEF Sound, DelegationTypeOK, TurnTypeOK, ServiceTypeOK
<1>10. Harmless
  BY <1>2, <1>6, <1>7, <1>8, <1>9, SameTurn
  DEF Sound, DelegationTypeOK, TurnTypeOK, Harmless, HandsNothing
<1>11. ServiceTypeOK'
  BY <1>2, <1>3, <1>9, RecordParts DEF RecordDone, Sound, DelegationTypeOK, ServiceTypeOK
<1> QED
  BY <1>10, <1>11, HarmlessServed

\* A turn is taken up: it is sent again only where no dispatch is recorded.
LEMMA TakenUpMemory ==
  ASSUME Sound, NEW t \in Turn, NEW m \in Memory, m.step = "none"
  PROVE  /\ TakenUp(t, m) \in Memory
         /\ TakenUp(t, m).step \in {"none", "readmit", "admit"}
         /\ TakenUp(t, m).step = "admit" => ~row[t].dispatched
<1>1. "readmit" \in Steps /\ "admit" \in Steps /\ "acquiring" \in Leases
  BY DEF Steps, Leases
<1>2. /\ Watched(t, m) \in Memory /\ Watched(t, m).step \in {"none", "readmit"}
  <2>1. /\ [m EXCEPT !.step = "readmit", !.lease = "acquiring"] \in Memory
        /\ [m EXCEPT !.step = "readmit", !.lease = "acquiring"].step = "readmit"
    BY <1>1 DEF Memory, MemoryFields
  <2> QED
    BY <2>1 DEF Watched
<1>3. /\ [m EXCEPT !.runtime = "none", !.step = "admit", !.lease = "acquiring"] \in Memory
      /\ [m EXCEPT !.runtime = "none", !.step = "admit", !.lease = "acquiring"].step = "admit"
  BY <1>1 DEF Memory, MemoryFields
<1>4. ASSUME NEW o \in {"failed", "completed"}
      PROVE  Settling(m, o) \in Memory /\ Settling(m, o).step = "none"
  BY SettlingMemory DEF Ended
<1> QED
  BY <1>2, <1>3, <1>4 DEF TakenUp

LEMMA RecordTakenStep ==
  ASSUME Sound, Reconcile, RecordTaken(rec.at)
  PROVE  Sound'
<1> DEFINE t == rec.at
           d == row[t].of
           works == rec.shown = "generating"
           b == row[t].dispatched \/ works
           m == [NewMemory(d) EXCEPT !.knows = TRUE, !.started = b, !.runtime = rec.shown]
           n == TakenUp(t, m)
<1>1. t \in Turn /\ d \in Delegation /\ row[t].status # "none"
  BY RecordParts, SoundParts DEF Reconcile, Row, RecordTaken, IsActive, ActiveStatuses
<1>2. m \in Memory /\ m.step = "none"
  <2>1. rec.shown \in {"none", "idle", "generating", "error"}
    BY RecordParts DEF Record
  <2>2. b \in BOOLEAN
    OBVIOUS
  <2>3. NewMemory(d) \in Memory /\ NewMemory(d).step = "none"
    BY NewMemoryMemory
  <2> HIDE DEF b
  <2> QED
    BY <2>1, <2>2, <2>3 DEF Memory, MemoryFields
<1> HIDE DEF m
<1>3. /\ n \in Memory /\ n.step \in {"none", "readmit", "admit"}
      /\ n.step = "admit" => ~row[t].dispatched
  BY <1>1, <1>2, TakenUpMemory
<1>4. /\ bound' = bound \union {d} /\ mapped' = [mapped EXCEPT ![d] = t]
      /\ turn' = [turn EXCEPT ![t] = n]
      /\ UNCHANGED <<svc, chain, sent, taken, call, gate, captured, events,
                     lost, quarantined, faults>>
  BY DEF Reconcile, RecordTaken, Becomes, m
<1>5. /\ UNCHANGED row \/ row' = MarkedAs(row, t, "running")
      /\ UNCHANGED child \/ child' = [child EXCEPT ![d].fresh = FALSE]
      /\ rec' = [rec EXCEPT !.stage = "settle"] \/ RecordDone
  BY Zenon DEF RecordTaken
<1> HIDE DEF n
<1>6. row' \in [Turn -> Row] /\ \A q \in Turn : RowKept(q)
  BY <1>1, <1>5, SoundParts, MarkedRow, SameRow
<1>7. child' \in [Delegation -> ChildSession]
  BY <1>5, SoundParts DEF ChildSession
<1>8. turn' \in [Turn -> Memory]
  BY <1>3, <1>4, SoundParts
<1>9. TurnTypeOK'
  BY <1>1, <1>4, <1>6, <1>7, <1>8, SoundParts DEF TurnTypeOK
<1>10. ServiceTypeOK'
  <2>1. rec' \in Record
    BY <1>5, RecordParts DEF RecordDone, Record
  <2> QED
    BY <1>4, <2>1 DEF Sound, DelegationTypeOK, ServiceTypeOK
<1>11. ASSUME NEW q \in Turn
       PROVE  /\ sent'[q] # 0 => sent'[q] = 1 /\ row'[q].dispatched
              /\ turn'[q].step \in Undelivered => sent'[q] = 0
              /\ turn'[q].step = "send" => sent'[q] = 0 /\ row'[q].dispatched
              /\ row'[q].status = "none" => ~row'[q].dispatched
  <2>1. RowKept(q) /\ UNCHANGED sent
    BY <1>4, <1>6
  <2>2. /\ row[q].dispatched => row'[q].dispatched
        /\ row'[q].status = "none" => row'[q] = row[q]
    BY <2>1, SMTT(20) DEF RowKept
  <2>3. CASE q # t
    <3>1. turn'[q] = turn[q]
      BY <1>4, <2>3, SoundParts
    <3> QED
      BY <2>1, <2>2, <3>1 DEF Sound, DispatchSound
  <2>4. CASE q = t
    <3>1. turn'[q] = n
      BY <1>4, <2>4, SoundParts
    <3> QED
      BY <1>3, <2>1, <2>2, <2>4, <3>1 DEF Sound, DispatchSound, Undelivered
  <2> QED
    BY <2>3, <2>4
<1> QED
  BY <1>9, <1>10, <1>11 DEF Sound, DelegationTypeOK, DispatchSound

LEMMA ReconcilingStep ==
  ASSUME Sound, Reconciling
  PROVE  Sound'
BY ReadRecordStep, RecordSettledStep, RecordLeftStep, RecordTakenStep
DEF Reconciling, Reconcile

-----------------------------------------------------------------------------
(* stop(), and a restart.                                                  *)

\* Steps that change what the service is about, and no row and no memory.
LEMMA StopStep ==
  ASSUME Sound, Stop
  PROVE  Sound'
<1>1. Harmless
  BY SameRow, SameTurn DEF Stop, Moves, Sound, DelegationTypeOK, TurnTypeOK, Harmless, HandsNothing
<1>2. ServiceTypeOK'
  BY DEF Stop, Sound, DelegationTypeOK, ServiceTypeOK
<1> QED
  BY <1>1, <1>2, HarmlessServed

LEMMA StopTakesStep ==
  ASSUME Sound, StopTakes
  PROVE  Sound'
<1> DEFINE listed == {t \in Turn : turn[t].live}
<1>1. /\ turn' = [t \in Turn |-> IF t \in listed THEN Aborted(turn[t]) ELSE turn[t]]
      /\ captured' = listed /\ svc' \in {"settling", "emptying"}
      /\ UNCHANGED <<row, bound, mapped, chain, child, faults, sent, taken, lost,
                     call, gate, rec, quarantined, events>>
  BY DEF StopTakes, Moves
<1>2. ASSUME NEW t \in Turn
      PROVE  turn'[t] \in Memory /\ TaskKept(t)
  BY <1>1, SoundParts, AbortedMemory DEF TaskKept
<1>3. turn' \in [Turn -> Memory]
  BY <1>1, <1>2
<1>4. Harmless
  BY <1>1, <1>2, <1>3, SameRow DEF Sound, DelegationTypeOK, TurnTypeOK, Harmless, HandsNothing
<1>5. ServiceTypeOK'
  BY <1>1 DEF Sound, DelegationTypeOK, ServiceTypeOK
<1> QED
  BY <1>4, <1>5, HarmlessServed

LEMMA StopCancelsStep ==
  ASSUME Sound, StopCancels
  PROVE  Sound'
<1>1. /\ child' = [d \in Delegation |->
           IF d \in bound /\ \E t \in captured : row[t].of = d THEN Cancelled(d)[d] ELSE child[d]]
      /\ svc' = "closing"
      /\ UNCHANGED <<row, bound, turn, mapped, chain, faults, sent, taken, lost, serviceVars>>
  BY DEF StopCancels, Moves
<1>2. child' \in [Delegation -> ChildSession]
  <2>1. ASSUME NEW d \in Delegation
        PROVE  Cancelled(d)[d] \in ChildSession /\ child[d] \in ChildSession
    BY SoundParts, CancelledChild
  <2> QED
    BY <1>1, <2>1
<1>3. Harmless
  BY <1>1, <1>2, SameRow, SameTurn
  DEF Sound, DelegationTypeOK, TurnTypeOK, Harmless, HandsNothing
<1>4. ServiceTypeOK'
  BY <1>1 DEF serviceVars, Sound, DelegationTypeOK, ServiceTypeOK
<1> QED
  BY <1>3, <1>4, HarmlessServed

LEMMA StopSettlesStep ==
  ASSUME Sound, StopSettles
  PROVE  Sound'
<1>1. /\ turn' = [t \in Turn |->
           IF t \in captured THEN Settling(turn[t], "interrupted") ELSE turn[t]]
      /\ svc' = "settling"
      /\ UNCHANGED <<row, bound, mapped, chain, child, faults, sent, taken, lost, serviceVars>>
  BY DEF StopSettles, Moves
<1>2. ASSUME NEW t \in Turn
      PROVE  turn'[t] \in Memory /\ TaskKept(t)
  BY <1>1, SoundParts, SettlingMemory DEF TaskKept, Ended
<1>3. turn' \in [Turn -> Memory]
  BY <1>1, <1>2
<1>4. Harmless
  BY <1>1, <1>2, <1>3, SameRow DEF Sound, DelegationTypeOK, TurnTypeOK, Harmless, HandsNothing
<1>5. ServiceTypeOK'
  BY <1>1 DEF serviceVars, Sound, DelegationTypeOK, ServiceTypeOK
<1> QED
  BY <1>4, <1>5, HarmlessServed

LEMMA StopEndsStep ==
  ASSUME Sound, StopEnds
  PROVE  Sound'
<1>1. /\ turn' = [t \in Turn |-> [turn[t] EXCEPT !.live = FALSE]]
      /\ mapped' = [d \in Delegation |-> IF mapped[d] \in quarantined THEN mapped[d] ELSE NoTurn]
      /\ svc' = "stopped" /\ captured' = {}
      /\ UNCHANGED <<row, bound, chain, child, faults, sent, taken, lost,
                     call, gate, rec, quarantined, events>>
  BY DEF StopEnds, Moves
<1>2. ASSUME NEW t \in Turn
      PROVE  turn'[t] \in Memory /\ TaskKept(t)
  <2>1. turn[t] \in Memory
    BY SoundParts
  <2>2. /\ [turn[t] EXCEPT !.live = FALSE] \in Memory
        /\ [turn[t] EXCEPT !.live = FALSE].step = turn[t].step
    BY <2>1 DEF Memory, MemoryFields
  <2> QED
    BY <1>1, <2>2 DEF TaskKept
<1>3. turn' \in [Turn -> Memory] /\ mapped' \in [Delegation -> Turn \union {NoTurn}]
  BY <1>1, <1>2, SoundParts
<1>4. Harmless
  BY <1>1, <1>2, <1>3, SameRow DEF Sound, DelegationTypeOK, TurnTypeOK, Harmless, HandsNothing
<1>5. ServiceTypeOK'
  BY <1>1 DEF Sound, DelegationTypeOK, ServiceTypeOK
<1> QED
  BY <1>4, <1>5, HarmlessServed

\* What a restart leaves of a child is a session; the turns come to nothing and are found
\* again by their rows.
LEMMA RestartStep ==
  ASSUME Sound, Restart
  PROVE  Sound'
<1>1. /\ svc' = "off" /\ turn' = [t \in Turn |-> NoMemory]
      /\ mapped' = [d \in Delegation |-> NoTurn] /\ chain' = [d \in Delegation |-> <<>>]
      /\ call' = [c \in Caller |-> NoCall] /\ gate' = [d \in Delegation |-> NoGate]
      /\ rec' = NoRecord /\ captured' = {} /\ quarantined' = {} /\ events' = events + 1
      /\ lost' = lost \union captured
      /\ UNCHANGED <<row, bound, faults, sent, taken>>
  BY DEF Restart
<1>2. child' \in [Delegation -> ChildSession]
  <2>1. PICK answered \in [Delegation -> BOOLEAN] :
          child' = [d \in Delegation |->
            IF child[d].status \in {"generating", "cancelling"}
              THEN [child[d] EXCEPT !.status = "idle",
                                    !.answer = IF answered[d] THEN child[d].turn ELSE @,
                                    !.fresh = @ \/ answered[d]]
              ELSE child[d]]
    BY DEF Restart
  <2>2. ASSUME NEW c \in ChildSession, NEW b \in BOOLEAN, NEW a \in Turn \union {NoTurn}
        PROVE  [c EXCEPT !.status = "idle", !.answer = a, !.fresh = b] \in ChildSession
    BY DEF ChildSession, ChildStatuses
  <2>3. ASSUME NEW d \in Delegation PROVE child'[d] \in ChildSession
    <3> DEFINE c == child[d]
               a == IF answered[d] THEN c.turn ELSE c.answer
               f == c.fresh \/ answered[d]
    <3>1. c \in ChildSession /\ a \in Turn \union {NoTurn}
      BY SoundParts DEF ChildSession
    <3>2. f \in BOOLEAN
      OBVIOUS
    <3>3. child'[d] = c \/ child'[d] = [c EXCEPT !.status = "idle", !.answer = a, !.fresh = f]
      BY <2>1
    <3> HIDE DEF a, c, f
    <3>4. [c EXCEPT !.status = "idle", !.answer = a, !.fresh = f] \in ChildSession
      BY <2>2, <3>1, <3>2
    <3> QED
      BY <3>1, <3>3, <3>4
  <2> QED
    BY <2>1, <2>3
<1>3. \A q \in Turn : TaskKept(q)
  BY <1>1, NoMemoryMemory DEF TaskKept, Undelivered
<1>4. Harmless
  BY <1>1, <1>2, <1>3, NoMemoryMemory, SameRow
  DEF Sound, DelegationTypeOK, TurnTypeOK, ServiceTypeOK, Harmless, HandsNothing
<1>5. ServiceTypeOK'
  BY <1>1, EmptyTyped DEF Sound, DelegationTypeOK, ServiceTypeOK
<1> QED
  BY <1>4, <1>5, HarmlessServed

-----------------------------------------------------------------------------
(* The whole.                                                              *)

LEMMA InitSound == Init => Sound
<1> SUFFICES ASSUME Init PROVE Sound
  OBVIOUS
<1>1. /\ row = [t \in Turn |-> NoRow] /\ turn = [t \in Turn |-> NoMemory]
      /\ sent = [t \in Turn |-> 0]
  BY DEF Init
<1>2. DelegationTypeOK
  BY <1>1, EmptyTyped, NoMemoryMemory
  DEF Init, DelegationTypeOK, TurnTypeOK, ServiceTypeOK
<1>3. DispatchSound
  BY <1>1, EmptyTyped, NoMemoryMemory DEF DispatchSound, Undelivered
<1> QED
  BY <1>2, <1>3 DEF Sound

LEMMA NextSound == Sound /\ [Next]_vars => Sound'
<1> SUFFICES ASSUME Sound, [Next]_vars PROVE Sound'
  OBVIOUS
<1>1. ASSUME NEW c \in Caller, Spawn(c) \/ FollowUp(c) \/ Interrupt(c) \/ Calls(c)
      PROVE  Sound'
  BY <1>1, BeginStep, InterruptStep, CallsStep
<1>2. ASSUME NEW t \in Turn, Task(t) \/ Refuse(t) \/ SendFails(t), UNCHANGED serviceVars
      PROVE  Sound'
  <2>1. TurnTypeOK' /\ DispatchSound'
    BY <1>2, TaskStep DEF Sound, DelegationTypeOK
  <2>2. ServiceTypeOK'
    BY <1>2 DEF serviceVars, Sound, DelegationTypeOK, ServiceTypeOK
  <2> QED
    BY <2>1, <2>2 DEF Sound, DelegationTypeOK
<1>3. ASSUME NEW d \in Delegation, Boundary(d) \/ Child(d)
      PROVE  Sound'
  BY <1>3, BoundaryStep, GateOpensStep, AnswerUnownedStep, ChildAsksStep, ChildWritesStep,
     ChildEndsStep DEF Child
<1>4. CASE Start \/ Reconciling
  BY <1>4, StartStep, ReconcilingStep
<1>5. CASE Stop \/ Stopping \/ Restart
  BY <1>5, StopStep, StopTakesStep, StopCancelsStep, StopSettlesStep, StopEndsStep, RestartStep
  DEF Stopping
<1>6. CASE UNCHANGED vars
  <2>1. UNCHANGED <<turnVars, serviceVars>>
    BY <1>6 DEF vars
  <2>2. ServiceTypeOK'
    BY <2>1 DEF serviceVars, Sound, DelegationTypeOK, ServiceTypeOK
  <2> QED
    BY <2>1, <2>2, QuietStep DEF Sound, DelegationTypeOK
<1> QED
  BY <1>1, <1>2, <1>3, <1>4, <1>5, <1>6 DEF Next

\* The rows, the tasks of the turns, the children and the service keep their types: among
\* them, that a turn which is being settled has an outcome and that a boundary that is
\* passed is a turn's, however calls, the child, failures, stop() and restarts interleave.
THEOREM DelegationTypes == Spec => []DelegationTypeOK
<1>1. Sound => DelegationTypeOK
  BY DEF Sound
<1> QED
  BY <1>1, InitSound, NextSound, PTL DEF Spec

\* No crash, however it falls between the record of the dispatch and the delivery, makes a
\* child do the work of a turn twice: executeTurn() records the dispatch before it sends the
\* handoff, and the reconciliation sends a turn again only where there is no such record.
THEOREM DispatchedOnce == Spec => []DispatchedAtMostOnce
<1>1. Sound => DispatchedAtMostOnce
  BY DEF Sound, DelegationTypeOK, TurnTypeOK, DispatchSound, DispatchedAtMostOnce
<1> QED
  BY <1>1, InitSound, NextSound, PTL DEF Spec

-----------------------------------------------------------------------------
(* The permits.  The turn of a waiting child has suspended its lease.  It     *)
(* could ask for the permit again only at a boundary of its child, or when    *)
(* its row is taken up after a restart; and a boundary that is left without   *)
(* the run going on settles or suspends the turn that stood there.  That this *)
(* turn is the one the child is mapped to needs more: a delegation has one    *)
(* active row, a listed turn that is not being settled has an active row, and *)
(* nobody else holds a permit.                                                *)

Held == {"acquiring", "active"}

\* The turns the reconciliation has not decided on.
Pending == rec.todo \union (IF rec.stage = "read" THEN {rec.at} ELSE {})

OneActiveRow ==
  \A t, q \in Turn : IsActive(t) /\ IsActive(q) /\ row[t].of = row[q].of => t = q

LiveIsActive == \A t \in Turn : turn[t].live /\ turn[t].settle = "no" => IsActive(t)

HeldIsLive ==
  \A t \in Turn :
    turn[t].lease \in Held => turn[t].settle = "no" /\ (svc # "stopped" => turn[t].live)

PendingIsUnlisted ==
  /\ \A t \in Pending : t \in Turn /\ ~turn[t].live /\ row[t].status # "none"
  /\ rec.stage = "read" => rec.at \notin rec.todo

OffIsQuiet ==
  svc = "off" => (\A t \in Turn : ~turn[t].live) /\ \A c \in Caller : call[c] = NoCall

\* A child is mapped to a turn of its delegation, and such a turn stands at its boundary.
ChildsOwn ==
  \A d \in Delegation :
    /\ mapped[d] # NoTurn => row[mapped[d]].status # "none" /\ row[mapped[d]].of = d
    /\ gate[d].stage # "none" => row[gate[d].turn].status # "none" /\ row[gate[d].turn].of = d

\* While a boundary is being passed, only the turn that stands there waits for the user.
WaitsAtGate ==
  \A d \in Delegation, q \in Turn :
    gate[d].stage # "none" /\ row[q].of = d /\ row[q].status = "waiting" => q = gate[d].turn

WaitingIsDispatched == \A t \in Turn : row[t].status = "waiting" => row[t].dispatched

ToolsDoNotWait ==
  \A d \in Delegation :
    gate[d].stage # "none" /\ gate[d].kind = "tool" => child[d].status # "waiting"

\* What is to be shown, for a permit that is held or asked for.
WaitingIsSuspended ==
  \A d \in Delegation :
    /\ svc = "on" /\ child[d].status = "waiting" /\ gate[d].stage = "none"
    /\ mapped[d] # NoTurn /\ row[mapped[d]].status = "waiting"
    => turn[mapped[d]].lease \notin Held

PermitSound ==
  /\ OneActiveRow /\ LiveIsActive /\ HeldIsLive /\ PendingIsUnlisted /\ OffIsQuiet
  /\ ChildsOwn /\ WaitsAtGate /\ WaitingIsDispatched /\ ToolsDoNotWait /\ WaitingIsSuspended

-----------------------------------------------------------------------------
(* Calm steps: none makes a turn live, wait, or ask for a permit.          *)

\* Memory n may follow memory m.
Follows(n, m) ==
  /\ n.live => m.live
  /\ n.live /\ n.settle = "no" => m.settle = "no"
  /\ n.lease \in Held => m.lease \in Held /\ n.live = m.live /\ n.settle = m.settle

MemoryCalm(q) == Follows(turn'[q], turn[q])

RowCalm(q) ==
  /\ row[q].status = "none" => row'[q].status = "none"
  /\ row[q].status # "none" => row'[q].status # "none" /\ row'[q].of = row[q].of
  /\ row'[q].status \in ActiveStatuses => IsActive(q)
  /\ row'[q].status = "waiting" => row'[q] = row[q]
  /\ IsActive(q) /\ row'[q].status \notin ActiveStatuses
     => ~(turn'[q].live /\ turn'[q].settle = "no")

\* A child may be mapped to another turn of its own, if that holds nothing while it waits.
MapsCalm ==
  \A d \in Delegation :
    LET t == mapped'[d] IN
    \/ t \in {mapped[d], NoTurn}
    \/ /\ t \in Turn /\ row[t].status # "none" /\ row[t].of = d
       /\ \/ svc' # "on" \/ row'[t].status # "waiting" \/ child'[d].status # "waiting"
          \/ turn'[t].lease \notin Held

ChildrenCalm ==
  \A d \in Delegation : child'[d].status = "waiting" => child[d].status = "waiting"

GatesCalm ==
  \A d \in Delegation :
    \/ gate'[d] = gate[d]
    \/ /\ gate[d].stage # "none" /\ gate'[d].stage # "none"
       /\ gate'[d].turn = gate[d].turn /\ gate'[d].kind = gate[d].kind
    \/ /\ gate'[d].stage = "none"
       /\ svc' = "on" /\ child'[d].status = "waiting"
          => \A q \in Turn : row'[q].status = "waiting" /\ row'[q].of = d
                             => turn'[q].lease \notin Held

ServiceCalm ==
  /\ svc' \in {"on", "off"} => svc' = svc
  /\ svc = "stopped" => svc' = "stopped"
  /\ Pending' \subseteq Pending /\ (rec'.stage = "read" => rec'.at \notin rec'.todo)
  /\ svc = "off" => call' = call

TurnsCalm == \A q \in Turn : MemoryCalm(q) /\ RowCalm(q)

Calm == TurnsCalm /\ MapsCalm /\ ChildrenCalm /\ GatesCalm /\ ServiceCalm

\* What the types say about the turns that are named.
LEMMA NamedTurns ==
  ASSUME Sound
  PROVE  /\ \A d \in Delegation : mapped[d] \in Turn \union {NoTurn}
         /\ \A d \in Delegation : gate[d].stage # "none" => gate[d].turn \in Turn
         /\ \A t \in Turn : row[t] \in Row /\ turn[t] \in Memory
BY DEF Sound, DelegationTypeOK, TurnTypeOK, ServiceTypeOK, Gate

LEMMA CalmRows ==
  ASSUME PermitSound, TurnsCalm
  PROVE  OneActiveRow' /\ LiveIsActive' /\ WaitingIsDispatched'
<1>1. OneActiveRow'
  <2>1. SUFFICES ASSUME NEW t \in Turn, NEW q \in Turn, row'[t].status \in ActiveStatuses,
                        row'[q].status \in ActiveStatuses, row'[t].of = row'[q].of
                 PROVE  t = q
    BY DEF OneActiveRow, IsActive
  <2>2. IsActive(t) /\ IsActive(q) /\ row[t].status # "none" /\ row[q].status # "none"
    BY <2>1 DEF TurnsCalm, RowCalm, IsActive, ActiveStatuses
  <2>3. row'[t].of = row[t].of /\ row'[q].of = row[q].of
    BY <2>2 DEF TurnsCalm, RowCalm
  <2> QED
    BY <2>1, <2>2, <2>3 DEF PermitSound, OneActiveRow
<1>2. LiveIsActive'
  <2>1. SUFFICES ASSUME NEW t \in Turn, turn'[t].live, turn'[t].settle = "no"
                 PROVE  row'[t].status \in ActiveStatuses
    BY DEF LiveIsActive, IsActive
  <2>2. turn[t].live /\ turn[t].settle = "no"
    BY <2>1 DEF TurnsCalm, MemoryCalm, Follows
  <2>3. IsActive(t)
    BY <2>2 DEF PermitSound, LiveIsActive
  <2> QED
    BY <2>1, <2>3 DEF TurnsCalm, RowCalm
<1>3. WaitingIsDispatched'
  BY DEF PermitSound, WaitingIsDispatched, TurnsCalm, RowCalm
<1> QED
  BY <1>1, <1>2, <1>3

LEMMA CalmTurns ==
  ASSUME PermitSound, TurnsCalm, ServiceCalm
  PROVE  HeldIsLive' /\ PendingIsUnlisted' /\ OffIsQuiet'
<1>1. HeldIsLive'
  <2>1. SUFFICES ASSUME NEW t \in Turn, turn'[t].lease \in Held
                 PROVE  turn'[t].settle = "no" /\ (svc' # "stopped" => turn'[t].live)
    BY DEF HeldIsLive
  <2>2. turn[t].lease \in Held /\ turn'[t].live = turn[t].live
        /\ turn'[t].settle = turn[t].settle
    BY <2>1 DEF TurnsCalm, MemoryCalm, Follows
  <2>3. turn[t].settle = "no" /\ (svc # "stopped" => turn[t].live)
    BY <2>2 DEF PermitSound, HeldIsLive
  <2> QED
    BY <2>2, <2>3 DEF ServiceCalm
<1>2. PendingIsUnlisted'
  <2>1. SUFFICES ASSUME NEW t \in Pending'
                 PROVE  t \in Turn /\ ~turn'[t].live /\ row'[t].status # "none"
    BY DEF PendingIsUnlisted, ServiceCalm
  <2>2. t \in Turn /\ ~turn[t].live /\ row[t].status # "none"
    BY DEF PermitSound, PendingIsUnlisted, ServiceCalm
  <2> QED
    BY <2>2 DEF TurnsCalm, MemoryCalm, Follows, RowCalm
<1>3. OffIsQuiet'
  BY DEF PermitSound, OffIsQuiet, ServiceCalm, TurnsCalm, MemoryCalm, Follows
<1> QED
  BY <1>1, <1>2, <1>3

LEMMA CalmBoundaries ==
  ASSUME Sound, PermitSound, TurnsCalm, MapsCalm, ChildrenCalm, GatesCalm
  PROVE  ChildsOwn' /\ WaitsAtGate' /\ ToolsDoNotWait'
<1>1. ChildsOwn'
  <2>1. ASSUME NEW d \in Delegation, mapped'[d] # NoTurn
        PROVE  row'[mapped'[d]].status # "none" /\ row'[mapped'[d]].of = d
    <3>1. /\ mapped'[d] \in Turn /\ row[mapped'[d]].status # "none"
          /\ row[mapped'[d]].of = d
      BY <2>1, NamedTurns DEF MapsCalm, PermitSound, ChildsOwn
    <3> QED
      BY <3>1 DEF TurnsCalm, RowCalm
  <2>2. ASSUME NEW d \in Delegation, gate'[d].stage # "none"
        PROVE  row'[gate'[d].turn].status # "none" /\ row'[gate'[d].turn].of = d
    <3>1. gate[d].stage # "none" /\ gate'[d].turn = gate[d].turn
      BY <2>2 DEF GatesCalm
    <3>2. gate[d].turn \in Turn /\ row[gate[d].turn].status # "none"
          /\ row[gate[d].turn].of = d
      BY <3>1, NamedTurns DEF PermitSound, ChildsOwn
    <3> QED
      BY <3>1, <3>2 DEF TurnsCalm, RowCalm
  <2> QED
    BY <2>1, <2>2 DEF ChildsOwn
<1>2. WaitsAtGate'
  <2>1. SUFFICES ASSUME NEW d \in Delegation, NEW q \in Turn, gate'[d].stage # "none",
                        row'[q].of = d, row'[q].status = "waiting"
                 PROVE  q = gate'[d].turn
    BY DEF WaitsAtGate
  <2>2. gate[d].stage # "none" /\ gate'[d].turn = gate[d].turn
    BY <2>1 DEF GatesCalm
  <2>3. row'[q] = row[q]
    BY <2>1 DEF TurnsCalm, RowCalm
  <2> QED
    BY <2>1, <2>2, <2>3 DEF PermitSound, WaitsAtGate
<1>3. ToolsDoNotWait'
  BY DEF PermitSound, ToolsDoNotWait, GatesCalm, ChildrenCalm
<1> QED
  BY <1>1, <1>2, <1>3

LEMMA CalmWaits ==
  ASSUME Sound, PermitSound, TurnsCalm, MapsCalm, ChildrenCalm, GatesCalm, ServiceCalm
  PROVE  WaitingIsSuspended'
<1>1. SUFFICES ASSUME NEW d \in Delegation, svc' = "on", child'[d].status = "waiting",
                      gate'[d].stage = "none", mapped'[d] # NoTurn,
                      row'[mapped'[d]].status = "waiting"
               PROVE  turn'[mapped'[d]].lease \notin Held
  BY DEF WaitingIsSuspended
<1> DEFINE t == mapped'[d]
<1>2. svc = "on" /\ child[d].status = "waiting"
  BY <1>1 DEF ServiceCalm, ChildrenCalm
<1>3. CASE t # mapped[d]
  BY <1>1, <1>3 DEF MapsCalm
<1>4. CASE t = mapped[d]
  <2>1. t \in Turn
    BY <1>1, <1>4, NamedTurns
  <2>2. row'[t] = row[t] /\ row[t].of = d
    BY <1>1, <1>4, <2>1 DEF TurnsCalm, RowCalm, PermitSound, ChildsOwn
  <2>3. CASE gate[d].stage = "none"
    <3>1. turn[t].lease \notin Held
      BY <1>1, <1>2, <1>4, <2>2, <2>3 DEF PermitSound, WaitingIsSuspended
    <3> QED
      BY <2>1, <3>1 DEF TurnsCalm, MemoryCalm, Follows
  <2>4. CASE gate[d].stage # "none"
    BY <1>1, <2>1, <2>2, <2>4 DEF GatesCalm
  <2> QED
    BY <2>3, <2>4
<1> QED
  BY <1>3, <1>4

LEMMA CalmKeeps ==
  ASSUME Sound, PermitSound, Calm
  PROVE  PermitSound'
BY CalmRows, CalmTurns, CalmBoundaries, CalmWaits DEF Calm, PermitSound

-----------------------------------------------------------------------------
(* What makes a step calm.                                                 *)

LEMMA SettlingFollows ==
  ASSUME NEW m \in Memory, NEW o
  PROVE  Follows(Settling(m, o), m) /\ Settling(m, o).settle # "no"
BY DEF Settling, Follows, Held, Memory, MemoryFields

LEMMA AbortedFollows ==
  ASSUME NEW m \in Memory
  PROVE  Follows(Aborted(m), m)
BY DEF Aborted, Follows, Held, Memory, MemoryFields

LEMMA StoppedFollows ==
  ASSUME NEW m \in Memory, NEW o
  PROVE  Follows(Settling(Aborted(m), o), m)
BY AbortedMemory, AbortedFollows, SettlingFollows DEF Follows

LEMMA SuspendedFollows ==
  ASSUME NEW m \in Memory
  PROVE  Follows(Suspended(m), m) /\ Suspended(m).lease \notin Held
BY DEF Suspended, Follows, Held, Memory, MemoryFields

LEMMA ThrownFollows ==
  ASSUME NEW m \in Memory
  PROVE  Follows(Thrown(m), m) /\ Thrown(m).settle # "no"
<1>1. ASSUME NEW o \in Ended
      PROVE  LET n == [Settling(m, o) EXCEPT !.step = "over"]
             IN  Follows(n, m) /\ n.settle # "no"
  <2>1. Settling(m, o) \in Memory
    BY SettlingMemory
  <2>2. Follows(Settling(m, o), m) /\ Settling(m, o).settle # "no"
    BY SettlingFollows
  <2> QED
    BY <2>1, <2>2 DEF Follows, Memory, MemoryFields
<1> QED
  BY <1>1 DEF Thrown, Ended

LEMMA ForgottenFollows ==
  ASSUME NEW m \in Memory
  PROVE  Follows(Forgotten(m), m) /\ ~Forgotten(m).live
BY DEF Forgotten, NoMemory, Follows, Held, Memory, MemoryFields

\* A memory of which neither is changed follows.
LEMMA AlikeFollows ==
  ASSUME NEW m, NEW n, n.live = m.live, n.settle = m.settle,
         n.lease = m.lease \/ n.lease \notin Held
  PROVE  Follows(n, m)
BY DEF Follows

\* A memory stays or goes on, and no row changes.
LEMMA OneTurn ==
  ASSUME Sound, NEW t, NEW n, Becomes(t, n), t \in Turn => Follows(n, turn[t]), UNCHANGED row
  PROVE  TurnsCalm
<1>1. \A q \in Turn : turn'[q] = IF q = t THEN n ELSE turn[q]
  BY DEF Becomes, Sound, DelegationTypeOK, TurnTypeOK
<1> QED
  BY <1>1 DEF TurnsCalm, MemoryCalm, Follows, RowCalm, IsActive

\* Its row is marked, or ends.
LEMMA OneTurnMarked ==
  ASSUME Sound, NEW t \in Turn, NEW n, Becomes(t, n), Follows(n, turn[t]), IsActive(t),
         row' = MarkedAs(row, t, "running")
  PROVE  TurnsCalm
<1>1. \A q \in Turn : turn'[q] = IF q = t THEN n ELSE turn[q]
  BY DEF Becomes, Sound, DelegationTypeOK, TurnTypeOK
<1>2. \A q \in Turn : MemoryCalm(q)
  BY <1>1 DEF MemoryCalm, Follows
<1>3. \A q \in Turn : RowCalm(q)
  <2>1. SUFFICES ASSUME NEW q \in Turn PROVE RowCalm(q)
    OBVIOUS
  <2>2. row \in [Turn -> Row]
    BY DEF Sound, DelegationTypeOK, TurnTypeOK
  <2>3. CASE q # t
    <3>1. row'[q] = row[q]
      BY <2>2, <2>3 DEF MarkedAs
    <3> QED
      BY <3>1 DEF RowCalm, IsActive
  <2>4. CASE q = t
    <3>1. row'[t].status = "running" /\ row'[t].of = row[t].of
      BY <2>2 DEF MarkedAs, Row
    <3> QED
      BY <2>4, <3>1 DEF RowCalm, IsActive, ActiveStatuses
  <2> QED
    BY <2>3, <2>4
<1> QED
  BY <1>2, <1>3 DEF TurnsCalm

LEMMA OneTurnEnded ==
  ASSUME Sound, NEW t \in Turn, NEW n, Becomes(t, n), Follows(n, turn[t]),
         ~(n.live /\ n.settle = "no"), NEW s \in Ended, RowEnds(t, s)
  PROVE  TurnsCalm
<1>1. \A q \in Turn : turn'[q] = IF q = t THEN n ELSE turn[q]
  BY DEF Becomes, Sound, DelegationTypeOK, TurnTypeOK
<1>2. \A q \in Turn : MemoryCalm(q)
  BY <1>1 DEF MemoryCalm, Follows
<1>3. \A q \in Turn : RowCalm(q)
  <2>1. SUFFICES ASSUME NEW q \in Turn PROVE RowCalm(q)
    OBVIOUS
  <2>2. row \in [Turn -> Row]
    BY DEF Sound, DelegationTypeOK, TurnTypeOK
  <2>3. CASE row'[q] = row[q]
    BY <2>3 DEF RowCalm, IsActive
  <2>4. CASE row'[q] # row[q]
    <3>1. q = t /\ IsActive(t) /\ row' = [row EXCEPT ![t].status = s]
      BY <2>2, <2>4 DEF RowEnds
    <3>2. row'[t].status = s /\ row'[t].of = row[t].of
      BY <2>2, <3>1 DEF Row
    <3> QED
      BY <1>1, <3>1, <3>2 DEF RowCalm, IsActive, ActiveStatuses, Ended
  <2> QED
    BY <2>3, <2>4
<1> QED
  BY <1>2, <1>3 DEF TurnsCalm

LEMMA SameTurns ==
  ASSUME UNCHANGED <<turn, row>>
  PROVE  TurnsCalm
BY DEF TurnsCalm, MemoryCalm, Follows, RowCalm, IsActive

LEMMA SameMaps ==
  ASSUME mapped' = mapped \/ \E d : mapped' = [mapped EXCEPT ![d] = NoTurn], Sound
  PROVE  MapsCalm
BY DEF MapsCalm, Sound, DelegationTypeOK, TurnTypeOK

LEMMA SameChildren ==
  ASSUME child' = child \/ \E d : child' = Cancelled(d), Sound
  PROVE  ChildrenCalm
BY DEF ChildrenCalm, Cancelled, Working, ChildSession, Sound, DelegationTypeOK, TurnTypeOK

LEMMA SameService ==
  ASSUME PermitSound, UNCHANGED <<svc, rec, call>>
  PROVE  ServiceCalm
BY DEF ServiceCalm, PermitSound, PendingIsUnlisted, Pending

LEMMA SameGates == gate' = gate => GatesCalm
BY DEF GatesCalm

-----------------------------------------------------------------------------
(* The task of a turn.                                                     *)

Quiet == TurnsCalm /\ MapsCalm /\ ChildrenCalm

LEMMA QuietKeeps ==
  ASSUME Sound, PermitSound, Quiet, UNCHANGED <<svc, serviceVars>>
  PROVE  PermitSound'
BY CalmKeeps, SameService, SameGates DEF Quiet, Calm, serviceVars

\* One memory changes.
LEMMA MemoryQuiet ==
  ASSUME Sound, NEW t, NEW n, Becomes(t, n), t \in Turn => Follows(n, turn[t]),
         UNCHANGED <<row, mapped>>, child' = child \/ \E d : child' = Cancelled(d)
  PROVE  Quiet
BY OneTurn, SameMaps, SameChildren DEF Quiet

LEMMA ThrowQuiet ==
  ASSUME Sound, NEW t \in Turn, Throw(t)
  PROVE  Quiet
BY NamedTurns, ThrownFollows, MemoryQuiet DEF Throw

LEMMA GoesQuiet ==
  ASSUME Sound, NEW t \in Turn, NEW s, Goes(t, s)
  PROVE  Quiet
<1> DEFINE n == [turn[t] EXCEPT !.step = s]
<1>1. Follows(n, turn[t])
  BY NamedTurns, AlikeFollows DEF Memory, MemoryFields
<1>2. Becomes(t, n) /\ UNCHANGED <<row, mapped, child>>
  BY DEF Goes
<1> HIDE DEF n
<1> QED
  BY <1>1, <1>2, MemoryQuiet

LEMMA AdmitQuiet ==
  ASSUME Sound, NEW t \in Turn, Admit(t) \/ Refuse(t)
  PROVE  Quiet
<1>1. turn[t].lease = "acquiring" /\ turn[t] \in Memory /\ UNCHANGED <<row, mapped, child>>
  BY NamedTurns DEF Admit, Refuse
<1>2. \E l \in {"active", "suspended"} : \E s :
        Becomes(t, [turn[t] EXCEPT !.lease = l, !.step = s])
  <2>1. CASE Admit(t)
    BY <2>1 DEF Admit
  <2>2. CASE Refuse(t)
    <3>1. [turn[t] EXCEPT !.lease = "suspended"]
          = [turn[t] EXCEPT !.lease = "suspended", !.step = turn[t].step]
      BY <1>1 DEF Memory, MemoryFields
    <3> QED
      BY <2>2, <3>1 DEF Refuse
  <2> QED
    BY <2>1, <2>2
<1>3. PICK l \in {"active", "suspended"} :
        \E s : Becomes(t, [turn[t] EXCEPT !.lease = l, !.step = s])
  BY <1>2
<1>4. PICK s : Becomes(t, [turn[t] EXCEPT !.lease = l, !.step = s])
  BY <1>3
<1> DEFINE n == [turn[t] EXCEPT !.lease = l, !.step = s]
<1>5. Follows(n, turn[t])
  BY <1>1 DEF Follows, Held, Memory, MemoryFields
<1>6. Becomes(t, n)
  BY <1>4
<1> HIDE DEF n
<1> QED
  BY <1>1, <1>5, <1>6, MemoryQuiet

LEMMA BindQuiet ==
  ASSUME Sound, NEW t \in Turn, Bind(t)
  PROVE  Quiet
<1> DEFINE n(s) == [[turn[t] EXCEPT !.knows = TRUE] EXCEPT !.step = s]
<1>1. \A s : Follows(n(s), turn[t])
  BY NamedTurns DEF Follows, Memory, MemoryFields
<1>2. \E s \in {"unbound", "sync"} : Becomes(t, n(s))
  BY DEF Bind
<1>3. UNCHANGED <<row, mapped>> /\ (child' = child \/ child' = Cancelled(row[t].of))
  BY DEF Bind
<1> HIDE DEF n
<1> QED
  BY <1>1, <1>2, <1>3, MemoryQuiet

LEMMA BeginningQuiet ==
  ASSUME Sound, NEW t \in Turn,
         \/ NotAdmitted(t) \/ Checked(t) \/ Acquire(t) \/ ChildIsMade(t) \/ Made(t)
         \/ Unbound(t) \/ Recalled(t) \/ SendFails(t)
  PROVE  Quiet
<1>1. CASE ChildIsMade(t) /\ ~Throw(t)
  <2>1. child' = [child EXCEPT ![row[t].of].status = "idle"] /\ UNCHANGED <<turn, row, mapped>>
    BY <1>1 DEF ChildIsMade
  <2>2. ChildrenCalm
    BY <2>1 DEF ChildrenCalm, ChildSession, Sound, DelegationTypeOK, TurnTypeOK
  <2> QED
    BY <2>1, <2>2, SameTurns, SameMaps DEF Quiet
<1>2. CASE Throw(t) \/ Bind(t) \/ \E s : Goes(t, s)
  BY <1>2, ThrowQuiet, BindQuiet, GoesQuiet
<1>3. CASE Acquire(t)
  <2>1. Throw(t) \/ Bind(t) \/ Goes(t, "create")
    BY <1>3, Zenon DEF Acquire
  <2> QED
    BY <1>2, <2>1
<1> QED
  BY <1>1, <1>2, <1>3 DEF NotAdmitted, Checked, Made, Unbound, Recalled, SendFails

LEMMA FollowsOn ==
  ASSUME NEW l, NEW m, NEW n, Follows(m, l), Follows(n, m)
  PROVE  Follows(n, l)
BY DEF Follows

\* A status of the child reaches its turn.
LEMMA ApplyCalm ==
  ASSUME Sound, NEW t \in Turn, NEW m \in Memory, Follows(m, turn[t]), Apply(t, m)
  PROVE  TurnsCalm
<1>1. \A o : Follows(Settling(m, o), turn[t])
  BY SettlingFollows, FollowsOn
<1>2. CASE UNCHANGED row
  <2>1. \E n \in {m, Settling(m, "interrupted"), Settling(m, "failed")} : Becomes(t, n)
    BY Zenon DEF Apply
  <2>2. PICK n \in {m, Settling(m, "interrupted"), Settling(m, "failed")} : Becomes(t, n)
    BY <2>1
  <2> QED
    BY <1>1, <1>2, <2>2, OneTurn
<1>3. CASE ~UNCHANGED row
  <2>1. /\ Becomes(t, m)
        /\ row' = IF m.runtime = "generating" /\ row[t].status = "queued"
                    THEN MarkedAs(row, t, "running") ELSE row
    BY <1>3, Zenon DEF Apply
  <2>2. row[t].status = "queued" /\ row' = MarkedAs(row, t, "running")
    BY <1>3, <2>1
  <2> QED
    BY <2>1, <2>2, OneTurnMarked DEF IsActive, ActiveStatuses
<1> QED
  BY <1>2, <1>3

LEMMA SendReturnsQuiet ==
  ASSUME Sound, NEW t \in Turn, SendReturns(t)
  PROVE  Quiet
<1> DEFINE n(s) == [[turn[t] EXCEPT !.started = TRUE] EXCEPT !.step = s]
<1>1. turn[t] \in Memory /\ \A s : Follows(n(s), turn[t])
  BY NamedTurns DEF Follows, Memory, MemoryFields
<1>2. UNCHANGED mapped
  BY DEF SendReturns
<1>3. CASE turn[t].aborted
  <2>1. Becomes(t, n("recalled")) /\ child' = Cancelled(row[t].of) /\ UNCHANGED row
    BY <1>1, <1>3 DEF SendReturns, Memory, MemoryFields
  <2> HIDE DEF n
  <2> QED
    BY <1>1, <1>2, <2>1, MemoryQuiet
<1>4. CASE ~turn[t].aborted
  <2>1. Apply(t, n("watch")) /\ UNCHANGED child
    BY <1>1, <1>4 DEF SendReturns, Memory, MemoryFields
  <2>2. n("watch") \in Memory
    <3>1. "watch" \in Steps
      BY DEF Steps
    <3> QED
      BY <1>1, <3>1 DEF Memory, MemoryFields
  <2> HIDE DEF n
  <2> QED
    BY <1>1, <1>2, <2>1, <2>2, ApplyCalm, SameMaps, SameChildren DEF Quiet
<1> QED
  BY <1>3, <1>4

LEMMA FinishQuiet ==
  ASSUME Sound, NEW t \in Turn, Unlist(t), UNCHANGED child,
         UNCHANGED row \/ \E s \in Ended : RowEnds(t, s)
  PROVE  Quiet
<1> DEFINE n == Forgotten(turn[t])
<1>1. Follows(n, turn[t]) /\ ~n.live
  BY NamedTurns, ForgottenFollows
<1>2. Becomes(t, n)
  BY DEF Unlist
<1> HIDE DEF n
<1>3. TurnsCalm
  BY <1>1, <1>2, OneTurn, OneTurnEnded
<1>4. MapsCalm
  BY SameMaps DEF Unlist
<1> QED
  BY <1>3, <1>4, SameChildren DEF Quiet

LEMMA SettlementQuiet ==
  ASSUME Sound, PermitSound, NEW t \in Turn, LookUpResult(t) \/ LinkTape(t)
  PROVE  Quiet
<1>1. turn[t] \in Memory /\ (turn[t].settle \in {"lookup", "tape"} => turn[t].outcome \in Ended)
  BY NamedTurns DEF Memory
<1>2. CASE LinkTape(t)
  <2>1. /\ Unlist(t) /\ UNCHANGED child
        /\ UNCHANGED row \/ RowEnds(t, turn[t].outcome) \/ RowEnds(t, "failed")
    BY <1>2 DEF LinkTape, Finish
  <2>2. turn[t].outcome \in Ended /\ "failed" \in Ended
    BY <1>1, <1>2 DEF LinkTape, Ended
  <2> QED
    BY <2>1, <2>2, FinishQuiet
<1>3. CASE LookUpResult(t)
  <2>1. PICK r \in Results(t) : Resolve(t, r)
    BY <1>3 DEF LookUpResult
  <2> DEFINE m == turn[t]
             s == IF m.aborted THEN "interrupted"
                  ELSE IF m.outcome = "completed" /\ r = NoTurn THEN "failed" ELSE m.outcome
             n == [m EXCEPT !.settle = "tape", !.outcome = s]
  <2>2. s \in Ended /\ m.settle = "lookup"
    BY <1>1, <1>3 DEF LookUpResult, Ended
  <2>3. \/ Becomes(t, n) /\ UNCHANGED <<row, mapped, child>>
        \/ Finish(t, s)
    BY <2>1 DEF Resolve
  <2>4. n.live = m.live /\ n.settle = "tape" /\ n.lease = m.lease
    BY <1>1 DEF Memory, MemoryFields
  <2> HIDE DEF s, n
  <2>5. CASE Finish(t, s)
    BY <2>2, <2>5, FinishQuiet DEF Finish
  <2>6. CASE Becomes(t, n) /\ UNCHANGED <<row, mapped, child>>
    <3>1. m.lease \notin Held
      BY <2>2 DEF PermitSound, HeldIsLive
    <3>2. Follows(n, m)
      BY <2>2, <2>4, <3>1 DEF Follows
    <3> QED
      BY <2>6, <3>2, MemoryQuiet
  <2> QED
    BY <2>3, <2>5, <2>6
<1> QED
  BY <1>2, <1>3

\* A turn that has thrown holds nothing.
LEMMA ThrownHoldsNothing ==
  ASSUME NEW m \in Memory, m.lease \in Held => m.settle = "no"
  PROVE  Thrown(m).lease \notin Held
<1>1. ASSUME NEW o \in Ended
      PROVE  [Settling(m, o) EXCEPT !.step = "over"].lease \notin Held
  <2>1. Settling(m, o) \in Memory /\ Settling(m, o).lease \notin Held
    BY SettlingMemory DEF Settling, Held, Memory, MemoryFields
  <2> QED
    BY <2>1 DEF Memory, MemoryFields
<1> QED
  BY <1>1 DEF Thrown, Ended

\* The child is mapped to the turn that is synchronized.
LEMMA MappedToOwn ==
  ASSUME Sound, NEW t \in Turn, row[t].status # "none", mapped' = [mapped EXCEPT ![row[t].of] = t],
         \/ svc' # "on" \/ row'[t].status # "waiting" \/ child'[row[t].of].status # "waiting"
         \/ turn'[t].lease \notin Held
  PROVE  MapsCalm
<1>1. SUFFICES ASSUME NEW d \in Delegation, mapped'[d] # mapped[d]
               PROVE  d = row[t].of /\ mapped'[d] = t
  BY DEF MapsCalm
<1> QED
  BY <1>1 DEF Sound, DelegationTypeOK, TurnTypeOK

LEMMA SynchronizedQuiet ==
  ASSUME Sound, PermitSound, NEW t \in Turn, Synchronized(t)
  PROVE  Quiet
<1> DEFINE d == row[t].of
           m == turn[t]
<1>1. m \in Memory /\ (m.lease \in Held => m.settle = "no")
  BY NamedTurns DEF PermitSound, HeldIsLive
<1>2. Follows(Thrown(m), m) /\ Thrown(m).lease \notin Held
  BY <1>1, ThrownFollows, ThrownHoldsNothing
<1>3. CASE Becomes(t, Thrown(m)) /\ UNCHANGED <<row, mapped, child>>
  BY <1>2, <1>3, MemoryQuiet
<1>4. CASE Park(t) /\ UNCHANGED <<row, child>>
  <2> DEFINE n == [m EXCEPT !.live = FALSE, !.lease = "released", !.step = "over"]
  <2>1. Follows(n, m)
    BY <1>1 DEF Follows, Held, Memory, MemoryFields
  <2>2. Becomes(t, n)
    BY <1>4 DEF Park
  <2> HIDE DEF n
  <2> QED
    BY <1>4, <2>1, <2>2, OneTurn, SameMaps, SameChildren DEF Park, Quiet
<1>5. CASE /\ IsActive(t) /\ mapped' = [mapped EXCEPT ![d] = t]
           /\ Becomes(t, Thrown(m)) /\ UNCHANGED <<row, child>>
  <2>1. turn'[t].lease \notin Held
    BY <1>2, <1>5 DEF Becomes, Sound, DelegationTypeOK, TurnTypeOK
  <2>2. MapsCalm
    BY <1>5, <2>1, MappedToOwn DEF IsActive, ActiveStatuses
  <2> QED
    BY <1>2, <1>5, <2>2, OneTurn, SameChildren DEF Quiet
<1>6. CASE IsActive(t) /\ Dispatch(t)
  <2> DEFINE n == [m EXCEPT !.step = "send"]
  <2>1. Follows(n, m)
    BY <1>1 DEF Follows, Memory, MemoryFields
  <2>2. Becomes(t, n) /\ row' = MarkedAs(row, t, "running")
        /\ child' = [child EXCEPT ![d].fresh = FALSE] /\ mapped' = [mapped EXCEPT ![d] = t]
    BY <1>6 DEF Dispatch
  <2> HIDE DEF n
  <2>3. TurnsCalm
    BY <1>6, <2>1, <2>2, OneTurnMarked
  <2>4. row'[t].status = "running"
    BY <2>2 DEF MarkedAs, Row, Sound, DelegationTypeOK, TurnTypeOK
  <2>5. MapsCalm
    BY <1>6, <2>2, <2>4, MappedToOwn DEF IsActive, ActiveStatuses
  <2>6. ChildrenCalm
    BY <2>2 DEF ChildrenCalm, ChildSession, Sound, DelegationTypeOK, TurnTypeOK
  <2> QED
    BY <2>3, <2>5, <2>6 DEF Quiet
<1> QED
  BY <1>3, <1>4, <1>5, <1>6 DEF Synchronized, Inherit

LEMMA ChildAcceptsQuiet ==
  ASSUME Sound, NEW t \in Turn, ChildAccepts(t)
  PROVE  Quiet
<1> DEFINE d == row[t].of
           m == [turn[t] EXCEPT !.step = "accepted"]
           n == IF Hears(d) /\ mapped[d] = t THEN [m EXCEPT !.runtime = "generating"] ELSE m
<1>1. Follows(n, turn[t])
  BY NamedTurns DEF Follows, Memory, MemoryFields
<1>2. /\ Becomes(t, n) /\ UNCHANGED <<row, mapped>>
      /\ child' = [child EXCEPT ![d].status = "generating", ![d].turn = t]
  BY DEF ChildAccepts
<1> HIDE DEF n
<1>3. ChildrenCalm
  <2>1. child \in [Delegation -> ChildSession]
    BY DEF Sound, DelegationTypeOK, TurnTypeOK
  <2>2. \A e \in Delegation : child'[e].status = "waiting" => e # d
    BY <1>2, <2>1 DEF ChildSession
  <2>3. \A e \in Delegation : e # d => child'[e] = child[e]
    BY <1>2, <2>1
  <2> QED
    BY <2>2, <2>3 DEF ChildrenCalm
<1> QED
  BY <1>1, <1>2, <1>3, OneTurn, SameMaps DEF Quiet

LEMMA TaskKeeps ==
  ASSUME Sound, PermitSound, NEW t \in Turn, Task(t) \/ Refuse(t) \/ SendFails(t),
         UNCHANGED serviceVars
  PROVE  PermitSound'
<1>1. Quiet
  BY AdmitQuiet, BeginningQuiet, SendReturnsQuiet, SettlementQuiet, SynchronizedQuiet,
     ChildAcceptsQuiet DEF Task
<1>2. UNCHANGED svc
  BY Zenon
  DEF Task, Admit, Refuse, NotAdmitted, Goes, Throw, Checked, Acquire, Bind, ChildIsMade, Made,
      Unbound, Synchronized, ChildAccepts, SendFails, SendReturns, Recalled, LookUpResult,
      Resolve, Finish, LinkTape
<1> QED
  BY <1>1, <1>2, QuietKeeps

-----------------------------------------------------------------------------
(* The calls of the parent.                                                *)

LEMMA ScheduleKeeps ==
  ASSUME Sound, PermitSound, svc # "off", NEW t \in Turn, NEW d \in Delegation, NEW k,
         row[t].status = "none", \A q \in Turn : IsActive(q) => row[q].of # d,
         Schedule(t, d, k), UNCHANGED <<gate, rec>>
  PROVE  PermitSound'
<1> DEFINE n == [NewMemory(d) EXCEPT !.step = "admit", !.lease = "acquiring"]
           r == [status |-> "queued", of |-> d, kind |-> k, dispatched |-> FALSE]
<1>1. n.live /\ n.settle = "no"
  BY DEF NewMemory, NoMemory
<1>2. /\ turn' = [turn EXCEPT ![t] = n] /\ row' = [row EXCEPT ![t] = r]
      /\ mapped' = IF d \in bound THEN [mapped EXCEPT ![d] = t] ELSE mapped
      /\ UNCHANGED <<svc, child>>
  BY DEF Schedule, Becomes
<1> HIDE DEF n
<1>3. /\ turn'[t] = n /\ row'[t] = r
      /\ \A q \in Turn : q # t => turn'[q] = turn[q] /\ row'[q] = row[q]
  BY <1>2 DEF Sound, DelegationTypeOK, TurnTypeOK
<1>4. r.status = "queued" /\ r.of = d
  OBVIOUS
<1> HIDE DEF r
<1>5. OneActiveRow'
  <2>1. SUFFICES ASSUME NEW p \in Turn, NEW q \in Turn, row'[p].status \in ActiveStatuses,
                        row'[q].status \in ActiveStatuses, row'[p].of = row'[q].of
                 PROVE  p = q
    BY DEF OneActiveRow, IsActive
  <2> QED
    BY <1>3, <1>4, <2>1 DEF PermitSound, OneActiveRow, IsActive
<1>6. LiveIsActive' /\ HeldIsLive'
  BY <1>1, <1>2, <1>3, <1>4
  DEF PermitSound, LiveIsActive, HeldIsLive, IsActive, ActiveStatuses
<1>7. PendingIsUnlisted' /\ OffIsQuiet'
  BY <1>2, <1>3 DEF PermitSound, PendingIsUnlisted, Pending, OffIsQuiet
<1>8. \A e \in Delegation : mapped'[e] = mapped[e] \/ (e = d /\ mapped'[e] = t)
  BY <1>2 DEF Sound, DelegationTypeOK, TurnTypeOK
<1>9. ChildsOwn'
  BY <1>3, <1>4, <1>8, NamedTurns DEF PermitSound, ChildsOwn
<1>10. WaitsAtGate' /\ WaitingIsDispatched' /\ ToolsDoNotWait'
  BY <1>2, <1>3, <1>4 DEF PermitSound, WaitsAtGate, WaitingIsDispatched, ToolsDoNotWait
<1>11. WaitingIsSuspended'
  <2>1. SUFFICES ASSUME NEW e \in Delegation, svc' = "on", child'[e].status = "waiting",
                        gate'[e].stage = "none", mapped'[e] # NoTurn,
                        row'[mapped'[e]].status = "waiting"
                 PROVE  turn'[mapped'[e]].lease \notin Held
    BY DEF WaitingIsSuspended
  <2>2. mapped'[e] = mapped[e] /\ mapped[e] \in Turn \ {t}
    BY <1>3, <1>4, <1>8, <2>1, NamedTurns
  <2> QED
    BY <1>2, <1>3, <2>1, <2>2 DEF PermitSound, WaitingIsSuspended
<1> QED
  BY <1>5, <1>6, <1>7, <1>9, <1>10, <1>11 DEF PermitSound

\* A caller has a call only while the service is not off.
LEMMA CallerIsOn ==
  ASSUME PermitSound, NEW c \in Caller, call[c].op # "none" \/ call[c].stage # "none"
  PROVE  svc # "off"
<1>1. NoCall.op = "none" /\ NoCall.stage = "none"
  BY DEF NoCall
<1>2. call[c] # NoCall
  BY <1>1
<1> QED
  BY <1>2 DEF PermitSound, OffIsQuiet

LEMMA CommitKeeps ==
  ASSUME Sound, PermitSound, NEW c \in Caller, SpawnCommits(c) \/ FollowUpCommits(c)
  PROVE  PermitSound'
<1> DEFINE d == call[c].of
<1>1. svc # "off" /\ UNCHANGED <<gate, rec>>
  BY CallerIsOn DEF SpawnCommits, FollowUpCommits
<1>2. d \in Delegation
  BY DEF Sound, DelegationTypeOK, ServiceTypeOK, Call
<1>3. \/ UNCHANGED turnVars
      \/ /\ \E t \in Turn, k \in {"initial", "follow_up"} : IsNext(t) /\ Schedule(t, d, k)
         /\ \A q \in Turn : IsActive(q) => row[q].of # d
  <2>1. CASE SpawnCommits(c)
    BY <2>1 DEF SpawnCommits, TurnsOf, IsActive, ActiveStatuses
  <2>2. CASE FollowUpCommits(c)
    BY <2>2 DEF FollowUpCommits, TurnsOf, IsActive, ActiveStatuses
  <2> QED
    BY <2>1, <2>2
<1>4. CASE UNCHANGED turnVars
  <2>1. UNCHANGED <<svc, row, turn, mapped, child>>
    BY <1>4 DEF turnVars
  <2>2. Quiet
    BY <2>1, SameTurns, SameMaps, SameChildren DEF Quiet
  <2>3. ServiceCalm
    BY <1>1, <2>1 DEF ServiceCalm, PermitSound, PendingIsUnlisted, Pending
  <2> QED
    BY <1>1, <2>2, <2>3, SameGates, CalmKeeps DEF Quiet, Calm
<1> QED
  BY <1>1, <1>2, <1>3, <1>4, ScheduleKeeps DEF IsNext

\* The service is on, or leaves the calls that are under way to end.
LEMMA BusyService ==
  ASSUME PermitSound, svc # "off", UNCHANGED <<svc, rec>>
  PROVE  ServiceCalm
BY DEF ServiceCalm, PermitSound, PendingIsUnlisted, Pending

LEMMA BeginKeeps ==
  ASSUME Sound, PermitSound, NEW c \in Caller,
         Spawn(c) \/ FollowUp(c) \/ InterruptReturns(c)
  PROVE  PermitSound'
<1>1. UNCHANGED <<svc, rec, gate, row, turn, mapped, child>>
  BY DEF Spawn, FollowUp, InterruptReturns, turnVars
<1>2. svc # "off"
  BY CallerIsOn DEF Spawn, FollowUp, Begins, InterruptReturns
<1>3. Quiet
  BY <1>1, SameTurns, SameMaps, SameChildren DEF Quiet
<1> QED
  BY <1>1, <1>2, <1>3, BusyService, SameGates, CalmKeeps DEF Quiet, Calm

LEMMA InterruptKeeps ==
  ASSUME Sound, PermitSound, NEW c \in Caller, Interrupt(c)
  PROVE  PermitSound'
<1>1. svc # "off" /\ UNCHANGED <<svc, rec, gate, mapped>>
  BY DEF Interrupt
<1>2. PICK d \in Delegation : \E t \in TurnsOf(d) :
        InterruptListed(c, d, t) \/ InterruptUnlisted(c, d, t)
  BY DEF Interrupt, Listed
<1>3. PICK t \in TurnsOf(d) : InterruptListed(c, d, t) \/ InterruptUnlisted(c, d, t)
  BY <1>2
<1>4. ChildrenCalm
  BY <1>3, SameChildren DEF InterruptListed, InterruptUnlisted
<1>5. TurnsCalm
  <2>1. CASE InterruptListed(c, d, t)
    <3>1. Follows(Aborted(turn[t]), turn[t])
      BY NamedTurns, AbortedFollows DEF TurnsOf
    <3> QED
      BY <2>1, <3>1, OneTurn DEF InterruptListed
  <2>2. CASE InterruptUnlisted(c, d, t)
    <3>1. ~turn[t].live /\ RowEnds(t, "interrupted") /\ turn' = turn
      BY <2>2 DEF InterruptUnlisted, Listed
    <3>2. Becomes(t, turn[t])
      BY <3>1 DEF Becomes, Sound, DelegationTypeOK, TurnTypeOK
    <3>3. Follows(turn[t], turn[t])
      BY DEF Follows
    <3> QED
      BY <3>1, <3>2, <3>3, OneTurnEnded DEF Ended, TurnsOf
  <2> QED
    BY <1>3, <2>1, <2>2
<1> QED
  BY <1>1, <1>4, <1>5, BusyService, SameGates, SameMaps, CalmKeeps DEF Calm

LEMMA CallEndsKeeps ==
  ASSUME Sound, PermitSound, NEW c \in Caller, CancelReturns(c) \/ Drained(c)
  PROVE  PermitSound'
<1> DEFINE t == call[c].turn
           n == Settling(turn[t], "interrupted")
<1>1. svc # "off" /\ UNCHANGED <<svc, rec, gate, row, child>>
  BY CallerIsOn DEF CancelReturns, Drained
<1>2. UNCHANGED turn \/ Becomes(t, n)
  BY DEF CancelReturns, Drained
<1>3. t \in Turn => Follows(n, turn[t])
  BY NamedTurns, SettlingFollows
<1>4. MapsCalm
  <2>1. mapped' = mapped \/ \E d : mapped' = [mapped EXCEPT ![d] = NoTurn]
    BY DEF CancelReturns, Drained
  <2> QED
    BY <2>1, SameMaps
<1> HIDE DEF n
<1>5. TurnsCalm
  BY <1>1, <1>2, <1>3, OneTurn, SameTurns
<1> QED
  BY <1>1, <1>4, <1>5, BusyService, SameGates, SameChildren, CalmKeeps DEF Calm

-----------------------------------------------------------------------------
(* The boundary of a child.                                                *)

\* A boundary that is left while its child waits leaves no permit with the turn there.
LEMMA PassesCalm ==
  ASSUME Sound, PermitSound, NEW d \in Delegation, gate[d].stage # "none", Passes(d),
         UNCHANGED row,
         svc' = "on" /\ child'[d].status = "waiting" /\ row[gate[d].turn].status = "waiting"
         => turn'[gate[d].turn].lease \notin Held
  PROVE  GatesCalm
<1>1. NoGate.stage = "none"
  BY DEF NoGate
<1>2. gate'[d] = NoGate /\ \A e \in Delegation : e # d => gate'[e] = gate[e]
  BY DEF Passes, Sound, DelegationTypeOK, ServiceTypeOK
<1>3. \A q \in Turn : row[q].status = "waiting" /\ row[q].of = d => q = gate[d].turn
  BY DEF PermitSound, WaitsAtGate
<1> QED
  BY <1>1, <1>2, <1>3 DEF GatesCalm

LEMMA StandsCalm ==
  ASSUME Sound, NEW d \in Delegation, NEW s, gate[d].stage # "none", s # "none", Stands(d, s)
  PROVE  GatesCalm
<1>1. gate[d] \in GateFields /\ \A e \in Delegation : e # d => gate'[e] = gate[e]
  BY DEF Stands, Sound, DelegationTypeOK, ServiceTypeOK, Gate
<1>2. gate'[d] = [gate[d] EXCEPT !.stage = s]
  BY DEF Stands, Sound, DelegationTypeOK, ServiceTypeOK
<1>3. gate'[d].stage = s /\ gate'[d].turn = gate[d].turn /\ gate'[d].kind = gate[d].kind
  BY <1>1, <1>2 DEF GateFields
<1> QED
  BY <1>1, <1>3 DEF GatesCalm

\* A turn that could not be verified is stopped, and holds nothing.
LEMMA UnverifiedQuiet ==
  ASSUME Sound, PermitSound, NEW d \in Delegation, NEW t \in Turn, Unverified(d, t),
         UNCHANGED <<row, mapped>>
  PROVE  Quiet /\ turn'[t].lease \notin Held
<1> DEFINE n == Settling(Aborted(turn[t]), "interrupted")
<1>1. turn[t] \in Memory /\ turn \in [Turn -> Memory]
  BY SoundParts
<1>2. CASE turn[t].settle = "no"
  <2>1. Follows(n, turn[t])
    BY <1>1, StoppedFollows
  <2>2. Aborted(turn[t]) \in Memory /\ Aborted(turn[t]).settle = "no"
    BY <1>1, <1>2, AbortedMemory DEF Aborted, Memory, MemoryFields
  <2>3. n.lease \notin Held
    BY <2>2 DEF Settling, Held, Memory, MemoryFields
  <2>4. Becomes(t, n) /\ child' = Cancelled(d)
    BY <1>2 DEF Unverified
  <2> HIDE DEF n
  <2>5. turn'[t] = n
    BY <1>1, <2>4 DEF Becomes
  <2> QED
    BY <2>1, <2>3, <2>4, <2>5, MemoryQuiet
<1>3. CASE turn[t].settle # "no"
  <2>1. UNCHANGED <<turn, child>>
    BY <1>3 DEF Unverified
  <2>2. turn[t].lease \notin Held
    BY <1>3 DEF PermitSound, HeldIsLive
  <2> QED
    BY <2>1, <2>2, SameTurns, SameMaps, SameChildren DEF Quiet
<1> QED
  BY <1>2, <1>3

\* A boundary is left because its turn could not be verified.
LEMMA UnverifiedKeeps ==
  ASSUME Sound, PermitSound, NEW d \in Delegation, gate[d].stage # "none",
         Unverified(d, gate[d].turn), Passes(d), UNCHANGED <<row, mapped, svc, rec, call>>
  PROVE  PermitSound'
<1>1. gate[d].turn \in Turn
  BY NamedTurns
<1>2. Quiet /\ turn'[gate[d].turn].lease \notin Held
  BY <1>1, UnverifiedQuiet
<1> QED
  BY <1>2, PassesCalm, SameService, CalmKeeps DEF Quiet, Calm

\* The turn that stands at a boundary asks for its permit again.
LEMMA ResumeKeeps ==
  ASSUME Sound, PermitSound, NEW d \in Delegation, gate[d].stage # "none", Owned(d),
         NEW t, t = mapped[d], t = gate[d].turn, NEW n, Becomes(t, n),
         n.live = turn[t].live, n.settle = turn[t].settle, Stands(d, "resume"),
         UNCHANGED <<row, mapped, child, svc, rec, call>>
  PROVE  PermitSound'
<1>1. t \in Turn /\ turn[t].live /\ turn[t].settle = "no" /\ row[t].of = d
  BY NamedTurns DEF Owned, PermitSound, ChildsOwn
<1>2. turn'[t] = n /\ \A q \in Turn : q # t => turn'[q] = turn[q]
  BY <1>1 DEF Becomes, Sound, DelegationTypeOK, TurnTypeOK
<1>3. \A e \in Delegation :
        /\ gate'[e].stage # "none" => gate[e].stage # "none"
        /\ gate'[e].turn = gate[e].turn /\ gate'[e].kind = gate[e].kind
        /\ gate'[e].stage = "none" => e # d /\ gate[e].stage = "none"
  <2>1. gate[d] \in GateFields /\ gate'[d] = [gate[d] EXCEPT !.stage = "resume"]
        /\ \A e \in Delegation : e # d => gate'[e] = gate[e]
    BY DEF Stands, Sound, DelegationTypeOK, ServiceTypeOK, Gate
  <2> QED
    BY <2>1 DEF GateFields
<1>4. OneActiveRow' /\ WaitingIsDispatched'
  BY DEF PermitSound, OneActiveRow, WaitingIsDispatched, IsActive
<1>5. LiveIsActive' /\ HeldIsLive'
  BY <1>1, <1>2 DEF PermitSound, LiveIsActive, HeldIsLive, IsActive
<1>6. PendingIsUnlisted' /\ OffIsQuiet'
  BY <1>1, <1>2 DEF PermitSound, PendingIsUnlisted, Pending, OffIsQuiet
<1>7. ChildsOwn' /\ WaitsAtGate' /\ ToolsDoNotWait'
  BY <1>3 DEF PermitSound, ChildsOwn, WaitsAtGate, ToolsDoNotWait
<1>8. WaitingIsSuspended'
  <2>1. SUFFICES ASSUME NEW e \in Delegation, svc = "on", child[e].status = "waiting",
                        gate'[e].stage = "none", mapped[e] # NoTurn,
                        row[mapped[e]].status = "waiting"
                 PROVE  turn'[mapped[e]].lease \notin Held
    BY DEF WaitingIsSuspended
  <2>2. mapped[e] \in Turn \ {t} /\ gate[e].stage = "none"
    BY <1>1, <1>3, <2>1, NamedTurns DEF PermitSound, ChildsOwn
  <2> QED
    BY <1>2, <2>1, <2>2 DEF PermitSound, WaitingIsSuspended
<1> QED
  BY <1>4, <1>5, <1>6, <1>7, <1>8 DEF PermitSound

LEMMA GateVerifiedKeeps ==
  ASSUME Sound, PermitSound, NEW d \in Delegation, GateVerified(d)
  PROVE  PermitSound'
<1> DEFINE t == gate[d].turn
           n == [turn[t] EXCEPT !.lease = IF @ = "suspended" THEN "acquiring" ELSE @]
<1>1. gate[d].stage # "none" /\ UNCHANGED <<row, mapped, svc, rec, call>>
  BY DEF GateVerified, GateIsUp, AtGate
<1>2. turn[t] \in Memory
  BY <1>1, NamedTurns
<1>3. n.live = turn[t].live /\ n.settle = turn[t].settle
  BY <1>2 DEF Memory, MemoryFields
<1>4. \/ /\ Owned(d) /\ mapped[d] = t /\ Becomes(t, n)
         /\ Stands(d, "resume") /\ UNCHANGED child
      \/ Unverified(d, t) /\ Passes(d)
  BY Zenon DEF GateVerified
<1> HIDE DEF n
<1> QED
  BY <1>1, <1>3, <1>4, UnverifiedKeeps, ResumeKeeps

LEMMA GateAdmittedKeeps ==
  ASSUME Sound, PermitSound, NEW d \in Delegation, GateAdmitted(d) \/ GateRefused(d)
  PROVE  PermitSound'
<1>1. gate[d].stage # "none" /\ UNCHANGED <<row, mapped, svc, rec, call>>
  BY DEF GateAdmitted, GateRefused, AtGate
<1>2. \/ Stands(d, "enter") /\ UNCHANGED <<turn, child>>
      \/ Unverified(d, gate[d].turn) /\ Passes(d)
  BY Zenon DEF GateAdmitted, GateRefused
<1>3. CASE Stands(d, "enter") /\ UNCHANGED <<turn, child>>
  <2>1. Quiet
    BY <1>1, <1>3, SameTurns, SameMaps, SameChildren DEF Quiet
  <2>2. GatesCalm
    BY <1>1, <1>3, StandsCalm
  <2> QED
    BY <1>1, <2>1, <2>2, SameService, CalmKeeps DEF Quiet, Calm
<1> QED
  BY <1>1, <1>2, <1>3, UnverifiedKeeps

\* The boundary is passed: the child goes on, or the run does not and the permit is given up.
LEMMA GateEnteredKeeps ==
  ASSUME Sound, PermitSound, NEW d \in Delegation, GateEntered(d)
  PROVE  PermitSound'
<1> DEFINE t == gate[d].turn
           n == IF turn[t].live /\ row[t].status = "waiting" THEN Suspended(turn[t]) ELSE turn[t]
           answered == gate[d].kind = "answer" /\ child[d].status = "waiting"
           goes == [child EXCEPT ![d].status = "generating"]
<1>1. gate[d].stage # "none" /\ Passes(d) /\ UNCHANGED <<row, svc, rec, call>>
  BY DEF GateEntered, GateIsUp, AtGate
<1>2. /\ t \in Turn /\ turn[t] \in Memory /\ row[t].status # "none" /\ row[t].of = d
      /\ gate[d].kind \in {"tool", "answer"}
  BY <1>1, NamedTurns
  DEF PermitSound, ChildsOwn, Sound, DelegationTypeOK, ServiceTypeOK, Gate, GateFields
<1> HIDE DEF n, goes
<1>3. \/ /\ child' = IF answered THEN goes ELSE child
         /\ UNCHANGED mapped \/ mapped' = [mapped EXCEPT ![d] = t]
         /\ UNCHANGED turn
      \/ Becomes(t, n) /\ UNCHANGED <<child, mapped>>
      \/ Unverified(d, t) /\ UNCHANGED mapped
  BY Zenon DEF GateEntered, n, goes
<1>4. CASE /\ child' = IF answered THEN goes ELSE child
           /\ UNCHANGED mapped \/ mapped' = [mapped EXCEPT ![d] = t]
           /\ UNCHANGED turn
  <2>1. child \in [Delegation -> ChildSession]
    BY SoundParts
  <2>2. ChildrenCalm
    BY <1>4, <2>1 DEF goes, ChildrenCalm, ChildSession
  <2>3. child'[d].status # "waiting"
    <3>1. CASE answered
      BY <1>4, <2>1, <3>1 DEF goes, ChildSession
    <3>2. CASE ~answered
      BY <1>1, <1>2, <1>4, <3>2 DEF PermitSound, ToolsDoNotWait
    <3> QED
      BY <3>1, <3>2
  <2>4. MapsCalm
    <3>1. CASE UNCHANGED mapped
      BY <3>1, SameMaps
    <3>2. CASE mapped' = [mapped EXCEPT ![d] = t]
      BY <1>2, <2>3, <3>2, MappedToOwn
    <3> QED
      BY <1>4, <3>1, <3>2
  <2>5. GatesCalm
    BY <1>1, <2>3, PassesCalm
  <2> QED
    BY <1>1, <1>4, <2>2, <2>4, <2>5, SameTurns, SameService, CalmKeeps DEF Calm
<1>5. CASE Becomes(t, n) /\ UNCHANGED <<child, mapped>>
  <2>1. /\ Follows(n, turn[t])
        /\ svc' = "on" /\ row[t].status = "waiting" => n.lease \notin Held
    <3>1. CASE turn[t].live /\ row[t].status = "waiting"
      BY <1>2, <3>1, SuspendedFollows DEF n
    <3>2. CASE ~(turn[t].live /\ row[t].status = "waiting")
      BY <1>1, <1>2, <3>2, AlikeFollows DEF n, PermitSound, HeldIsLive
    <3> QED
      BY <3>1, <3>2
  <2>2. turn'[t] = n
    BY <1>2, <1>5, SoundParts DEF Becomes
  <2>3. GatesCalm
    BY <1>1, <2>1, <2>2, PassesCalm
  <2>4. Quiet
    BY <1>1, <1>5, <2>1, MemoryQuiet
  <2> QED
    BY <1>1, <2>3, <2>4, SameService, CalmKeeps DEF Quiet, Calm
<1>6. CASE Unverified(d, t) /\ UNCHANGED mapped
  BY <1>1, <1>6, UnverifiedKeeps
<1> QED
  BY <1>3, <1>4, <1>5, <1>6

LEMMA CompletesKeeps ==
  ASSUME Sound, PermitSound, NEW d \in Delegation, Completes(d)
  PROVE  PermitSound'
<1> DEFINE t == Head(chain[d])[2]
           n == Settling(turn[t], "completed")
<1>1. t \in Turn
  <2>1. chain[d] # <<>> /\ chain[d] \in Seq(Queued)
    BY SoundParts DEF Completes
  <2>2. Head(chain[d]) \in Queued
    BY <2>1
  <2> QED
    BY <2>2 DEF Queued
<1>2. (Becomes(t, n) /\ UNCHANGED child) \/ Unverified(d, t)
  BY Zenon DEF Completes
<1>3. UNCHANGED <<row, mapped, svc, serviceVars>>
  BY DEF Completes
<1>4. Follows(n, turn[t])
  BY <1>1, NamedTurns, SettlingFollows
<1> HIDE DEF t, n
<1>5. Quiet
  BY <1>1, <1>2, <1>3, <1>4, MemoryQuiet, UnverifiedQuiet
<1> QED
  BY <1>3, <1>5, QuietKeeps

\* The turn a boundary opens for is the only active one of its delegation.
LEMMA GateOpensKeeps ==
  ASSUME Sound, PermitSound, NEW d \in Delegation, GateOpens(d)
  PROVE  PermitSound'
<1> DEFINE t == mapped[d]
           k == IF child[d].status = "waiting" THEN "answer" ELSE "tool"
           s == IF turn[t].lease = "active" THEN "enter" ELSE "verify"
           g == [kind |-> k, turn |-> t, stage |-> s]
<1>1. UNCHANGED <<row, turn, mapped, child, svc, call, rec>> /\ gate' = [gate EXCEPT ![d] = g]
  BY DEF GateOpens
<1>2. t \in Turn /\ t # NoTurn /\ turn[t].live /\ turn[t].settle = "no"
  BY NamedTurns DEF GateOpens, Owned
<1>3. IsActive(t) /\ row[t].status # "none" /\ row[t].of = d
  BY <1>2 DEF PermitSound, LiveIsActive, ChildsOwn, IsActive, ActiveStatuses
<1>4. g.turn = t /\ (g.kind = "tool" => child[d].status # "waiting") /\ g.stage # "none"
  OBVIOUS
<1> HIDE DEF g
<1>5. gate'[d] = g /\ \A e \in Delegation : e # d => gate'[e] = gate[e]
  BY <1>1, SoundParts
<1>6. OneActiveRow' /\ LiveIsActive' /\ HeldIsLive' /\ WaitingIsDispatched'
  BY <1>1
  DEF PermitSound, OneActiveRow, LiveIsActive, HeldIsLive, WaitingIsDispatched, IsActive
<1>7. PendingIsUnlisted' /\ OffIsQuiet'
  BY <1>1 DEF PermitSound, PendingIsUnlisted, Pending, OffIsQuiet
<1>8. ChildsOwn' /\ ToolsDoNotWait'
  BY <1>1, <1>3, <1>4, <1>5 DEF PermitSound, ChildsOwn, ToolsDoNotWait
<1>9. WaitsAtGate'
  <2>1. SUFFICES ASSUME NEW e \in Delegation, NEW q \in Turn, gate'[e].stage # "none",
                        row[q].of = e, row[q].status = "waiting"
                 PROVE  q = gate'[e].turn
    BY <1>1 DEF WaitsAtGate
  <2>2. CASE e = d
    BY <1>2, <1>3, <1>4, <1>5, <2>1, <2>2
    DEF PermitSound, OneActiveRow, IsActive, ActiveStatuses
  <2>3. CASE e # d
    BY <1>5, <2>1, <2>3 DEF PermitSound, WaitsAtGate
  <2> QED
    BY <2>2, <2>3
<1>10. WaitingIsSuspended'
  BY <1>1, <1>4, <1>5 DEF PermitSound, WaitingIsSuspended
<1> QED
  BY <1>6, <1>7, <1>8, <1>9, <1>10 DEF PermitSound

-----------------------------------------------------------------------------
(* The child at work.                                                      *)

LEMMA AnswerUnownedKeeps ==
  ASSUME Sound, PermitSound, NEW d \in Delegation, AnswerUnowned(d)
  PROVE  PermitSound'
<1>1. ChildrenCalm
  BY SoundParts DEF AnswerUnowned, ChildrenCalm, ChildSession
<1>2. UNCHANGED <<row, turn, mapped, svc, serviceVars>>
  BY DEF AnswerUnowned
<1> QED
  BY <1>1, <1>2, SameTurns, SameMaps, QuietKeeps DEF Quiet

\* A status or a block of the child reaches the turn it is mapped to.
LEMMA ChildWritesKeeps ==
  ASSUME Sound, PermitSound, NEW d \in Delegation, ChildWrites(d)
  PROVE  PermitSound'
<1> DEFINE t == mapped[d]
           n == [turn[t] EXCEPT !.seen = child[d].turn]
<1>1. UNCHANGED <<mapped, child, svc, serviceVars>> /\ Hears(d)
  BY DEF ChildWrites, PublishBlocks
<1>2. t \in Turn /\ turn[t] \in Memory
  BY <1>1, NamedTurns DEF Hears
<1>3. Follows(n, turn[t])
  BY <1>2, AlikeFollows DEF Memory, MemoryFields
<1>4. /\ Becomes(t, n)
      /\ \/ UNCHANGED row
         \/ row[t].status = "waiting" /\ row' = MarkedAs(row, t, "running")
  BY <1>1 DEF ChildWrites, PublishBlocks
<1> HIDE DEF n
<1>5. TurnsCalm
  BY <1>2, <1>3, <1>4, OneTurn, OneTurnMarked DEF IsActive, ActiveStatuses
<1> QED
  BY <1>1, <1>5, SameMaps, SameChildren, QuietKeeps DEF Quiet

LEMMA ChildEndsKeeps ==
  ASSUME Sound, PermitSound, NEW d \in Delegation, ChildEnds(d)
  PROVE  PermitSound'
<1>1. PICK s \in {"idle", "error"}, answered \in BOOLEAN :
        /\ child' = [child EXCEPT ![d].status = s,
                                  ![d].answer = IF answered THEN child[d].turn ELSE @,
                                  ![d].fresh = @ \/ answered]
        /\ PublishStatus(d, s)
  BY DEF ChildEnds
<1>2. UNCHANGED <<mapped, svc, serviceVars>>
  BY DEF ChildEnds
<1>3. ChildrenCalm
  <2>1. child \in [Delegation -> ChildSession]
    BY SoundParts
  <2>2. child'[d].status = s /\ \A e \in Delegation : e # d => child'[e] = child[e]
    BY <1>1, <2>1 DEF ChildSession
  <2> QED
    BY <2>2 DEF ChildrenCalm
<1>4. TurnsCalm
  <2>1. CASE Hears(d)
    <3> DEFINE t == mapped[d]
               m == [turn[t] EXCEPT !.runtime = s]
    <3>1. t \in Turn /\ turn[t] \in Memory
      BY <2>1, NamedTurns DEF Hears
    <3>2. m \in Memory /\ Follows(m, turn[t])
      BY <3>1, AlikeFollows DEF Memory, MemoryFields
    <3>3. Apply(t, m)
      BY <1>1, <2>1 DEF PublishStatus
    <3> HIDE DEF m
    <3> QED
      BY <3>1, <3>2, <3>3, ApplyCalm
  <2>2. CASE ~Hears(d)
    BY <1>1, <2>2, SameTurns DEF PublishStatus
  <2> QED
    BY <2>1, <2>2
<1> QED
  BY <1>2, <1>3, <1>4, SameMaps, QuietKeeps DEF Quiet

\* The child waits for its user: a turn that hears of it gives up its permit, one that does
\* not has none.
LEMMA ChildAsksKeeps ==
  ASSUME Sound, PermitSound, NEW d \in Delegation, ChildAsks(d)
  PROVE  PermitSound'
<1> DEFINE t == mapped[d]
           n == [Suspended(turn[t]) EXCEPT !.seen = child[d].turn]
<1>1. UNCHANGED <<mapped, svc, call, gate, rec>> /\ gate[d].stage = "none"
  BY DEF ChildAsks, AtGate, serviceVars
<1>2. \A e \in Delegation : e # d => child'[e] = child[e]
  BY SoundParts DEF ChildAsks
<1>3. ToolsDoNotWait' /\ mapped \in [Delegation -> Turn \union {NoTurn}]
  BY <1>1, <1>2, SoundParts DEF PermitSound, ToolsDoNotWait
<1>4. CASE Hears(d)
  <2>1. /\ t \in Turn /\ turn[t] \in Memory /\ turn[t].live /\ turn[t].settle = "no"
        /\ svc = "on" /\ t # NoTurn
    BY <1>4, NamedTurns DEF Hears
  <2>2. IsActive(t) /\ row[t].of = d
    BY <2>1 DEF PermitSound, LiveIsActive, ChildsOwn
  <2>3. Suspended(turn[t]) \in Memory /\ Suspended(turn[t]).lease \notin Held
        /\ Suspended(turn[t]).live /\ Suspended(turn[t]).settle = "no"
    BY <2>1, SuspendedMemory, SuspendedFollows DEF Suspended, Memory, MemoryFields
  <2>4. n.lease \notin Held /\ n.live /\ n.settle = "no"
    BY <2>3 DEF Memory, MemoryFields
  <2>5. Becomes(t, n) /\ row' = MarkedAs(row, t, "waiting")
    BY <1>4, <2>2 DEF ChildAsks, PublishWaiting
  <2> HIDE DEF n
  <2>6. turn'[t] = n /\ \A q \in Turn : q # t => turn'[q] = turn[q]
    BY <2>1, <2>5, SoundParts DEF Becomes
  <2>7. /\ row'[t].status = "waiting" /\ row'[t].of = d /\ row'[t].dispatched
        /\ \A q \in Turn : q # t => row'[q] = row[q]
    <3>1. row[t] \in Row /\ row \in [Turn -> Row]
      BY <2>1, SoundParts
    <3> QED
      BY <2>1, <2>2, <2>5, <3>1 DEF MarkedAs, Row
  <2>8. OneActiveRow'
    <3>1. \A q \in Turn : row'[q].of = row[q].of /\
                          (row'[q].status \in ActiveStatuses => IsActive(q))
      BY <2>2, <2>7 DEF IsActive
    <3> QED
      BY <3>1 DEF PermitSound, OneActiveRow, IsActive
  <2>9. LiveIsActive' /\ HeldIsLive' /\ WaitingIsDispatched'
    BY <1>1, <2>4, <2>6, <2>7
    DEF PermitSound, LiveIsActive, HeldIsLive, WaitingIsDispatched, IsActive, ActiveStatuses
  <2>10. PendingIsUnlisted' /\ OffIsQuiet'
    BY <1>1, <2>1, <2>6, <2>7 DEF PermitSound, PendingIsUnlisted, Pending, OffIsQuiet
  <2>11. ChildsOwn'
    BY <1>1, <1>3, <2>2, <2>7, NamedTurns DEF PermitSound, ChildsOwn
  <2>12. WaitsAtGate'
    BY <1>1, <2>7 DEF PermitSound, WaitsAtGate
  <2>13. WaitingIsSuspended'
    <3>1. SUFFICES ASSUME NEW e \in Delegation, child'[e].status = "waiting",
                          gate[e].stage = "none", mapped[e] # NoTurn, mapped[e] # t,
                          row'[mapped[e]].status = "waiting"
                   PROVE  turn'[mapped[e]].lease \notin Held
      BY <1>1, <2>4, <2>6 DEF WaitingIsSuspended
    <3>2. mapped[e] \in Turn /\ e # d
      BY <1>3, <3>1
    <3> QED
      BY <1>2, <2>1, <2>6, <2>7, <3>1, <3>2 DEF PermitSound, WaitingIsSuspended
  <2> QED
    BY <1>3, <2>8, <2>9, <2>10, <2>11, <2>12, <2>13 DEF PermitSound
<1>5. CASE ~Hears(d)
  <2>1. UNCHANGED <<turn, row>>
    BY <1>5 DEF ChildAsks, PublishWaiting
  <2>2. /\ OneActiveRow' /\ LiveIsActive' /\ HeldIsLive' /\ WaitingIsDispatched'
        /\ PendingIsUnlisted' /\ OffIsQuiet' /\ ChildsOwn' /\ WaitsAtGate'
    BY <1>1, <2>1
    DEF PermitSound, OneActiveRow, LiveIsActive, HeldIsLive, WaitingIsDispatched, IsActive,
        PendingIsUnlisted, Pending, OffIsQuiet, ChildsOwn, WaitsAtGate
  <2>3. WaitingIsSuspended'
    <3>1. SUFFICES ASSUME NEW e \in Delegation, svc = "on", child'[e].status = "waiting",
                          gate[e].stage = "none", mapped[e] # NoTurn,
                          row[mapped[e]].status = "waiting"
                   PROVE  turn[mapped[e]].lease \notin Held
      BY <1>1, <2>1 DEF WaitingIsSuspended
    <3>2. CASE e = d
      <4>1. t \in Turn /\ ~(turn[t].live /\ turn[t].settle = "no")
        BY <1>3, <1>5, <3>1, <3>2 DEF Hears
      <4> QED
        BY <3>1, <3>2, <4>1 DEF PermitSound, HeldIsLive
    <3>3. CASE e # d
      BY <1>2, <3>1, <3>3 DEF PermitSound, WaitingIsSuspended
    <3> QED
      BY <3>2, <3>3
  <2> QED
    BY <1>3, <2>2, <2>3 DEF PermitSound
<1> QED
  BY <1>4, <1>5

-----------------------------------------------------------------------------
(* The reconciliation.                                                     *)

\* A start finds no turn in memory, and maps a child to an active turn of its delegation.
LEMMA StartKeeps ==
  ASSUME Sound, PermitSound, Start
  PROVE  PermitSound'
<1> DEFINE todo == {t \in Turn : IsActive(t)}
<1>1. svc = "off" /\ svc' = "on" /\ UNCHANGED <<row, turn, child, call, gate>>
  BY DEF Start
<1>2. \A t \in Turn : ~turn[t].live /\ turn[t].lease \notin Held
  BY <1>1 DEF PermitSound, OffIsQuiet, HeldIsLive
<1>3. rec'.todo = todo /\ rec'.stage = "none"
  BY DEF Start, NoRecord
<1>4. \A d \in Delegation :
        mapped'[d] # NoTurn => mapped'[d] \in todo /\ row[mapped'[d]].of = d
  <2>1. SUFFICES ASSUME NEW d \in Delegation, mapped'[d] # NoTurn
                 PROVE  mapped'[d] \in todo /\ row[mapped'[d]].of = d
    OBVIOUS
  <2>2. (\E t \in todo : row[t].of = d) /\ mapped'[d] = CHOOSE t \in todo : row[t].of = d
    BY <2>1 DEF Start
  <2> QED
    BY <2>2
<1>5. /\ OneActiveRow' /\ LiveIsActive' /\ HeldIsLive' /\ WaitingIsDispatched'
      /\ WaitsAtGate' /\ ToolsDoNotWait' /\ OffIsQuiet'
  BY <1>1, <1>2
  DEF PermitSound, OneActiveRow, LiveIsActive, HeldIsLive, WaitingIsDispatched, IsActive,
      WaitsAtGate, ToolsDoNotWait, OffIsQuiet
<1>6. PendingIsUnlisted'
  BY <1>1, <1>2, <1>3 DEF PendingIsUnlisted, Pending, IsActive, ActiveStatuses
<1>7. ChildsOwn'
  BY <1>1, <1>4 DEF PermitSound, ChildsOwn, IsActive, ActiveStatuses
<1>8. WaitingIsSuspended'
  BY <1>1, <1>2, <1>4 DEF WaitingIsSuspended
<1> QED
  BY <1>5, <1>6, <1>7, <1>8 DEF PermitSound

LEMMA RecordReadKeeps ==
  ASSUME Sound, PermitSound, ReadRecord \/ RecordSettled
  PROVE  PermitSound'
<1>1. UNCHANGED <<svc, row, turn, mapped, child, call, gate>>
  BY DEF ReadRecord, RecordSettled, turnVars
<1>2. Pending' \subseteq Pending /\ (rec'.stage = "read" => rec'.at \notin rec'.todo)
  <2>1. CASE RecordSettled
    BY <2>1 DEF RecordSettled, RecordDone, NoRecord, Pending
  <2>2. CASE ReadRecord
    <3>1. CASE svc # "on"
      BY <2>2, <3>1 DEF ReadRecord, NoRecord, Pending
    <3>2. CASE svc = "on"
      <4>1. \E t \in rec.todo :
              rec'.todo = rec.todo \ {t} /\ rec'.at = t /\ rec'.stage = "read"
        BY <2>2, <3>2 DEF ReadRecord
      <4> QED
        BY <4>1 DEF Pending
    <3> QED
      BY <3>1, <3>2
  <2> QED
    BY <2>1, <2>2
<1>3. ServiceCalm
  BY <1>1, <1>2 DEF ServiceCalm
<1> QED
  BY <1>1, <1>3, SameTurns, SameMaps, SameChildren, SameGates, CalmKeeps DEF Calm

\* The turn at hand is not in memory, and so asks for nothing.
LEMMA AtHand ==
  ASSUME Sound, PermitSound, Reconcile
  PROVE  /\ rec.at \in Turn /\ rec.at \notin rec.todo /\ ~turn[rec.at].live
         /\ svc # "stopped" => turn[rec.at].lease \notin Held
BY RecordParts DEF Reconcile, PermitSound, PendingIsUnlisted, Pending, HeldIsLive

LEMMA RecordLeftKeeps ==
  ASSUME Sound, PermitSound, Reconcile,
         RecordGone(rec.at) \/ RecordInterrupted(rec.at) \/ RecordQuarantined(rec.at)
  PROVE  PermitSound'
<1> DEFINE t == rec.at
           d == row[t].of
<1>1. UNCHANGED <<svc, call, gate, turn>> /\ RecordDone
  BY DEF Reconcile, RecordGone, RecordInterrupted, RecordQuarantined
<1>2. t \in Turn /\ ~turn[t].live /\ (svc # "stopped" => turn[t].lease \notin Held)
  BY AtHand
<1>3. \/ UNCHANGED mapped \/ mapped' = [mapped EXCEPT ![d] = NoTurn]
      \/ svc = "on" /\ IsActive(t) /\ mapped' = [mapped EXCEPT ![d] = t]
  BY DEF RecordGone, RecordInterrupted, RecordQuarantined, Unmaps
<1>4. /\ UNCHANGED row \/ RowEnds(t, "interrupted")
      /\ UNCHANGED child \/ child' = Cancelled(d)
  BY DEF RecordGone, RecordInterrupted, RecordQuarantined
<1>5. TurnsCalm
  <2>1. Becomes(t, turn[t]) /\ Follows(turn[t], turn[t])
    BY <1>1, SoundParts DEF Becomes, Follows
  <2> QED
    BY <1>1, <1>2, <1>4, <2>1, SameTurns, OneTurnEnded DEF Ended
<1>6. MapsCalm
  <2>1. CASE IsActive(t) /\ svc = "on" /\ mapped' = [mapped EXCEPT ![d] = t]
    BY <1>1, <1>2, <2>1, MappedToOwn DEF IsActive, ActiveStatuses
  <2> QED
    BY <1>3, <2>1, SameMaps
<1>7. ServiceCalm
  BY <1>1 DEF RecordDone, NoRecord, Pending, ServiceCalm
<1> QED
  BY <1>1, <1>4, <1>5, <1>6, <1>7, SameChildren, SameGates, CalmKeeps DEF Calm

\* A turn that is taken up asks for a permit only where its row does not wait.
LEMMA TakenUpHolds ==
  ASSUME NEW t \in Turn, NEW m \in Memory, m.live, m.settle = "no", m.lease \notin Held,
         row[t].status = "waiting" => row[t].dispatched
  PROVE  /\ TakenUp(t, m).live
         /\ TakenUp(t, m).lease \in Held
            => TakenUp(t, m).settle = "no" /\ row[t].status # "waiting"
<1>1. Watched(t, m).live /\ Watched(t, m).settle = "no"
      /\ (Watched(t, m).lease \in Held => row[t].status # "waiting")
  BY DEF Watched, Memory, MemoryFields
<1>2. LET n == [m EXCEPT !.runtime = "none", !.step = "admit", !.lease = "acquiring"]
      IN  n.live /\ n.settle = "no"
  BY DEF Memory, MemoryFields
<1>3. \A o : Settling(m, o).live /\ Settling(m, o).lease \notin Held
  BY DEF Settling, Held, Memory, MemoryFields
<1> QED
  BY <1>1, <1>2, <1>3 DEF TakenUp

LEMMA RecordTakenKeeps ==
  ASSUME Sound, PermitSound, Reconcile, RecordTaken(rec.at)
  PROVE  PermitSound'
<1> DEFINE t == rec.at
           d == row[t].of
           works == rec.shown = "generating"
           b == row[t].dispatched \/ works
           m == [NewMemory(d) EXCEPT !.knows = TRUE, !.started = b, !.runtime = rec.shown]
           n == TakenUp(t, m)
<1>1. /\ t \in Turn /\ d \in Delegation /\ t \notin rec.todo /\ svc = "on" /\ IsActive(t)
      /\ row[t] \in Row /\ row[t].status # "none"
  BY AtHand, SoundParts DEF RecordTaken, Row, IsActive, ActiveStatuses
<1>2. m \in Memory /\ m.live /\ m.settle = "no" /\ m.lease \notin Held
  <2>1. rec.shown \in {"none", "idle", "generating", "error"}
    BY RecordParts DEF Record
  <2>2. b \in BOOLEAN
    OBVIOUS
  <2>3. /\ NewMemory(d) \in Memory /\ NewMemory(d).live /\ NewMemory(d).settle = "no"
        /\ NewMemory(d).lease \notin Held
    BY NewMemoryMemory DEF NewMemory, NoMemory, Held
  <2> HIDE DEF b
  <2> QED
    BY <2>1, <2>2, <2>3 DEF Memory, MemoryFields
<1> HIDE DEF m
<1>3. n.live /\ (n.lease \in Held => n.settle = "no" /\ row[t].status # "waiting")
  BY <1>1, <1>2, TakenUpHolds DEF PermitSound, WaitingIsDispatched
<1>4. /\ mapped' = [mapped EXCEPT ![d] = t] /\ turn' = [turn EXCEPT ![t] = n]
      /\ UNCHANGED <<svc, call, gate>>
  BY DEF Reconcile, RecordTaken, Becomes, m
<1>5. /\ \/ UNCHANGED row
         \/ row[t].status # "waiting" /\ row' = MarkedAs(row, t, "running")
      /\ UNCHANGED child \/ child' = [child EXCEPT ![d].fresh = FALSE]
      /\ rec' = [rec EXCEPT !.stage = "settle"] \/ RecordDone
  <2>1. ~row[t].dispatched => row[t].status # "waiting"
    BY <1>1 DEF PermitSound, WaitingIsDispatched
  <2> QED
    BY <2>1, Zenon DEF RecordTaken
<1> HIDE DEF n
<1>6. turn'[t] = n /\ \A q \in Turn : q # t => turn'[q] = turn[q]
  BY <1>1, <1>4, SoundParts
<1>7. /\ \A q \in Turn : /\ row'[q].of = row[q].of
                         /\ row'[q].status \in ActiveStatuses <=> IsActive(q)
                         /\ row'[q].status = "none" <=> row[q].status = "none"
      /\ \A q \in Turn : row'[q].status = "waiting" => row'[q] = row[q]
  <2>1. CASE UNCHANGED row
    BY <2>1 DEF IsActive
  <2>2. CASE row' = MarkedAs(row, t, "running")
    <3>1. row'[t].status = "running" /\ row'[t].of = d
          /\ \A q \in Turn : q # t => row'[q] = row[q]
      BY <1>1, <2>2, SoundParts DEF MarkedAs, Row
    <3> QED
      BY <1>1, <3>1 DEF IsActive, ActiveStatuses
  <2> QED
    BY <1>5, <2>1, <2>2
<1>8. \A e \in Delegation : child'[e].status = child[e].status
  <2>1. CASE child' = [child EXCEPT ![d].fresh = FALSE]
    <3>1. child \in [Delegation -> ChildSession]
      BY SoundParts
    <3> HIDE DEF d
    <3> QED
      BY <2>1, <3>1 DEF ChildSession
  <2> QED
    BY <1>5, <2>1
<1>9. \A e \in Delegation : mapped'[e] = IF e = d THEN t ELSE mapped[e]
  BY <1>4, SoundParts
<1>10. OneActiveRow' /\ WaitingIsDispatched'
  BY <1>7 DEF PermitSound, OneActiveRow, WaitingIsDispatched, IsActive
<1>11. LiveIsActive' /\ HeldIsLive'
  BY <1>1, <1>3, <1>4, <1>6, <1>7 DEF PermitSound, LiveIsActive, HeldIsLive, IsActive
<1>12. PendingIsUnlisted' /\ OffIsQuiet'
  <2>1. rec'.todo = rec.todo /\ rec'.stage # "read"
    BY <1>5, RecordParts DEF RecordDone, NoRecord, Record
  <2>2. \A q \in rec.todo : q \in Turn \ {t} /\ ~turn[q].live /\ row[q].status # "none"
    BY <1>1 DEF PermitSound, PendingIsUnlisted, Pending
  <2>3. \A q \in rec.todo : ~turn'[q].live /\ row'[q].status # "none"
    BY <1>6, <1>7, <2>2
  <2> QED
    BY <1>1, <1>4, <2>1, <2>2, <2>3 DEF PendingIsUnlisted, Pending, OffIsQuiet
<1>13. ChildsOwn'
  BY <1>1, <1>4, <1>7, <1>9, NamedTurns DEF PermitSound, ChildsOwn
<1>14. WaitsAtGate' /\ ToolsDoNotWait'
  BY <1>4, <1>7, <1>8 DEF PermitSound, WaitsAtGate, ToolsDoNotWait
<1>15. WaitingIsSuspended'
  <2>1. SUFFICES ASSUME NEW e \in Delegation, child[e].status = "waiting",
                        gate[e].stage = "none", mapped'[e] # NoTurn,
                        row'[mapped'[e]].status = "waiting"
                 PROVE  turn'[mapped'[e]].lease \notin Held
    BY <1>4, <1>8 DEF WaitingIsSuspended
  <2>2. CASE e = d
    BY <1>1, <1>3, <1>6, <1>7, <1>9, <2>1, <2>2
  <2>3. CASE e # d
    <3>1. mapped'[e] = mapped[e] /\ mapped[e] \in Turn /\ row[mapped[e]].of = e
      BY <1>9, <2>1, <2>3, NamedTurns DEF PermitSound, ChildsOwn
    <3>2. mapped[e] # t /\ row[mapped[e]].status = "waiting"
      BY <1>7, <2>1, <2>3, <3>1
    <3> QED
      BY <1>1, <1>6, <2>1, <3>1, <3>2 DEF PermitSound, WaitingIsSuspended
  <2> QED
    BY <2>2, <2>3
<1> QED
  BY <1>10, <1>11, <1>12, <1>13, <1>14, <1>15 DEF PermitSound

-----------------------------------------------------------------------------
(* stop(), and the end of the app.                                         *)

\* On its way to "stopped" the service only aborts, cancels and settles.
LEMMA StopKeeps ==
  ASSUME Sound, PermitSound, Stop \/ StopTakes \/ StopCancels \/ StopSettles
  PROVE  PermitSound'
<1>1. /\ svc \in {"on", "draining", "emptying", "closing"}
      /\ svc' \in {"draining", "emptying", "closing", "settling"}
      /\ UNCHANGED <<row, mapped, gate, rec, call>>
  BY DEF Stop, StopTakes, StopCancels, StopSettles, Moves, serviceVars
<1>2. ServiceCalm
  BY <1>1 DEF ServiceCalm, PermitSound, PendingIsUnlisted, Pending
<1>3. TurnsCalm
  <2>1. ASSUME NEW q \in Turn
        PROVE  turn'[q] \in {turn[q], Aborted(turn[q]), Settling(turn[q], "interrupted")}
    BY DEF Stop, StopTakes, StopCancels, StopSettles
  <2>2. ASSUME NEW q \in Turn
        PROVE  Follows(turn'[q], turn[q])
    <3>1. turn[q] \in Memory
      BY SoundParts
    <3>2. Follows(turn[q], turn[q])
      BY DEF Follows
    <3> QED
      BY <2>1, <3>1, <3>2, AbortedFollows, SettlingFollows
  <2> QED
    BY <1>1, <2>2 DEF TurnsCalm, MemoryCalm, Follows, RowCalm, IsActive
<1>4. ChildrenCalm
  <2>1. CASE UNCHANGED child
    BY <2>1 DEF ChildrenCalm
  <2>2. CASE StopCancels
    <3>1. ASSUME NEW d \in Delegation, Cancelled(d)[d].status = "waiting"
          PROVE  child[d].status = "waiting"
      BY <3>1, SoundParts DEF Cancelled, Working, ChildSession
    <3> QED
      BY <2>2, <3>1 DEF StopCancels, ChildrenCalm
  <2> QED
    BY <2>1, <2>2 DEF Stop, StopTakes, StopSettles
<1> QED
  BY <1>1, <1>2, <1>3, <1>4, SameMaps, SameGates, CalmKeeps DEF Calm

\* Once it has stopped, what is left in memory is listed no more.
LEMMA StopEndsKeeps ==
  ASSUME Sound, PermitSound, StopEnds
  PROVE  PermitSound'
<1>1. /\ svc' = "stopped" /\ UNCHANGED <<row, child, call, gate, rec>>
      /\ \A d \in Delegation : mapped'[d] \in {mapped[d], NoTurn}
  BY DEF StopEnds, Moves
<1>2. \A q \in Turn : /\ ~turn'[q].live /\ turn'[q].lease = turn[q].lease
                      /\ turn'[q].settle = turn[q].settle
  BY SoundParts DEF StopEnds, Memory, MemoryFields
<1>3. /\ OneActiveRow' /\ WaitingIsDispatched' /\ WaitsAtGate' /\ ToolsDoNotWait'
  BY <1>1
  DEF PermitSound, OneActiveRow, WaitingIsDispatched, WaitsAtGate, ToolsDoNotWait, IsActive
<1>4. LiveIsActive' /\ HeldIsLive' /\ PendingIsUnlisted' /\ OffIsQuiet' /\ WaitingIsSuspended'
  BY <1>1, <1>2
  DEF PermitSound, LiveIsActive, HeldIsLive, PendingIsUnlisted, Pending, OffIsQuiet,
      WaitingIsSuspended
<1>5. ChildsOwn'
  BY <1>1 DEF PermitSound, ChildsOwn
<1> QED
  BY <1>3, <1>4, <1>5 DEF PermitSound

\* Without memory and without boundaries, only the rows are left.
OnlyRows ==
  /\ svc = "off" /\ OneActiveRow /\ WaitingIsDispatched
  /\ turn = [t \in Turn |-> NoMemory] /\ mapped = [d \in Delegation |-> NoTurn]
  /\ call = [c \in Caller |-> NoCall] /\ gate = [d \in Delegation |-> NoGate]
  /\ rec = NoRecord

LEMMA FromRows == OnlyRows => PermitSound
<1> SUFFICES ASSUME OnlyRows PROVE PermitSound
  OBVIOUS
<1>1. /\ \A t \in Turn : ~turn[t].live /\ turn[t].lease \notin Held
      /\ \A d \in Delegation : mapped[d] = NoTurn /\ gate[d].stage = "none"
      /\ \A c \in Caller : call[c] = NoCall
      /\ rec.todo = {} /\ rec.stage = "none"
  BY DEF OnlyRows, NoMemory, NoGate, NoRecord, Held
<1>2. LiveIsActive /\ HeldIsLive /\ PendingIsUnlisted /\ OffIsQuiet
  BY <1>1 DEF LiveIsActive, HeldIsLive, PendingIsUnlisted, Pending, OffIsQuiet
<1>3. ChildsOwn /\ WaitsAtGate /\ ToolsDoNotWait /\ WaitingIsSuspended
  BY <1>1 DEF ChildsOwn, WaitsAtGate, ToolsDoNotWait, WaitingIsSuspended
<1> QED
  BY <1>2, <1>3 DEF OnlyRows, PermitSound

LEMMA RestartKeeps ==
  ASSUME PermitSound, Restart
  PROVE  PermitSound'
<1>1. OneActiveRow' /\ WaitingIsDispatched'
  BY DEF Restart, PermitSound, OneActiveRow, WaitingIsDispatched, IsActive
<1>2. OnlyRows'
  BY <1>1 DEF Restart, OnlyRows
<1> QED
  BY <1>2, FromRows, PTL

-----------------------------------------------------------------------------
(* The whole.                                                              *)

LEMMA InitPermits == Init => PermitSound
<1> SUFFICES ASSUME Init PROVE PermitSound
  OBVIOUS
<1>1. \A t \in Turn : row[t].status = "none"
  BY DEF Init, NoRow
<1>2. OneActiveRow /\ WaitingIsDispatched
  BY <1>1 DEF OneActiveRow, WaitingIsDispatched, IsActive, ActiveStatuses
<1> QED
  BY <1>2, FromRows DEF Init, OnlyRows

LEMMA NextPermits == Sound /\ PermitSound /\ [Next]_vars => PermitSound'
<1> SUFFICES ASSUME Sound, PermitSound, [Next]_vars PROVE PermitSound'
  OBVIOUS
<1>1. ASSUME NEW c \in Caller, Spawn(c) \/ FollowUp(c) \/ Interrupt(c) \/ Calls(c)
      PROVE  PermitSound'
  BY <1>1, BeginKeeps, CommitKeeps, InterruptKeeps, CallEndsKeeps DEF Calls
<1>2. ASSUME NEW t \in Turn, Task(t) \/ Refuse(t) \/ SendFails(t), UNCHANGED serviceVars
      PROVE  PermitSound'
  BY <1>2, TaskKeeps
<1>3. ASSUME NEW d \in Delegation, Boundary(d)
      PROVE  PermitSound'
  BY <1>3, GateVerifiedKeeps, GateAdmittedKeeps, GateEnteredKeeps, CompletesKeeps DEF Boundary
<1>4. ASSUME NEW d \in Delegation, Child(d)
      PROVE  PermitSound'
  BY <1>4, GateOpensKeeps, AnswerUnownedKeeps, ChildAsksKeeps, ChildWritesKeeps,
     ChildEndsKeeps DEF Child
<1>5. CASE Start \/ Reconciling
  BY <1>5, StartKeeps, RecordReadKeeps, RecordLeftKeeps, RecordTakenKeeps
  DEF Reconciling, Reconcile
<1>6. CASE Stop \/ Stopping \/ Restart
  BY <1>6, StopKeeps, StopEndsKeeps, RestartKeeps DEF Stopping
<1>7. CASE UNCHANGED vars
  BY <1>7, SameTurns, SameMaps, SameChildren, QuietKeeps DEF vars, turnVars, Quiet
<1> QED
  BY <1>1, <1>2, <1>3, <1>4, <1>5, <1>6, <1>7 DEF Next

\* While a child waits for its user, its turn holds no permit of the process: a question
\* suspends the lease, and neither a boundary that fails after an answer nor a restart that
\* finds the child waiting leaves the permit with the turn.
THEOREM WaitingCostsNoPermit == Spec => []WaitingHoldsNoPermit
<1>1. PermitSound => WaitingHoldsNoPermit
  BY DEF PermitSound, WaitingIsSuspended, WaitingHoldsNoPermit, AtGate, Held
<1> QED
  BY <1>1, InitSound, NextSound, InitPermits, NextPermits, PTL DEF Spec

-----------------------------------------------------------------------------
(* The runs and their ends.  A child works for the turn whose handoff it       *)
(* accepted last.  That turn is active, or was ended without a cancellation,   *)
(* or stop() has aborted it and has still to cancel its child: whoever else    *)
(* gives a turn up cancels the child in the same step, or does so before the   *)
(* handoff is accepted.  And a turn that was dispatched is completed with its  *)
(* own answer only, because what the child answered since the last recorded    *)
(* dispatch is the answer of the only active turn there is.  Both rest on what *)
(* is true of every turn at every stage of its task and of its settlement, and *)
(* on what the operations, boundaries and calls that wait for a child know of  *)
(* the turn they wait with.                                                    *)

\* The steps of a task before its handoff is accepted.
Early == Undelivered \union {"send"}

\* A turn that goes to its delivery or was delivered, and is not being settled otherwise
\* than as completed.
UnderWay(m) ==
  \/ m.settle = "no" /\ (m.step \in Early \union {"accepted"} \/ m.started)
  \/ m.settle \in {"lookup", "tape"} /\ m.outcome = "completed"

\* What the memory m of turn t, its row r, the number s of its handoffs and the turn k
\* whose answer it has taken allow together; B are the bound delegations, v is the service.
Fits(t, m, r, s, k, B, v) ==
  /\ r.status = "none" => m = NoMemory
  /\ m.step \in Undelivered => ~r.dispatched
  /\ m.step \in {"send", "accepted"} \/ m.started => r.dispatched
  /\ m.step \in Early \union {"accepted"} => ~m.started
  /\ m.step \in Early => m.runtime = "none" /\ (m.settle # "no" => m.aborted /\ m.step # "send")
  /\ m.step \in {"sync", "send", "accepted"} \/ (s # 0 /\ m.live) => m.knows
  /\ m.knows /\ (m.step \notin {"unbound", "over"} \/ s # 0) => r.of \in B
  /\ m.step = "recalled" => m.aborted
  /\ m.lease = "released" => m.settle # "no" \/ m.step = "over"
  /\ m.seen \in {NoTurn, t}
  /\ UnderWay(m) => r.status \in ActiveStatuses /\ (v # "stopped" => m.live)
  /\ m.settle \in {"lookup", "tape"} /\ m.outcome = "completed" => r.dispatched
  /\ m.settle = "tape" /\ m.outcome = "completed" => k = t
  /\ r.status = "completed" => k = t

TurnSound(t) == Fits(t, turn[t], row[t], sent[t], taken[t], bound, svc)

\* The run of a child is the latest handed over, of the delegation's only active turn; and
\* what it answered since the last recorded dispatch is the answer of that turn.
ChildSound(d) ==
  /\ child[d].turn # NoTurn =>
       sent[child[d].turn] # 0 /\ row[child[d].turn].of = d /\ d \in bound
  /\ Busy(d) => child[d].turn # NoTurn
  /\ \A t \in Turn : IsActive(t) /\ row[t].of = d =>
       /\ Busy(d) => child[d].turn = t
       /\ child[d].fresh /\ row[t].dispatched => child[d].answer = t

\* stop() has aborted the turn and has still to cancel its child.
ToCancel(t) == svc = "emptying" /\ t \in captured

\* A child may work for turn t.
MayRun(t) ==
  /\ turn[t].runtime \notin {"idle", "error"}
  /\ \/ ToCancel(t)
     \/ /\ IsActive(t) \/ t \in lost
        /\ turn[t].settle = "no"
        /\ turn[t].aborted => turn[t].step = "accepted"

RunSound(d) == child[d].status \in Working => MayRun(child[d].turn)

\* A turn that was delivered, or goes to be without a way back; the reconciliation has not
\* to decide on it.
Delivered(t) == row[t].dispatched /\ turn[t].step \notin Early /\ t \notin Pending

\* An operation e that waits for the child of d.
EntrySound(d, e) ==
  e[1] # "run" =>
    /\ row[e[2]].of = d /\ Delivered(e[2])
    /\ e[1] = "check" /\ turn[e[2]].settle = "no" =>
         turn[e[2]].started /\ turn[e[2]].runtime \in {"idle", "error"}

ChainSound(d) == \A e \in Range(chain[d]) : EntrySound(d, e)
GateSound(d) == gate[d].stage # "none" => Delivered(gate[d].turn)

\* A turn that was aborted or is over stays so.
GivenUp(t) ==
  /\ t \in Turn \ Pending /\ row[t].status # "none"
  /\ turn[t].aborted \/ turn[t].settle = "over"

CallSound(c) == call[c].stage = "drain" => GivenUp(call[c].turn)

CapturesSound ==
  captured # {} => svc \in {"emptying", "closing", "settling"} /\ \A t \in captured : GivenUp(t)

\* What was read for a turn is true while it is used; stop() waits for the reconciliation.
RecSound ==
  /\ rec.stage = "read" => rec.at # NoTurn
  /\ rec.stage = "read" /\ rec.shown # "generating" /\ IsActive(rec.at)
     => ~Busy(row[rec.at].of)
  /\ svc \in {"emptying", "closing", "settling", "stopped"} => rec.at = NoTurn /\ rec.todo = {}

OffSound ==
  svc = "off" => /\ \A t \in Turn : turn[t] = NoMemory
                 /\ \A d \in Delegation : chain[d] = <<>> /\ gate[d].stage = "none"
                 /\ rec = NoRecord

TurnsSound == \A t \in Turn : TurnSound(t)
ChildrenSound == \A d \in Delegation : ChildSound(d)
RunsSound == \A d \in Delegation : RunSound(d)
ChainsSound == \A d \in Delegation : ChainSound(d)
GatesSound == \A d \in Delegation : GateSound(d)
CallsSound == \A c \in Caller : CallSound(c)

EndSound ==
  /\ TurnsSound /\ ChildrenSound /\ RunsSound /\ ChainsSound /\ GatesSound /\ CallsSound
  /\ CapturesSound /\ RecSound /\ OffSound

\* Memory n is memory m, but for an abort, its permit and its settlement.
Alike(n, m) ==
  /\ n.live = m.live /\ n.step = m.step /\ n.knows = m.knows
  /\ n.started = m.started /\ n.runtime = m.runtime /\ n.seen = m.seen

LEMMA SettlingAlike ==
  ASSUME NEW m \in Memory, NEW o
  PROVE  /\ Alike(Settling(m, o), m) /\ Settling(m, o).aborted = m.aborted
         /\ m.settle # "no" => Settling(m, o) = m
         /\ m.settle = "no" => /\ Settling(m, o).settle = "lookup"
                               /\ Settling(m, o).outcome = o
BY DEF Settling, Alike, Memory, MemoryFields

LEMMA AbortedAlike ==
  ASSUME NEW m \in Memory
  PROVE  /\ Alike(Aborted(m), m) /\ Aborted(m).aborted
         /\ Aborted(m).settle = m.settle /\ Aborted(m).outcome = m.outcome
         /\ Aborted(m).lease = "released" => m.lease = "released"
BY DEF Aborted, Alike, Memory, MemoryFields

LEMMA SuspendedAlike ==
  ASSUME NEW m \in Memory
  PROVE  /\ Alike(Suspended(m), m) /\ Suspended(m).aborted = m.aborted
         /\ Suspended(m).settle = m.settle /\ Suspended(m).outcome = m.outcome
         /\ Suspended(m).lease = "released" => m.lease = "released"
BY DEF Suspended, Alike, Memory, MemoryFields

\* A memory that is like one that fits, fits: it may be aborted, and begin to be settled.
LEMMA AlikeFits ==
  ASSUME NEW t, NEW m \in Memory, NEW n \in Memory, NEW r, NEW s, NEW k, NEW B, NEW v,
         Fits(t, m, r, s, k, B, v), r.status # "none", Alike(n, m), m.aborted => n.aborted,
         n.lease = "released" => m.lease = "released" \/ n.settle # "no",
         \/ n.settle = m.settle /\ n.outcome = m.outcome
         \/ /\ m.settle = "no" /\ n.settle = "lookup"
            /\ m.step \in Early => n.aborted /\ m.step # "send"
            /\ n.outcome = "completed" => r.dispatched /\ UnderWay(m)
  PROVE  Fits(t, n, r, s, k, B, v)
BY DEF Fits, Alike, UnderWay

\* A turn that is over, and whose row has ended or goes on.
LEMMA ThrownFits ==
  ASSUME NEW t, NEW m \in Memory, NEW r, NEW s, NEW k, NEW B, NEW v,
         Fits(t, m, r, s, k, B, v), r.status # "none"
  PROVE  Fits(t, Thrown(m), r, s, k, B, v)
<1> DEFINE o == IF m.aborted THEN "interrupted" ELSE "failed"
           n == Settling(m, o)
           p == [n EXCEPT !.step = "over"]
<1>1. n \in Memory /\ o # "completed"
  BY SettlingMemory DEF Ended
<1>2. /\ Alike(n, m) /\ n.aborted = m.aborted /\ (m.settle # "no" => n = m)
      /\ m.settle = "no" => n.settle = "lookup" /\ n.outcome = o
  BY SettlingAlike
<1> HIDE DEF n, o
<1>3. /\ p.step = "over" /\ p.live = n.live /\ p.knows = n.knows /\ p.started = n.started
      /\ p.runtime = n.runtime /\ p.seen = n.seen /\ p.aborted = n.aborted
      /\ p.settle = n.settle /\ p.outcome = n.outcome /\ p.lease = n.lease
  BY <1>1 DEF Memory, MemoryFields
<1>4. p # NoMemory
  BY <1>3 DEF NoMemory
<1> HIDE DEF p
<1>5. Fits(t, p, r, s, k, B, v)
  BY <1>1, <1>2, <1>3 DEF Fits, Alike, UnderWay, Early, Undelivered
<1> QED
  BY <1>5 DEF Thrown, p, n, o

-----------------------------------------------------------------------------
(* What a step that moves one turn leaves of it.                           *)

\* Memory n is not before memory m on the way of a turn.
Onward(n, m) ==
  /\ m.aborted \/ m.settle = "over" => n.aborted \/ n.settle = "over"
  /\ m.settle # "no" => n.settle # "no"
  /\ m.step \notin Early => n.step \notin Early
  /\ m.started /\ m.runtime \in {"idle", "error"}
     => n.settle # "no" \/ (n.started /\ n.runtime \in {"idle", "error"})

\* Turn t alone moves; its row, if it becomes or stays active, was.
Moved(t) ==
  /\ \A q \in Turn \ {t} : /\ turn'[q] = turn[q] /\ row'[q] = row[q]
                           /\ sent'[q] = sent[q] /\ taken'[q] = taken[q]
  /\ t \notin Pending => Onward(turn'[t], turn[t])
  /\ row[t].status # "none" /\ row'[t].status # "none" /\ row'[t].of = row[t].of
  /\ row[t].dispatched => row'[t].dispatched
  /\ row'[t].status \in ActiveStatuses => IsActive(t)
  /\ sent[t] # 0 => sent'[t] # 0
  /\ bound \subseteq bound' /\ lost \subseteq lost' /\ svc' = svc

\* The child of d stays, is cancelled, goes on or ends without an answer.
ChildAlike(d) ==
  /\ child'[d].turn = child[d].turn /\ child'[d].answer = child[d].answer
  /\ child'[d].fresh => child[d].fresh
  /\ child'[d].status \in Working => child[d].status \in Working
  /\ child'[d].status = "cancelling" => Busy(d)

\* A row whose dispatch is recorded by the step has no answer yet.
RecordedAfresh(t) ==
  row'[t].dispatched => row[t].dispatched \/ ~child'[row[t].of].fresh

\* What the types say of the turns, their children and the operations on them.
LEMMA EndParts ==
  ASSUME Sound
  PROVE  /\ \A d \in Delegation :
              child[d] \in ChildSession /\ child[d].turn \in Turn \union {NoTurn}
         /\ \A d \in Delegation : Range(chain[d]) \subseteq Queued /\ chain[d] \in Seq(Queued)
         /\ \A t \in Turn : turn[t] \in Memory /\ row[t] \in Row /\ row[t].of \in Delegation
         /\ \A t \in Turn : sent[t] # 0 => row[t].dispatched /\ row[t].status # "none"
                                           /\ turn[t].step \notin Early
         /\ NoTurn \notin Turn
<1>1. ASSUME NEW s \in Seq(Queued) PROVE Range(s) \subseteq Queued
  BY DEF Range
<1>2. /\ child \in [Delegation -> ChildSession] /\ chain \in [Delegation -> Seq(Queued)]
      /\ turn \in [Turn -> Memory] /\ row \in [Turn -> Row]
  BY SoundParts
<1>3. \A d \in Delegation : child[d].turn \in Turn \union {NoTurn}
  BY <1>2 DEF ChildSession
<1>4. \A t \in Turn : row[t].of \in Delegation
  BY <1>2 DEF Row
<1>5. \A t \in Turn : sent[t] # 0 => row[t].dispatched /\ row[t].status # "none"
                                     /\ turn[t].step \notin Early
  BY DEF Sound, DispatchSound, Early
<1> QED
  BY <1>1, <1>2, <1>3, <1>4, <1>5, DelegationAssumption

LEMMA TurnsStay ==
  ASSUME TurnsSound, NEW t \in Turn, Moved(t), TurnSound(t)'
  PROVE  TurnsSound'
<1>1. SUFFICES ASSUME NEW q \in Turn, q # t PROVE TurnSound(q)'
  BY DEF TurnsSound
<1>2. /\ turn'[q] = turn[q] /\ row'[q] = row[q] /\ taken'[q] = taken[q] /\ sent'[q] = sent[q]
      /\ bound \subseteq bound' /\ svc' = svc
  BY <1>1 DEF Moved
<1>3. TurnSound(q)
  BY DEF TurnsSound
<1> QED
  BY <1>2, <1>3 DEF TurnSound, Fits

LEMMA ChildStays ==
  ASSUME Sound, NEW d \in Delegation, ChildSound(d), NEW t \in Turn, Moved(t), ChildAlike(d),
         RecordedAfresh(t)
  PROVE  ChildSound(d)'
<1>1. child'[d].turn # NoTurn =>
        sent'[child'[d].turn] # 0 /\ row'[child'[d].turn].of = d /\ d \in bound'
  <2>1. SUFFICES ASSUME child[d].turn # NoTurn
                 PROVE  sent'[child[d].turn] # 0 /\ row'[child[d].turn].of = d /\ d \in bound'
    BY DEF ChildAlike
  <2>2. /\ child[d].turn \in Turn /\ sent[child[d].turn] # 0
        /\ row[child[d].turn].of = d /\ d \in bound
    BY <2>1, EndParts DEF ChildSound
  <2> QED
    BY <2>2 DEF Moved
<1>2. Busy(d)' => Busy(d) /\ child'[d].turn # NoTurn
  BY DEF ChildSound, ChildAlike, Busy, Working
<1>3. ASSUME NEW q \in Turn, row'[q].status \in ActiveStatuses, row'[q].of = d
      PROVE  /\ Busy(d)' => child'[d].turn = q
             /\ child'[d].fresh /\ row'[q].dispatched => child'[d].answer = q
  <2>1. IsActive(q) /\ row[q].of = d
    BY <1>3 DEF Moved, IsActive
  <2>2. child'[d].fresh /\ row'[q].dispatched => row[q].dispatched
    BY <2>1 DEF Moved, RecordedAfresh
  <2> QED
    BY <1>2, <2>1, <2>2 DEF ChildSound, ChildAlike
<1> QED
  BY <1>1, <1>2, <1>3 DEF ChildSound, IsActive

LEMMA RunStays ==
  ASSUME Sound, NEW d \in Delegation, ChildSound(d), RunSound(d), NEW t \in Turn, Moved(t),
         captured' = captured, ChildAlike(d),
         child'[d].status \in Working /\ child[d].turn = t => MayRun(t)'
  PROVE  RunSound(d)'
<1>1. SUFFICES ASSUME child'[d].status \in Working, NEW q, q = child[d].turn, q # t
               PROVE  MayRun(q)'
  BY DEF RunSound, ChildAlike
<1>2. q \in Turn \ {t} /\ MayRun(q)
  BY <1>1, EndParts DEF ChildSound, RunSound, ChildAlike, Busy
<1>3. turn'[q] = turn[q] /\ row'[q] = row[q] /\ lost \subseteq lost' /\ svc' = svc
  BY <1>2 DEF Moved
<1> QED
  BY <1>2, <1>3 DEF MayRun, ToCancel, IsActive

LEMMA DeliveredStays ==
  ASSUME NEW q \in Turn, NEW t \in Turn, Moved(t), Pending' \subseteq Pending, Delivered(q)
  PROVE  /\ Delivered(q)' /\ row'[q].of = row[q].of
         /\ turn[q].settle # "no" => turn'[q].settle # "no"
         /\ turn[q].started /\ turn[q].runtime \in {"idle", "error"}
            => \/ turn'[q].settle # "no"
               \/ turn'[q].started /\ turn'[q].runtime \in {"idle", "error"}
BY DEF Moved, Delivered, Onward

LEMMA EntryStays ==
  ASSUME NEW d, NEW e \in Queued, EntrySound(d, e), NEW t \in Turn, Moved(t),
         Pending' \subseteq Pending
  PROVE  EntrySound(d, e)'
<1>1. SUFFICES ASSUME e[1] # "run"
               PROVE  /\ row'[e[2]].of = d /\ Delivered(e[2])'
                      /\ e[1] = "check" /\ turn'[e[2]].settle = "no"
                         => turn'[e[2]].started /\ turn'[e[2]].runtime \in {"idle", "error"}
  BY DEF EntrySound
<1>2. PICK q \in Turn : q = e[2]
  BY DEF Queued
<1>3. /\ row[q].of = d /\ Delivered(q)
      /\ e[1] = "check" /\ turn[q].settle = "no"
         => turn[q].started /\ turn[q].runtime \in {"idle", "error"}
  BY <1>1, <1>2 DEF EntrySound
<1>4. /\ Delivered(q)' /\ row'[q].of = row[q].of
      /\ turn[q].settle # "no" => turn'[q].settle # "no"
      /\ turn[q].started /\ turn[q].runtime \in {"idle", "error"}
         => turn'[q].settle # "no" \/ (turn'[q].started /\ turn'[q].runtime \in {"idle", "error"})
  BY <1>3, DeliveredStays
<1> QED
  BY <1>2, <1>3, <1>4 DEF Delivered

LEMMA GivenUpStays ==
  ASSUME NEW q, GivenUp(q), NEW t \in Turn, Moved(t), Pending' \subseteq Pending
  PROVE  GivenUp(q)'
BY DEF Moved, GivenUp, Onward

\* The operations and the boundaries there are, or new ones of a delivered turn.
ServiceAlike ==
  /\ Pending' \subseteq Pending
  /\ \A d \in Delegation : \A e \in Range(chain'[d]) : e \in Range(chain[d]) \/ EntrySound(d, e)'
  /\ \A d \in Delegation :
       \/ gate'[d].stage # "none" => gate[d].stage # "none" /\ gate'[d].turn = gate[d].turn
       \/ GateSound(d)'
  /\ \A c \in Caller :
       \/ call'[c].stage = "drain" => call[c].stage = "drain" /\ call'[c].turn = call[c].turn
       \/ CallSound(c)'
  /\ captured' = captured

LEMMA ServiceStays ==
  ASSUME Sound, EndSound, NEW t \in Turn, Moved(t), ServiceAlike
  PROVE  ChainsSound' /\ GatesSound' /\ CallsSound' /\ CapturesSound'
<1>1. ASSUME NEW d \in Delegation PROVE ChainSound(d)'
  <2>1. SUFFICES ASSUME NEW e \in Range(chain'[d]), e \in Range(chain[d]) PROVE EntrySound(d, e)'
    BY DEF ServiceAlike, ChainSound
  <2>2. e \in Queued /\ EntrySound(d, e)
    BY <2>1, EndParts DEF EndSound, ChainsSound, ChainSound
  <2> QED
    BY <2>2, EntryStays DEF ServiceAlike
<1>2. ASSUME NEW d \in Delegation PROVE GateSound(d)'
  <2>1. SUFFICES ASSUME NEW q, q = gate[d].turn, gate[d].stage # "none", gate'[d].turn = q
                 PROVE  Delivered(q)'
    BY DEF ServiceAlike, GateSound
  <2>2. q \in Turn /\ Delivered(q)
    BY <2>1, NamedTurns DEF EndSound, GatesSound, GateSound
  <2> QED
    BY <2>2, DeliveredStays DEF ServiceAlike
<1>3. ASSUME NEW c \in Caller PROVE CallSound(c)'
  <2>1. SUFFICES ASSUME NEW q, q = call[c].turn, call[c].stage = "drain", call'[c].turn = q
                 PROVE  GivenUp(q)'
    BY DEF ServiceAlike, CallSound
  <2> QED
    BY <2>1, GivenUpStays DEF ServiceAlike, EndSound, CallsSound, CallSound
<1>4. CapturesSound'
  <2>1. svc' = svc /\ captured' = captured
    BY DEF Moved, ServiceAlike
  <2>2. \A q \in captured : GivenUp(q) => GivenUp(q)'
    BY GivenUpStays DEF ServiceAlike
  <2> QED
    BY <2>1, <2>2 DEF EndSound, CapturesSound
<1> QED
  BY <1>1, <1>2, <1>3, <1>4 DEF ChainsSound, GatesSound, CallsSound

\* What was read stays true, unless a child begins to work.
LEMMA RecordStays ==
  ASSUME Sound, RecSound, NEW t \in Turn, Moved(t), rec' = rec,
         \A d \in Delegation : Busy(d)' => Busy(d)
  PROVE  RecSound'
<1>1. /\ rec.stage = "read" => rec.at # NoTurn
      /\ svc \in {"emptying", "closing", "settling", "stopped"} => rec.at = NoTurn /\ rec.todo = {}
      /\ svc' = svc
  BY DEF RecSound, Moved
<1>2. SUFFICES ASSUME rec.stage = "read", rec.shown # "generating", NEW q \in Turn, q = rec.at,
                      row'[q].status \in ActiveStatuses
               PROVE  ~Busy(row[q].of)'
  <2>1. rec.at \in Turn \union {NoTurn}
    BY RecordParts
  <2> QED
    BY <1>1, <2>1 DEF RecSound, IsActive
<1>3. row'[q].of = row[q].of /\ IsActive(q) /\ row[q].of \in Delegation
  BY <1>2, EndParts DEF Moved, IsActive
<1>4. ~Busy(row[q].of)
  BY <1>2, <1>3 DEF RecSound
<1>5. PICK d \in Delegation : d = row[q].of
  BY <1>3
<1>6. ~Busy(d)'
  BY <1>4, <1>5
<1> QED
  BY <1>3, <1>5, <1>6 DEF Busy

\* A step of one turn, which leaves what the others rest on.
LEMMA MovedKeeps ==
  ASSUME Sound, EndSound, NEW t \in Turn, Moved(t), TurnSound(t)', RecordedAfresh(t),
         \A d \in Delegation : ChildAlike(d),
         \A d \in Delegation :
           child'[d].status \in Working /\ child[d].turn = t => MayRun(t)',
         ServiceAlike, rec' = rec, svc # "off"
  PROVE  EndSound'
<1>1. TurnsSound'
  BY TurnsStay DEF EndSound
<1>2. ChildrenSound'
  BY ChildStays DEF EndSound, ChildrenSound
<1>3. RunsSound'
  BY RunStays DEF EndSound, RunsSound, ChildrenSound, ServiceAlike
<1>4. ChainsSound' /\ GatesSound' /\ CallsSound' /\ CapturesSound'
  BY ServiceStays
<1>5. \A d \in Delegation : Busy(d)' => Busy(d)
  BY DEF ChildAlike, Busy, Working
<1>6. RecSound'
  BY <1>5, RecordStays DEF EndSound
<1>7. OffSound'
  BY DEF OffSound, Moved
<1> QED
  BY <1>1, <1>2, <1>3, <1>4, <1>6, <1>7 DEF EndSound

-----------------------------------------------------------------------------
(* The task of a turn.                                                     *)

LEMMA AlikeOnward ==
  ASSUME NEW n, NEW m, Alike(n, m), m.aborted => n.aborted, n.settle = m.settle \/ m.settle = "no"
  PROVE  Onward(n, m)
BY DEF Onward, Alike

LEMMA ThrownOnward ==
  ASSUME NEW m \in Memory
  PROVE  /\ Onward(Thrown(m), m) /\ Thrown(m).runtime = m.runtime
         /\ Thrown(m).aborted = m.aborted /\ Thrown(m).step = "over"
<1> DEFINE o == IF m.aborted THEN "interrupted" ELSE "failed"
           n == Settling(m, o)
           p == [n EXCEPT !.step = "over"]
<1>1. n \in Memory
  BY SettlingMemory DEF Ended
<1>2. /\ Alike(n, m) /\ n.aborted = m.aborted /\ (m.settle # "no" => n = m)
      /\ m.settle = "no" => n.settle = "lookup" /\ n.outcome = o
  BY SettlingAlike
<1> HIDE DEF n, o
<1>3. /\ p.step = "over" /\ p.started = n.started /\ p.runtime = n.runtime
      /\ p.aborted = n.aborted /\ p.settle = n.settle
  BY <1>1 DEF Memory, MemoryFields
<1> HIDE DEF p
<1>4. /\ Onward(p, m) /\ p.runtime = m.runtime /\ p.aborted = m.aborted /\ p.step = "over"
  BY <1>2, <1>3 DEF Onward, Alike, Early, Undelivered
<1> QED
  BY <1>4 DEF Thrown, p, n, o

\* The operations of a child: one leaves, or a sound one joins them.
LEMMA ChainEntries ==
  ASSUME Sound,
         \/ chain' = chain
         \/ \E d \in Delegation : chain[d] # <<>> /\ Leaves(d)
         \/ \E d \in Delegation : \E e \in Queued :
              chain' = [chain EXCEPT ![d] = Append(@, e)] /\ EntrySound(d, e)'
  PROVE  \A d \in Delegation : \A e \in Range(chain'[d]) :
           e \in Range(chain[d]) \/ EntrySound(d, e)'
<1>1. chain \in [Delegation -> Seq(Queued)]
  BY SoundParts
<1>2. ASSUME NEW s \in Seq(Queued), NEW e \in Queued
      PROVE  Range(Append(s, e)) \subseteq Range(s) \union {e}
  BY DEF Range
<1>3. ASSUME NEW s \in Seq(Queued), s # <<>> PROVE Range(Tail(s)) \subseteq Range(s)
  <2>1. SUFFICES ASSUME NEW i \in 1 .. Len(Tail(s)) PROVE Tail(s)[i] \in Range(s)
    BY <1>3 DEF Range
  <2>2. Tail(s)[i] = s[i + 1] /\ i + 1 \in 1 .. Len(s)
    BY <1>3, <2>1
  <2> QED
    BY <2>2 DEF Range
<1>4. CASE chain' = chain
  BY <1>4
<1>5. CASE \E d \in Delegation : chain[d] # <<>> /\ Leaves(d)
  BY <1>1, <1>3, <1>5 DEF Leaves
<1>6. ASSUME NEW d \in Delegation, NEW e \in Queued,
             chain' = [chain EXCEPT ![d] = Append(@, e)], EntrySound(d, e)'
      PROVE  \A c \in Delegation : \A f \in Range(chain'[c]) :
               f \in Range(chain[c]) \/ EntrySound(c, f)'
  <2>1. \A c \in Delegation : chain'[c] = IF c = d THEN Append(chain[d], e) ELSE chain[c]
    BY <1>1, <1>6
  <2>2. Range(Append(chain[d], e)) \subseteq Range(chain[d]) \union {e}
    BY <1>1, <1>2
  <2> QED
    BY <1>6, <2>1, <2>2
<1> QED
  BY <1>4, <1>5, <1>6

LEMMA ChainsAlike ==
  ASSUME Sound, UNCHANGED serviceVars,
         \/ chain' = chain
         \/ \E d \in Delegation : chain[d] # <<>> /\ Leaves(d)
         \/ \E d \in Delegation : \E e \in Queued :
              chain' = [chain EXCEPT ![d] = Append(@, e)] /\ EntrySound(d, e)'
  PROVE  ServiceAlike
BY ChainEntries DEF ServiceAlike, serviceVars, Pending

\* A turn whose memory is not empty has a row, and the service is not off.
LEMMA Awake ==
  ASSUME EndSound, NEW t \in Turn,
         \/ turn[t].step # "none" \/ turn[t].settle # "no" \/ turn[t].live \/ turn[t].started
         \/ turn[t].lease # "suspended"
  PROVE  svc # "off" /\ row[t].status # "none"
<1>1. turn[t] # NoMemory
  BY DEF NoMemory
<1> QED
  BY <1>1 DEF EndSound, OffSound, TurnsSound, TurnSound, Fits

\* The child works for turn t.
Runs(t) == child[row[t].of].status \in Working /\ child[row[t].of].turn = t

LEMMA RunsOwn ==
  ASSUME Sound, EndSound, NEW t \in Turn
  PROVE  /\ \A d \in Delegation : child[d].turn = t => d = row[t].of /\ d \in bound
         /\ Runs(t) => sent[t] # 0 /\ MayRun(t) /\ row[t].dispatched /\ turn[t].step \notin Early
<1>1. t # NoTurn /\ row[t].of \in Delegation
  BY EndParts
<1> QED
  BY <1>1, EndParts DEF EndSound, ChildrenSound, ChildSound, RunsSound, RunSound, Runs

LEMMA ChildrenAlike ==
  ASSUME Sound, NEW d \in Delegation, child' = child \/ child' = Cancelled(d)
  PROVE  /\ \A e \in Delegation : ChildAlike(e)
         /\ child' = Cancelled(d) => child'[d].status \notin Working
<1>1. child \in [Delegation -> ChildSession]
  BY SoundParts
<1>2. ASSUME child' = child PROVE \A e \in Delegation : ChildAlike(e)
  BY <1>1, <1>2 DEF ChildAlike, Busy
<1>3. CASE child' = Cancelled(d)
  <2>1. ASSUME NEW e \in Delegation
        PROVE  /\ ChildAlike(e)
               /\ e = d => child'[e].status \notin Working
    <3>1. CASE e = d /\ child[d].status \in Working
      <4>1. child'[e] = [child[e] EXCEPT !.status = "cancelling"]
        BY <1>1, <1>3, <3>1 DEF Cancelled
      <4> QED
        BY <1>1, <3>1, <4>1 DEF ChildAlike, Busy, Working, ChildSession
    <3>2. CASE ~(e = d /\ child[d].status \in Working)
      <4>1. child'[e] = child[e]
        BY <1>1, <1>3, <3>2 DEF Cancelled
      <4> QED
        BY <3>2, <4>1 DEF ChildAlike, Busy
    <3> QED
      BY <3>1, <3>2
  <2> QED
    BY <2>1
<1> QED
  BY <1>2, <1>3

\* The memory of one turn changes, and neither a row nor the history.
LEMMA OneMoves ==
  ASSUME Sound, EndSound, NEW t \in Turn, NEW n \in Memory, Becomes(t, n), Onward(n, turn[t]),
         row[t].status # "none", Fits(t, n, row[t], sent[t], taken[t], bound', svc),
         UNCHANGED <<row, svc, sent, taken, rec>>, bound \subseteq bound', lost \subseteq lost',
         svc # "off", ServiceAlike,
         \/ child' = child /\ (Runs(t) => MayRun(t)')
         \/ child' = Cancelled(row[t].of)
  PROVE  EndSound'
<1>1. turn'[t] = n /\ \A q \in Turn \ {t} : turn'[q] = turn[q]
  BY SoundParts DEF Becomes
<1>2. Moved(t)
  BY <1>1 DEF Moved, IsActive
<1>3. TurnSound(t)'
  BY <1>1 DEF TurnSound
<1>4. row[t].of \in Delegation
  BY EndParts
<1>5. RecordedAfresh(t)
  BY DEF RecordedAfresh
<1>6. \A d \in Delegation : child'[d].status \in Working /\ child[d].turn = t => MayRun(t)'
  <2>1. SUFFICES ASSUME child'[row[t].of].status \in Working, child[row[t].of].turn = t
                 PROVE  MayRun(t)'
    BY RunsOwn
  <2> QED
    BY <1>4, <2>1, ChildrenAlike DEF Runs
<1> QED
  BY <1>2, <1>3, <1>4, <1>5, <1>6, ChildrenAlike, MovedKeeps

\* What a change of one step leaves of a memory.
LEMMA StepOf ==
  ASSUME NEW m \in Memory, NEW s, NEW n, n = [m EXCEPT !.step = s]
  PROVE  /\ n.step = s /\ n.live = m.live /\ n.knows = m.knows /\ n.aborted = m.aborted
         /\ n.started = m.started /\ n.runtime = m.runtime /\ n.seen = m.seen
         /\ n.lease = m.lease /\ n.settle = m.settle /\ n.outcome = m.outcome
BY DEF Memory, MemoryFields

\* The run of a turn that is given up is one that stop() has still to cancel.
LEMMA RunStopped ==
  ASSUME Sound, EndSound, NEW t \in Turn, Runs(t), svc' = svc, captured' = captured,
         turn[t].settle # "no" \/ (turn[t].aborted /\ turn[t].step # "accepted"),
         turn'[t].runtime = turn[t].runtime
  PROVE  MayRun(t)'
BY RunsOwn DEF MayRun, ToCancel

\* What keeps the conditions under which a child works for a turn.
LEMMA RunGoesOn ==
  ASSUME Sound, EndSound, NEW t \in Turn, Runs(t), svc' = svc, captured' = captured,
         lost \subseteq lost', IsActive(t) => IsActive(t)', turn'[t].runtime = turn[t].runtime,
         turn'[t].settle = turn[t].settle, turn'[t].aborted = turn[t].aborted,
         turn[t].step = "accepted" => turn'[t].step = "accepted"
  PROVE  MayRun(t)'
BY RunsOwn DEF MayRun, ToCancel

LEMMA ThrownEnds ==
  ASSUME Sound, EndSound, NEW t \in Turn, Becomes(t, Thrown(turn[t])),
         UNCHANGED <<row, bound, svc, sent, taken, rec>>, lost \subseteq lost', ServiceAlike,
         captured' = captured, turn[t].step # "none",
         \/ child' = child /\ \/ turn[t].step \in Early \/ turn[t].settle # "no"
                              \/ turn[t].aborted /\ turn[t].step # "accepted"
         \/ child' = Cancelled(row[t].of)
  PROVE  EndSound'
<1> DEFINE n == Thrown(turn[t])
<1>1. turn[t] \in Memory /\ turn'[t] = n /\ n \in Memory
  BY EndParts, SoundParts, ThrownMemory DEF Becomes
<1>2. svc # "off" /\ row[t].status # "none"
  BY Awake
<1>3. Onward(n, turn[t]) /\ n.runtime = turn[t].runtime
  BY <1>1, ThrownOnward
<1>4. Fits(t, n, row[t], sent[t], taken[t], bound', svc)
  BY <1>1, <1>2, ThrownFits DEF EndSound, TurnsSound, TurnSound
<1>5. \/ child' = child /\ (Runs(t) => MayRun(t)')
      \/ child' = Cancelled(row[t].of)
  BY <1>1, <1>3, RunStopped, RunsOwn
<1> HIDE DEF n
<1> QED
  BY <1>1, <1>2, <1>3, <1>4, <1>5, OneMoves DEF n

LEMMA ThrowEnds ==
  ASSUME Sound, EndSound, NEW t \in Turn, Throw(t), UNCHANGED serviceVars,
         turn[t].step # "none",
         \/ turn[t].step \in Early \/ turn[t].settle # "no"
         \/ turn[t].aborted /\ turn[t].step # "accepted"
  PROVE  EndSound'
<1>1. ServiceAlike
  BY ChainsAlike DEF Throw
<1> QED
  BY <1>1, ThrownEnds DEF Throw, serviceVars

LEMMA GoesEnds ==
  ASSUME Sound, EndSound, NEW t \in Turn, NEW s \in Steps, Goes(t, s), UNCHANGED serviceVars,
         \/ turn[t].step \in {"admit", "readmit"} /\ s = "none"
         \/ turn[t].step = "safety" /\ s = "acquire"
         \/ turn[t].step = "acquire" /\ s = "create"
  PROVE  EndSound'
<1> DEFINE m == turn[t]
           n == [m EXCEPT !.step = s]
<1>1. m \in Memory /\ turn'[t] = n /\ n \in Memory /\ Becomes(t, n)
  <2>1. m \in Memory /\ turn \in [Turn -> Memory] /\ Becomes(t, n)
    BY SoundParts DEF Goes
  <2>2. n \in Memory
    BY <2>1 DEF Memory, MemoryFields
  <2> HIDE DEF n
  <2> QED
    BY <2>1, <2>2 DEF Becomes
<1>2. /\ n.step = s /\ n.live = m.live /\ n.knows = m.knows /\ n.aborted = m.aborted
      /\ n.started = m.started /\ n.runtime = m.runtime /\ n.seen = m.seen
      /\ n.lease = m.lease /\ n.settle = m.settle /\ n.outcome = m.outcome
  BY <1>1, StepOf
<1> HIDE DEF n
<1>3. svc # "off" /\ row[t].status # "none"
  BY Awake
<1>4. Onward(n, m)
  BY <1>2 DEF Onward, Early, Undelivered
<1>5. Fits(t, n, row[t], sent[t], taken[t], bound', svc)
  <2>1. Fits(t, m, row[t], sent[t], taken[t], bound, svc)
    BY DEF EndSound, TurnsSound, TurnSound
  <2> QED
    BY <1>2, <1>3, <2>1 DEF Fits, UnderWay, Early, Undelivered, Goes
<1>6. Runs(t) => MayRun(t)'
  BY <1>1, <1>2, RunGoesOn DEF Goes, serviceVars, IsActive
<1>7. ServiceAlike
  BY ChainsAlike DEF Goes
<1> QED
  BY <1>1, <1>3, <1>4, <1>5, <1>6, <1>7, OneMoves DEF Goes, serviceVars

LEMMA AdmitEnds ==
  ASSUME Sound, EndSound, NEW t \in Turn, Admit(t), UNCHANGED serviceVars
  PROVE  EndSound'
<1> DEFINE m == turn[t]
           s == CASE m.step = "admit" -> "safety"
                  [] m.step = "readmit" -> "watch"
                  [] OTHER -> m.step
           n == [m EXCEPT !.lease = "active", !.step = s]
<1>1. m \in Memory /\ Becomes(t, n)
  BY EndParts DEF Admit
<1>2. s \in Steps
  BY <1>1 DEF Memory, MemoryFields, Steps
<1>3. /\ m.step = "admit" => s = "safety"
      /\ m.step = "readmit" => s = "watch"
      /\ m.step \notin {"admit", "readmit"} => s = m.step
  OBVIOUS
<1> HIDE DEF s
<1>4. /\ n.step = s /\ n.live = m.live /\ n.knows = m.knows /\ n.aborted = m.aborted
      /\ n.started = m.started /\ n.runtime = m.runtime /\ n.seen = m.seen
      /\ n.lease = "active" /\ n.settle = m.settle /\ n.outcome = m.outcome
  BY <1>1 DEF Memory, MemoryFields
<1>5. n \in Memory
  BY <1>1, <1>2 DEF Memory, MemoryFields, Leases
<1> HIDE DEF n
<1>6. turn'[t] = n
  BY <1>1, SoundParts DEF Becomes
<1>7. svc # "off" /\ row[t].status # "none"
  BY Awake DEF Admit
<1>8. Onward(n, m)
  BY <1>3, <1>4 DEF Onward, Early, Undelivered
<1>9. Fits(t, n, row[t], sent[t], taken[t], bound', svc)
  <2>1. Fits(t, m, row[t], sent[t], taken[t], bound, svc)
    BY DEF EndSound, TurnsSound, TurnSound
  <2>2. UNCHANGED bound
    BY DEF Admit
  <2>3. CASE m.step = "admit"
    BY <1>3, <1>4, <1>7, <2>1, <2>2, <2>3 DEF Fits, UnderWay, Early, Undelivered
  <2>4. CASE m.step = "readmit"
    BY <1>3, <1>4, <1>7, <2>1, <2>2, <2>4 DEF Fits, UnderWay, Early, Undelivered
  <2>5. CASE m.step \notin {"admit", "readmit"}
    BY <1>3, <1>4, <1>7, <2>1, <2>2, <2>5 DEF Fits, UnderWay
  <2> QED
    BY <2>3, <2>4, <2>5
<1>10. Runs(t) => MayRun(t)'
  BY <1>3, <1>4, <1>6, RunGoesOn DEF Admit, serviceVars, IsActive
<1>11. ServiceAlike
  BY ChainsAlike DEF Admit
<1> QED
  BY <1>1, <1>5, <1>7, <1>8, <1>9, <1>10, <1>11, OneMoves DEF Admit, serviceVars


\* The child is bound, and its turn synchronized next; or it is cancelled.
LEMMA BindEnds ==
  ASSUME Sound, EndSound, NEW t \in Turn, Bind(t), turn[t].step \in {"acquire", "create"},
         UNCHANGED serviceVars
  PROVE  EndSound'
<1> DEFINE d == row[t].of
           m == turn[t]
           N(s) == [m EXCEPT !.knows = TRUE, !.step = s]
<1>1. m \in Memory /\ d \in Delegation
  BY EndParts
<1>2. PICK s \in {"unbound", "sync"} :
        /\ Becomes(t, N(s))
        /\ s = "unbound" => child' = Cancelled(d) /\ UNCHANGED chain
        /\ s = "unbound" => bound' = bound \union {d} \/ bound' = bound
        /\ s = "sync" => /\ UNCHANGED child /\ bound' = bound \union {d}
                        /\ chain' = [chain EXCEPT ![d] = Append(@, <<"run", t>>)]
  BY DEF Bind
<1>3. s \in Steps
  BY DEF Steps
<1> DEFINE n == N(s)
<1>4. /\ n.step = s /\ n.live = m.live /\ n.knows /\ n.aborted = m.aborted
      /\ n.started = m.started /\ n.runtime = m.runtime /\ n.seen = m.seen
      /\ n.lease = m.lease /\ n.settle = m.settle /\ n.outcome = m.outcome
  BY <1>1 DEF Memory, MemoryFields
<1>5. n \in Memory
  BY <1>1, <1>3 DEF Memory, MemoryFields
<1> HIDE DEF n
<1>6. svc # "off" /\ row[t].status # "none"
  BY Awake
<1>7. Onward(n, m)
  BY <1>1, <1>4 DEF Onward, Early, Undelivered
<1>8. bound \subseteq bound' /\ (s = "sync" => d \in bound')
  BY <1>2
<1>9. Fits(t, n, row[t], sent[t], taken[t], bound', svc)
  <2>1. Fits(t, m, row[t], sent[t], taken[t], bound, svc)
    BY DEF EndSound, TurnsSound, TurnSound
  <2>2. sent[t] = 0
    BY EndParts DEF Early, Undelivered
  <2> QED
    BY <1>1, <1>4, <1>6, <1>8, <2>1, <2>2 DEF Fits, UnderWay, Early, Undelivered
<1>10. ~Runs(t)
  BY RunsOwn DEF Early, Undelivered
<1>11. ServiceAlike
  <2>1. PICK e \in Queued : e = <<"run", t>>
    BY DEF Queued
  <2>2. PICK c \in Delegation : c = d
    BY <1>1
  <2>3. EntrySound(c, e)'
    BY <2>1 DEF EntrySound
  <2>4. chain' = chain \/ chain' = [chain EXCEPT ![c] = Append(@, e)]
    BY <1>2, <2>1, <2>2
  <2> QED
    BY <2>3, <2>4, ChainsAlike
<1>12. /\ Becomes(t, n) /\ (child' = child \/ child' = Cancelled(d))
       /\ UNCHANGED <<row, svc, sent, taken, lost>>
  BY <1>2 DEF Bind, n
<1> QED
  BY <1>5, <1>6, <1>7, <1>8, <1>9, <1>10, <1>11, <1>12, OneMoves DEF serviceVars

LEMMA AcquireEnds ==
  ASSUME Sound, EndSound, NEW t \in Turn, Acquire(t), UNCHANGED serviceVars
  PROVE  EndSound'
<1>1. Bind(t) \/ Throw(t) \/ Goes(t, "create")
  BY Zenon DEF Acquire
<1>2. turn[t].step = "acquire" /\ turn[t].step \in Early
  BY DEF Acquire, Early, Undelivered
<1> QED
  BY <1>1, <1>2, BindEnds, ThrowEnds, GoesEnds DEF Steps

\* The child of a delegation changes, and nothing of the turns.
LEMMA ChildMoves ==
  ASSUME Sound, EndSound, UNCHANGED <<row, bound, svc, turn, chain, sent, taken, lost>>,
         UNCHANGED serviceVars, \A d \in Delegation : ChildAlike(d)
  PROVE  EndSound'
<1>1. TurnsSound' /\ ChainsSound' /\ GatesSound' /\ CallsSound' /\ CapturesSound' /\ OffSound'
  BY DEF EndSound, TurnsSound, TurnSound, ChainsSound, ChainSound, EntrySound, GatesSound,
         GateSound, CallsSound, CallSound, CapturesSound, OffSound, Delivered, GivenUp, Pending,
         serviceVars
<1>2. ChildrenSound'
  BY DEF EndSound, ChildrenSound, ChildSound, ChildAlike, Busy, Working, IsActive
<1>3. RunsSound'
  BY DEF EndSound, RunsSound, RunSound, ChildAlike, MayRun, ToCancel, IsActive, serviceVars
<1>4. RecSound'
  <2>1. \A d \in Delegation : Busy(d)' => Busy(d)
    BY DEF ChildAlike, Busy, Working
  <2>2. rec.at \in Turn \union {NoTurn} /\ \A t \in Turn : row[t].of \in Delegation
    BY RecordParts, EndParts
  <2> QED
    BY <2>1, <2>2 DEF EndSound, RecSound, IsActive, serviceVars
<1> QED
  BY <1>1, <1>2, <1>3, <1>4 DEF EndSound

LEMMA ChildIsMadeEnds ==
  ASSUME Sound, EndSound, NEW t \in Turn, ChildIsMade(t), UNCHANGED serviceVars
  PROVE  EndSound'
<1>1. CASE Throw(t)
  BY <1>1, ThrowEnds DEF ChildIsMade, Early, Undelivered
<1>2. CASE ~Throw(t)
  <2> DEFINE d == row[t].of
  <2>1. /\ child' = [child EXCEPT ![d].status = "idle"]
        /\ UNCHANGED <<row, bound, svc, turn, mapped, chain, faults, sent, taken, lost>>
    BY <1>2 DEF ChildIsMade
  <2>2. child \in [Delegation -> ChildSession]
    BY SoundParts
  <2>3. ASSUME NEW e \in Delegation PROVE ChildAlike(e)
    BY <2>1, <2>2, <2>3 DEF ChildAlike, Busy, Working, ChildSession
  <2> QED
    BY <2>1, <2>3, ChildMoves
<1> QED
  BY <1>1, <1>2


\* One turn moves and its row goes on or ends.
LEMMA RowMoves ==
  ASSUME Sound, EndSound, NEW t \in Turn, NEW n \in Memory, Becomes(t, n),
         t \notin Pending => Onward(n, turn[t]),
         \A q \in Turn \ {t} : row'[q] = row[q] /\ taken'[q] = taken[q],
         row[t].status # "none", row'[t].status # "none", row'[t].of = row[t].of,
         row[t].dispatched => row'[t].dispatched, RecordedAfresh(t),
         row'[t].status \in ActiveStatuses => IsActive(t),
         Fits(t, n, row'[t], sent[t], taken'[t], bound', svc),
         UNCHANGED <<svc, sent>>, bound \subseteq bound', lost \subseteq lost', svc # "off",
         ServiceAlike, rec' = rec \/ RecSound', \A d \in Delegation : ChildAlike(d),
         child'[row[t].of].status \in Working /\ child[row[t].of].turn = t => MayRun(t)'
  PROVE  EndSound'
<1>1. turn'[t] = n /\ \A q \in Turn \ {t} : turn'[q] = turn[q]
  BY SoundParts DEF Becomes
<1>2. Moved(t)
  BY <1>1 DEF Moved
<1>3. TurnSound(t)'
  BY <1>1 DEF TurnSound
<1>4. TurnsSound'
  BY <1>2, <1>3, TurnsStay DEF EndSound
<1>5. ChildrenSound'
  BY <1>2, ChildStays DEF EndSound, ChildrenSound
<1>6. \A d \in Delegation : child'[d].status \in Working /\ child[d].turn = t => MayRun(t)'
  BY RunsOwn
<1>7. RunsSound'
  BY <1>2, <1>6, RunStays DEF EndSound, RunsSound, ChildrenSound, ServiceAlike
<1>8. ChainsSound' /\ GatesSound' /\ CallsSound' /\ CapturesSound'
  BY <1>2, ServiceStays
<1>9. RecSound'
  <2>1. \A d \in Delegation : Busy(d)' => Busy(d)
    BY DEF ChildAlike, Busy, Working
  <2> QED
    BY <1>2, <2>1, RecordStays DEF EndSound
<1>10. OffSound'
  BY DEF OffSound
<1> QED
  BY <1>4, <1>5, <1>7, <1>8, <1>9, <1>10 DEF EndSound

\* The reconciliation does not decide on a turn that is under way.
LEMMA NotPending ==
  ASSUME Sound, PermitSound, EndSound, NEW t \in Turn, UnderWay(turn[t]) \/ turn[t].live
  PROVE  t \notin Pending
<1>1. svc # "stopped" => turn[t].live
  BY DEF EndSound, TurnsSound, TurnSound, Fits
<1>2. svc = "stopped" => Pending = {}
  BY DEF EndSound, RecSound, Pending
<1> QED
  BY <1>1, <1>2 DEF PermitSound, PendingIsUnlisted

\* A turn that is not synchronized goes no further; its row stays for a recovery.
LEMMA ParkEnds ==
  ASSUME Sound, EndSound, NEW t \in Turn, Park(t), turn[t].step = "sync", ServiceAlike,
         UNCHANGED <<row, bound, svc, child, sent, taken, rec>>, captured' = captured
  PROVE  EndSound'
<1> DEFINE m == turn[t]
           n == [m EXCEPT !.live = FALSE, !.lease = "released", !.step = "over"]
<1>1. m \in Memory /\ Becomes(t, n) /\ lost \subseteq lost'
  BY EndParts DEF Park
<1>2. /\ n.step = "over" /\ ~n.live /\ n.knows = m.knows /\ n.aborted = m.aborted
      /\ n.started = m.started /\ n.runtime = m.runtime /\ n.seen = m.seen
      /\ n.lease = "released" /\ n.settle = m.settle /\ n.outcome = m.outcome
  BY <1>1 DEF Memory, MemoryFields
<1>3. n \in Memory
  BY <1>1 DEF Memory, MemoryFields, Leases, Steps
<1> HIDE DEF n
<1>4. svc # "off" /\ row[t].status # "none"
  BY Awake
<1>5. Onward(n, m)
  BY <1>2 DEF Onward, Early, Undelivered
<1>6. Fits(t, n, row[t], sent[t], taken[t], bound', svc)
  <2>1. Fits(t, m, row[t], sent[t], taken[t], bound, svc)
    BY DEF EndSound, TurnsSound, TurnSound
  <2> QED
    BY <1>2, <1>4, <2>1 DEF Fits, UnderWay, Early, Undelivered
<1>7. ~Runs(t)
  BY RunsOwn DEF Early, Undelivered
<1> QED
  BY <1>1, <1>3, <1>4, <1>5, <1>6, <1>7, OneMoves

LEMMA DispatchEnds ==
  ASSUME Sound, EndSound, NEW t \in Turn, Dispatch(t), turn[t].step = "sync", IsActive(t),
         ~turn[t].aborted, ServiceAlike, UNCHANGED <<bound, svc, sent, taken, rec>>
  PROVE  EndSound'
<1> DEFINE d == row[t].of
           m == turn[t]
           n == [m EXCEPT !.step = "send"]
<1>1. m \in Memory /\ row[t] \in Row /\ d \in Delegation
      /\ child \in [Delegation -> ChildSession] /\ row \in [Turn -> Row]
  BY EndParts, SoundParts
<1>2. /\ Becomes(t, n) /\ row' = MarkedAs(row, t, "running") /\ UNCHANGED lost
      /\ child' = [child EXCEPT ![d].fresh = FALSE]
  BY DEF Dispatch
<1>3. /\ n.step = "send" /\ n.live = m.live /\ n.knows = m.knows /\ n.aborted = m.aborted
      /\ n.started = m.started /\ n.runtime = m.runtime /\ n.seen = m.seen
      /\ n.lease = m.lease /\ n.settle = m.settle /\ n.outcome = m.outcome
  BY <1>1, StepOf
<1>4. n \in Memory
  BY <1>1 DEF Memory, MemoryFields, Steps
<1> HIDE DEF n
<1>5. svc # "off" /\ row[t].status # "none"
  BY Awake
<1>6. /\ \A q \in Turn \ {t} : row'[q] = row[q]
      /\ row'[t].status = "running" /\ row'[t].of = d /\ row'[t].dispatched
  BY <1>1, <1>2 DEF MarkedAs, Row
<1>7. Onward(n, m)
  BY <1>3 DEF Onward, Early, Undelivered
<1>8. Fits(t, n, row'[t], sent[t], taken'[t], bound', svc)
  <2>1. Fits(t, m, row[t], sent[t], taken[t], bound, svc)
    BY DEF EndSound, TurnsSound, TurnSound
  <2> QED
    BY <1>3, <1>6, <2>1 DEF Fits, UnderWay, Early, Undelivered, ActiveStatuses
<1>9. ASSUME NEW e \in Delegation PROVE ChildAlike(e)
  BY <1>1, <1>2, <1>9 DEF ChildAlike, Busy, Working, ChildSession
<1>10. ~child'[d].fresh /\ child'[d].status = child[d].status
  BY <1>1, <1>2 DEF ChildSession
<1>11. ~Runs(t)
  BY RunsOwn DEF Early, Undelivered
<1>12. RecordedAfresh(t)
  BY <1>10 DEF RecordedAfresh
<1> QED
  BY <1>2, <1>4, <1>5, <1>6, <1>7, <1>8, <1>9, <1>10, <1>11, <1>12, RowMoves
  DEF Runs, ActiveStatuses

LEMMA SynchronizedEnds ==
  ASSUME Sound, EndSound, NEW t \in Turn, Synchronized(t), UNCHANGED serviceVars
  PROVE  EndSound'
<1>1. ServiceAlike
  <2>1. PICK d \in Delegation : d = row[t].of
    BY EndParts
  <2>2. chain[d] # <<>> /\ Leaves(d)
    BY <2>1 DEF Synchronized
  <2> QED
    BY <2>2, ChainsAlike
<1>2. turn[t].step = "sync" /\ turn[t].step \in Early
      /\ UNCHANGED <<bound, svc, sent, taken, rec>> /\ captured' = captured
  BY DEF Synchronized, Early, Undelivered, serviceVars
<1>3. \/ Park(t) /\ UNCHANGED <<row, child>>
      \/ Becomes(t, Thrown(turn[t])) /\ UNCHANGED <<row, child, lost>>
      \/ IsActive(t) /\ ~turn[t].aborted /\ Dispatch(t)
  BY DEF Synchronized, Inherit
<1> QED
  BY <1>1, <1>2, <1>3, ParkEnds, ThrownEnds, DispatchEnds


-----------------------------------------------------------------------------
(* The delivery.                                                           *)

\* The child that accepts a handoff works for the active turn of its delegation.
LEMMA ChildAcceptsEnds ==
  ASSUME Sound, PermitSound, EndSound, NEW t \in Turn, ChildAccepts(t), UNCHANGED serviceVars
  PROVE  EndSound'
<1>1. PICK d \in Delegation : d = row[t].of
  BY EndParts
<1> DEFINE m == turn[t]
           n == turn'[t]
<1>2. /\ m \in Memory /\ child \in [Delegation -> ChildSession] /\ sent \in [Turn -> Nat]
      /\ turn \in [Turn -> Memory] /\ t # NoTurn
  BY EndParts, SoundParts DEF Sound, DelegationTypeOK, TurnTypeOK
<1>3. /\ m.step = "send" /\ child' = [child EXCEPT ![d].status = "generating", ![d].turn = t]
      /\ sent' = [sent EXCEPT ![t] = @ + 1]
      /\ UNCHANGED <<row, bound, svc, mapped, chain, faults, taken, lost>>
  BY <1>1 DEF ChildAccepts
<1>4. /\ n.step = "accepted" /\ n.live = m.live /\ n.knows = m.knows /\ n.aborted = m.aborted
      /\ n.started = m.started /\ n.runtime \in {m.runtime, "generating"} /\ n.seen = m.seen
      /\ n.lease = m.lease /\ n.settle = m.settle /\ n.outcome = m.outcome
      /\ \A q \in Turn \ {t} : turn'[q] = turn[q]
  <2> DEFINE a == [m EXCEPT !.step = "accepted"]
             b == [a EXCEPT !.runtime = "generating"]
  <2>1. Becomes(t, a) \/ Becomes(t, b)
    BY DEF ChildAccepts
  <2>2. /\ a.step = "accepted" /\ a.live = m.live /\ a.knows = m.knows /\ a.aborted = m.aborted
        /\ a.started = m.started /\ a.runtime = m.runtime /\ a.seen = m.seen
        /\ a.lease = m.lease /\ a.settle = m.settle /\ a.outcome = m.outcome
    BY <1>2, StepOf
  <2>3. /\ b.step = "accepted" /\ b.live = m.live /\ b.knows = m.knows /\ b.aborted = m.aborted
        /\ b.started = m.started /\ b.runtime = "generating" /\ b.seen = m.seen
        /\ b.lease = m.lease /\ b.settle = m.settle /\ b.outcome = m.outcome
    BY <1>2 DEF Memory, MemoryFields
  <2>4. (n = a \/ n = b) /\ \A q \in Turn \ {t} : turn'[q] = turn[q]
    <3> HIDE DEF a, b
    <3> QED
      BY <1>2, <2>1 DEF Becomes
  <2> HIDE DEF a, b
  <2> QED
    BY <2>2, <2>3, <2>4
<1> HIDE DEF n
<1>5. Fits(t, m, row[t], sent[t], taken[t], bound, svc)
  BY DEF EndSound, TurnsSound, TurnSound
<1>6. svc # "off" /\ row[t].status # "none"
  BY <1>3, Awake
<1>7. /\ m.settle = "no" /\ m.runtime = "none" /\ ~m.started /\ m.knows /\ d \in bound
      /\ UnderWay(m) /\ IsActive(t) /\ row[t].dispatched
  BY <1>1, <1>3, <1>5 DEF Fits, UnderWay, Early, Undelivered, IsActive
<1>8. sent'[t] # 0 /\ \A q \in Turn \ {t} : sent'[q] = sent[q]
  BY <1>2, <1>3
<1>9. Onward(n, m)
  BY <1>4, <1>7 DEF Onward, Early, Undelivered
<1>10. Moved(t)
  BY <1>3, <1>4, <1>6, <1>8, <1>9 DEF Moved, n, IsActive
<1>11. TurnSound(t)'
  <2>1. Fits(t, n, row[t], sent'[t], taken[t], bound, svc)
    BY <1>4, <1>5, <1>6, <1>7 DEF Fits, UnderWay, Early, Undelivered, IsActive
  <2> QED
    BY <1>3, <2>1 DEF TurnSound, n
<1>12. \A q \in Turn : IsActive(q) /\ row[q].of = d => q = t
  BY <1>1, <1>7 DEF PermitSound, OneActiveRow
<1>13. /\ child'[d].status = "generating" /\ child'[d].turn = t
       /\ child'[d].answer = child[d].answer /\ child'[d].fresh = child[d].fresh
       /\ \A e \in Delegation \ {d} : child'[e] = child[e]
  BY <1>2, <1>3 DEF ChildSession
<1>14. ChildrenSound'
  <2>1. SUFFICES ASSUME NEW e \in Delegation PROVE ChildSound(e)'
    BY DEF ChildrenSound
  <2>2. CASE e = d
    <3>1. child[d].fresh /\ row[t].dispatched => child[d].answer = t
      BY <1>1, <1>7 DEF EndSound, ChildrenSound, ChildSound
    <3> QED
      BY <1>1, <1>2, <1>3, <1>7, <1>8, <1>12, <1>13, <2>2, <3>1 DEF ChildSound, IsActive
  <2>3. CASE e # d
    <3>1. ChildAlike(e)
      BY <1>13, <2>3 DEF ChildAlike, Busy
    <3>2. RecordedAfresh(t)
      BY <1>7 DEF RecordedAfresh
    <3> QED
      BY <1>10, <3>1, <3>2, ChildStays DEF EndSound, ChildrenSound
  <2> QED
    BY <2>2, <2>3
<1>15. RunsSound'
  <2>1. SUFFICES ASSUME NEW e \in Delegation PROVE RunSound(e)'
    BY DEF RunsSound
  <2>2. CASE e = d
    <3>1. MayRun(t)'
      BY <1>3, <1>4, <1>7 DEF MayRun, IsActive, n
    <3> QED
      BY <1>13, <2>2, <3>1 DEF RunSound
  <2>3. CASE e # d
    <3>1. ChildAlike(e) /\ child[e].turn # t
      BY <1>1, <1>13, <2>3, RunsOwn DEF ChildAlike, Busy
    <3> QED
      BY <1>10, <3>1, RunStays DEF EndSound, RunsSound, ChildrenSound, serviceVars
  <2> QED
    BY <2>2, <2>3
<1>16. RecSound'
  <2>1. t \notin Pending
    BY <1>7, NotPending
  <2>2. SUFFICES ASSUME rec.stage = "read", rec.shown # "generating", IsActive(rec.at)
                 PROVE  ~Busy(row[rec.at].of)'
    BY <1>3 DEF EndSound, RecSound, serviceVars, IsActive
  <2>3. rec.at \in Turn /\ rec.at # t /\ row[rec.at].of \in Delegation /\ ~Busy(row[rec.at].of)
    <3>1. rec.at \in Turn \union {NoTurn}
      BY RecordParts
    <3> QED
      BY <2>1, <2>2, <3>1, EndParts DEF EndSound, RecSound, Pending
  <2>4. row[rec.at].of # d
    BY <1>12, <2>2, <2>3
  <2> QED
    BY <1>3, <1>13, <2>3, <2>4 DEF Busy, serviceVars
<1>17. ChainsSound' /\ GatesSound' /\ CallsSound' /\ CapturesSound'
  BY <1>3, <1>10, ChainsAlike, ServiceStays
<1>18. OffSound'
  BY <1>3, <1>6 DEF OffSound
<1>19. TurnsSound'
  BY <1>10, <1>11, TurnsStay DEF EndSound
<1> QED
  BY <1>14, <1>15, <1>16, <1>17, <1>18, <1>19 DEF EndSound


\* A status of the child reaches its turn, whose memory m has taken it.
LEMMA ApplyMoves ==
  ASSUME Sound, EndSound, NEW t \in Turn, NEW m \in Memory, Apply(t, m), Onward(m, turn[t]),
         m.aborted = turn[t].aborted, m.settle = turn[t].settle,
         Fits(t, m, row[t], sent[t], taken[t], bound, svc), row[t].status # "none",
         row[t].dispatched, m.step \notin Early, m.settle = "no" => t \notin Pending,
         UNCHANGED <<bound, svc, sent, taken>>, lost \subseteq lost', UNCHANGED serviceVars
  PROVE  /\ Moved(t) /\ TurnSound(t)' /\ ServiceAlike
         /\ row'[t].dispatched /\ (IsActive(t) => IsActive(t)')
         /\ turn'[t].runtime = m.runtime
         /\ m.runtime \notin {"idle", "error"} /\ ~m.aborted => turn'[t] = m
<1> DEFINE n == turn'[t]
           d == row[t].of
<1>1. /\ turn[t] \in Memory /\ row[t] \in Row /\ row \in [Turn -> Row] /\ d \in Delegation
      /\ turn \in [Turn -> Memory]
  BY EndParts, SoundParts
<1>2. /\ n = m \/ (m.settle = "no" /\ \E o \in {"interrupted", "failed"} :
                     /\ n = Settling(m, o)
                     /\ m.aborted \/ m.runtime = "error")
      /\ \A q \in Turn \ {t} : turn'[q] = turn[q]
  <2>1. \/ Becomes(t, m)
        \/ m.settle = "no" /\ m.aborted /\ Becomes(t, Settling(m, "interrupted"))
        \/ m.settle = "no" /\ m.runtime = "error" /\ Becomes(t, Settling(m, "failed"))
    BY Zenon DEF Apply
  <2> QED
    BY <1>1, <2>1 DEF Becomes
<1>3. /\ Alike(n, m) /\ n.aborted = m.aborted /\ n \in Memory
      /\ n.settle = m.settle \/ (m.settle = "no" /\ n.settle = "lookup")
      /\ n.settle = m.settle => n = m
      /\ n # m => n.settle = "lookup" /\ n.outcome # "completed"
  <2>1. CASE n = m
    BY <2>1 DEF Alike
  <2>2. CASE n # m
    BY <1>2, <2>2, SettlingAlike, SettlingMemory DEF Ended
  <2> QED
    BY <2>1, <2>2
<1>4. m.runtime \notin {"idle", "error"} /\ ~m.aborted => n = m
  BY <1>2
<1> HIDE DEF n
<1>5. Onward(n, turn[t])
  BY <1>3 DEF Onward, Alike
<1>6. /\ \A q \in Turn \ {t} : row'[q] = row[q]
      /\ row'[t].of = d /\ row'[t].dispatched
      /\ \/ row'[t] = row[t]
         \/ /\ row[t].status = "queued" /\ row'[t].status = "running"
            /\ n = m /\ row'[t].of = row[t].of
  <2>1. \/ row' = row
        \/ row[t].status = "queued" /\ row' = MarkedAs(row, t, "running") /\ Becomes(t, m)
    BY Zenon DEF Apply
  <2>2. Becomes(t, m) => n = m
    BY <1>1 DEF Becomes, n
  <2> QED
    BY <1>1, <2>1, <2>2 DEF MarkedAs, Row
<1>7. Fits(t, n, row'[t], sent[t], taken[t], bound, svc)
  <2>1. Fits(t, n, row[t], sent[t], taken[t], bound, svc)
    <3>1. CASE n = m
      BY <3>1
    <3>2. CASE n # m
      BY <1>3, <3>2, AlikeFits
    <3> QED
      BY <3>1, <3>2
  <2> QED
    BY <1>6, <2>1 DEF Fits, ActiveStatuses
<1>8. Moved(t)
  BY <1>2, <1>5, <1>6 DEF Moved, n, IsActive, ActiveStatuses
<1>9. TurnSound(t)'
  BY <1>7 DEF TurnSound, n
<1>10. ServiceAlike
  <2>1. PICK e \in Queued : e = <<"check", t>>
    BY DEF Queued
  <2>2. PICK c \in Delegation : c = d
    BY <1>1
  <2>3. CASE chain' = chain
    BY <2>3, ChainsAlike
  <2>4. CASE chain' # chain
    <3>1. /\ chain' = [chain EXCEPT ![c] = Append(@, e)] /\ Becomes(t, m)
          /\ m.started /\ m.runtime = "idle" /\ m.settle = "no"
      BY <2>1, <2>2, <2>4 DEF Apply
    <3>2. n = m
      BY <1>1, <3>1 DEF Becomes, n
    <3>3. Delivered(t)'
      BY <1>6, <3>1, <3>2 DEF Delivered, Pending, serviceVars, n
    <3>4. EntrySound(c, e)'
      BY <1>6, <2>1, <2>2, <3>1, <3>2, <3>3 DEF EntrySound, n
    <3> QED
      BY <3>1, <3>4, ChainsAlike
  <2> QED
    BY <2>3, <2>4
<1> QED
  BY <1>3, <1>4, <1>6, <1>8, <1>9, <1>10 DEF Alike, n, IsActive, ActiveStatuses


\* The delivery returns: the child is cancelled if the turn was aborted meanwhile, or its
\* status is looked at.
LEMMA SendReturnsEnds ==
  ASSUME Sound, PermitSound, EndSound, NEW t \in Turn, SendReturns(t), UNCHANGED serviceVars
  PROVE  EndSound'
<1> DEFINE m == turn[t]
           p == [m EXCEPT !.started = TRUE]
           n(s) == [p EXCEPT !.step = s]
<1>1. m \in Memory /\ row[t].of \in Delegation /\ m.step = "accepted"
  BY EndParts DEF SendReturns
<1>2. p \in Memory /\ p.aborted = m.aborted
  BY <1>1 DEF Memory, MemoryFields
<1>3. ASSUME NEW s \in Steps
      PROVE  /\ n(s) \in Memory
             /\ n(s).step = s /\ n(s).live = m.live /\ n(s).knows = m.knows
             /\ n(s).aborted = m.aborted /\ n(s).started /\ n(s).runtime = m.runtime
             /\ n(s).seen = m.seen /\ n(s).lease = m.lease /\ n(s).settle = m.settle
             /\ n(s).outcome = m.outcome
  BY <1>1 DEF Memory, MemoryFields
<1>4. "recalled" \in Steps /\ "watch" \in Steps
  BY DEF Steps
<1>5. svc # "off" /\ row[t].status # "none"
  BY <1>1, Awake
<1>6. Fits(t, m, row[t], sent[t], taken[t], bound, svc)
  BY DEF EndSound, TurnsSound, TurnSound
<1>7. row[t].dispatched /\ ~m.started
  BY <1>1, <1>6 DEF Fits
<1>8. CASE m.aborted
  <2> DEFINE a == n("recalled")
  <2>1. Becomes(t, a) /\ child' = Cancelled(row[t].of)
        /\ UNCHANGED <<row, chain, bound, svc, mapped, faults, sent, taken, lost>>
    BY <1>2, <1>8 DEF SendReturns
  <2>2. a \in Memory /\ a.step = "recalled" /\ a.live = m.live /\ a.knows = m.knows
        /\ a.aborted /\ a.started /\ a.runtime = m.runtime /\ a.seen = m.seen
        /\ a.lease = m.lease /\ a.settle = m.settle /\ a.outcome = m.outcome
    BY <1>3, <1>4, <1>8
  <2> HIDE DEF a
  <2>3. Onward(a, m)
    BY <1>7, <2>2 DEF Onward, Early, Undelivered
  <2>4. Fits(t, a, row[t], sent[t], taken[t], bound', svc)
    BY <1>1, <1>5, <1>6, <1>7, <2>1, <2>2 DEF Fits, UnderWay, Early, Undelivered
  <2>5. ServiceAlike
    BY <2>1, ChainsAlike
  <2> QED
    BY <1>5, <2>1, <2>2, <2>3, <2>4, <2>5, OneMoves DEF serviceVars
<1>9. CASE ~m.aborted
  <2> DEFINE a == n("watch")
  <2>1. Apply(t, a) /\ UNCHANGED <<child, bound, svc, mapped, faults, sent, taken, lost>>
    BY <1>2, <1>9 DEF SendReturns
  <2>2. a \in Memory /\ a.step = "watch" /\ a.live = m.live /\ a.knows = m.knows
        /\ ~a.aborted /\ a.aborted = m.aborted /\ a.started /\ a.runtime = m.runtime
        /\ a.seen = m.seen
        /\ a.lease = m.lease /\ a.settle = m.settle /\ a.outcome = m.outcome
    BY <1>3, <1>4, <1>9
  <2> HIDE DEF a
  <2>3. Onward(a, m)
    BY <1>1, <1>7, <2>2 DEF Onward, Early, Undelivered
  <2>4. Fits(t, a, row[t], sent[t], taken[t], bound, svc)
    BY <1>1, <1>5, <1>6, <1>7, <2>2 DEF Fits, UnderWay, Early, Undelivered
  <2>5. m.settle = "no" => t \notin Pending
    BY <1>1, NotPending DEF UnderWay
  <2>6. a.step \notin Early
    BY <2>2 DEF Early, Undelivered
  <2>7. /\ Moved(t) /\ TurnSound(t)' /\ ServiceAlike
        /\ row'[t].dispatched /\ (IsActive(t) => IsActive(t)')
        /\ turn'[t].runtime = m.runtime
        /\ m.runtime \notin {"idle", "error"} => turn'[t] = a
    BY <1>5, <1>7, <2>1, <2>2, <2>3, <2>4, <2>5, <2>6, ApplyMoves DEF serviceVars
  <2>8. Runs(t) => MayRun(t)'
    <3>1. SUFFICES ASSUME Runs(t) PROVE MayRun(t)'
      OBVIOUS
    <3>2. turn'[t] = a
      BY <2>7, <3>1, RunsOwn DEF MayRun
    <3> QED
      BY <1>9, <2>1, <2>2, <2>7, <3>1, <3>2, RunsOwn DEF MayRun, ToCancel, serviceVars
  <2>9. \A d \in Delegation : ChildAlike(d)
    BY <2>1 DEF ChildAlike, Busy
  <2>10. \A d \in Delegation : child'[d].status \in Working /\ child[d].turn = t => MayRun(t)'
    BY <2>1, <2>8, RunsOwn DEF Runs
  <2>11. RecordedAfresh(t)
    BY <1>7 DEF RecordedAfresh
  <2> QED
    BY <1>5, <2>7, <2>9, <2>10, <2>11, MovedKeeps DEF serviceVars
<1> QED
  BY <1>8, <1>9

-----------------------------------------------------------------------------
(* The settlement.                                                         *)

\* Of a turn that is being settled: its child stays, or is still to be cancelled by stop().
LEMMA ForgottenEnds ==
  ASSUME Sound, EndSound, NEW t \in Turn, Becomes(t, Forgotten(turn[t])),
         turn[t].settle # "no", NEW k, row'[t].status = "completed" => k = t, k = taken'[t],
         row' = row \/ (IsActive(t) /\ \E s \in Ended : row' = [row EXCEPT ![t].status = s]),
         \A q \in Turn \ {t} : taken'[q] = taken[q], lost \subseteq lost',
         UNCHANGED <<bound, svc, chain, child, sent>>, UNCHANGED serviceVars
  PROVE  EndSound'
<1> DEFINE m == turn[t]
           n == Forgotten(m)
<1>1. /\ m \in Memory /\ n \in Memory /\ row \in [Turn -> Row] /\ row[t].of \in Delegation
  BY EndParts, SoundParts, ForgottenMemory
<1>2. /\ n.settle = "over" /\ ~n.live /\ n.lease = "released" /\ n # NoMemory
      /\ n.runtime \in {"none", m.runtime} /\ (n.started => m.started)
      /\ n.knows => m.knows
      /\ n.seen \in {NoTurn, m.seen} /\ (n.aborted => m.aborted)
      /\ \/ n.step = "over" /\ ~n.started /\ ~n.knows
         \/ /\ n.step = m.step /\ n.knows = m.knows /\ n.aborted = m.aborted
            /\ n.started = m.started /\ n.runtime = m.runtime
            /\ m.step \notin {"none", "admit", "readmit", "watch", "unbound", "recalled", "over"}
  <2> DEFINE a == [NoMemory EXCEPT !.step = "over", !.settle = "over", !.lease = "released"]
             b == [m EXCEPT !.live = FALSE, !.settle = "over", !.lease = "released"]
  <2>1. /\ a.settle = "over" /\ ~a.live /\ a.lease = "released" /\ a.runtime = "none"
        /\ ~a.started /\ ~a.knows /\ a.seen = NoTurn /\ ~a.aborted /\ a.step = "over"
    BY DEF NoMemory
  <2>2. /\ b.settle = "over" /\ ~b.live /\ b.lease = "released" /\ b.runtime = m.runtime
        /\ b.started = m.started /\ b.knows = m.knows /\ b.seen = m.seen
        /\ b.aborted = m.aborted /\ b.step = m.step
    BY <1>1 DEF Memory, MemoryFields
  <2>3. \/ n = a
        \/ /\ n = b
           /\ m.step \notin {"none", "admit", "readmit", "watch", "unbound", "recalled", "over"}
    BY DEF Forgotten
  <2>4. NoMemory.settle = "no"
    BY DEF NoMemory
  <2> HIDE DEF a, b, n
  <2> QED
    BY <2>1, <2>2, <2>3, <2>4
<1>3. Becomes(t, n)
  OBVIOUS
<1> HIDE DEF n
<1>4. svc # "off" /\ row[t].status # "none"
  BY Awake
<1>5. /\ \A q \in Turn \ {t} : row'[q] = row[q]
      /\ row'[t].of = row[t].of /\ row'[t].dispatched = row[t].dispatched
      /\ row'[t].status # "none" /\ (row'[t].status \in ActiveStatuses => IsActive(t))
  BY <1>1, <1>4 DEF Row, Ended, ActiveStatuses, IsActive
<1>6. Onward(n, m)
  BY <1>2 DEF Onward, Early, Undelivered
<1>7. Fits(t, n, row'[t], sent[t], taken'[t], bound', svc)
  <2>1. Fits(t, m, row[t], sent[t], taken[t], bound, svc)
    BY DEF EndSound, TurnsSound, TurnSound
  <2> QED
    BY <1>2, <1>5, <2>1 DEF Fits, UnderWay, Early, Undelivered
<1>8. Runs(t) => MayRun(t)'
  <2>1. turn'[t] = n
    BY <1>3, SoundParts DEF Becomes
  <2> QED
    BY <1>2, <2>1, RunsOwn DEF MayRun, ToCancel, serviceVars
<1>9. ServiceAlike /\ RecordedAfresh(t) /\ \A d \in Delegation : ChildAlike(d)
  BY <1>5, ChainsAlike DEF RecordedAfresh, ChildAlike, Busy
<1> QED
  BY <1>1, <1>3, <1>4, <1>5, <1>6, <1>7, <1>8, <1>9, RowMoves DEF Runs, serviceVars


LEMMA FinishEnds ==
  ASSUME Sound, EndSound, NEW t \in Turn, NEW s \in Ended, Finish(t, s), turn[t].settle # "no",
         s = "completed" => taken'[t] = t,
         row[t].status = "completed" => taken'[t] = t,
         \A q \in Turn \ {t} : taken'[q] = taken[q], UNCHANGED serviceVars
  PROVE  EndSound'
<1>1. /\ Becomes(t, Forgotten(turn[t]))
      /\ UNCHANGED <<bound, svc, chain, child, sent>> /\ lost \subseteq lost'
      /\ row' = row \/ (IsActive(t) /\ row' = [row EXCEPT ![t].status = s])
  BY DEF Finish, Unlist, RowEnds
<1>2. row \in [Turn -> Row]
  BY SoundParts
<1>3. row'[t].status = "completed" => taken'[t] = t
  <2>1. CASE row' = row
    BY <2>1
  <2>2. CASE row' = [row EXCEPT ![t].status = s]
    <3>1. row'[t].status = s
      BY <1>2, <2>2 DEF Row
    <3> QED
      BY <3>1
  <2> QED
    BY <1>1, <2>1, <2>2
<1>4. row' = row \/ (IsActive(t) /\ \E o \in Ended : row' = [row EXCEPT ![t].status = o])
  BY <1>1
<1> QED
  BY <1>1, <1>3, <1>4, ForgottenEnds

\* A turn that is completed takes the answer of its own run: of the message it has seen, or
\* the child's latest, which is not older than the recorded dispatch.
LEMMA OwnResult ==
  ASSUME Sound, EndSound, NEW t \in Turn, turn[t].settle = "lookup",
         turn[t].outcome = "completed", NEW r \in Results(t), r # NoTurn
  PROVE  r = t
<1> DEFINE m == turn[t]
           d == row[t].of
<1>1. Fits(t, m, row[t], sent[t], taken[t], bound, svc)
  BY DEF EndSound, TurnsSound, TurnSound
<1>2. m.seen \in {NoTurn, t} /\ row[t].dispatched /\ IsActive(t)
  BY <1>1 DEF Fits, UnderWay, IsActive
<1>3. child[d].fresh => child[d].answer = t
  BY <1>2, EndParts DEF EndSound, ChildrenSound, ChildSound
<1>4. m.knows
  BY DEF Results
<1>5. CASE m.seen # NoTurn
  BY <1>2, <1>4, <1>5 DEF Results
<1>6. CASE m.seen = NoTurn
  BY <1>2, <1>3, <1>4, <1>6 DEF Results
<1> QED
  BY <1>5, <1>6

LEMMA LookUpResultEnds ==
  ASSUME Sound, EndSound, NEW t \in Turn, LookUpResult(t), UNCHANGED serviceVars
  PROVE  EndSound'
<1> DEFINE m == turn[t]
<1>1. PICK r \in Results(t) : Resolve(t, r)
  BY DEF LookUpResult
<1> DEFINE s == IF m.aborted THEN "interrupted"
                ELSE IF m.outcome = "completed" /\ r = NoTurn THEN "failed" ELSE m.outcome
<1>2. m.settle = "lookup" /\ m \in Memory
  BY EndParts DEF LookUpResult
<1>3. s \in Ended /\ (s = "completed" => m.outcome = "completed" /\ r # NoTurn)
  BY <1>2 DEF Memory, Ended
<1>4. /\ taken' = [taken EXCEPT ![t] = IF s = "completed" THEN r ELSE @]
      /\ \/ /\ m.knows /\ m.started
            /\ Becomes(t, [m EXCEPT !.settle = "tape", !.outcome = s])
            /\ UNCHANGED <<row, bound, svc, mapped, chain, child, faults, sent, lost>>
         \/ Finish(t, s)
  BY <1>1 DEF Resolve
<1> HIDE DEF s
<1>5. s = "completed" => r = t
  BY <1>2, <1>3, OwnResult
<1>6. Fits(t, m, row[t], sent[t], taken[t], bound, svc)
  BY DEF EndSound, TurnsSound, TurnSound
<1>7. /\ s = "completed" => taken'[t] = t
      /\ row[t].status = "completed" => taken'[t] = t
      /\ \A q \in Turn \ {t} : taken'[q] = taken[q]
  <2>1. taken \in [Turn -> Turn \union {NoTurn}]
    BY SoundParts DEF TurnTypeOK
  <2> QED
    BY <1>4, <1>5, <1>6, <2>1 DEF Fits
<1>8. CASE Finish(t, s)
  BY <1>2, <1>3, <1>7, <1>8, FinishEnds
<1>9. CASE ~Finish(t, s)
  <2> DEFINE n == [m EXCEPT !.settle = "tape", !.outcome = s]
  <2>1. Becomes(t, n) /\ UNCHANGED <<row, bound, svc, mapped, chain, child, faults, sent, lost>>
    BY <1>4, <1>9
  <2>2. /\ n.step = m.step /\ n.live = m.live /\ n.knows = m.knows /\ n.aborted = m.aborted
        /\ n.started = m.started /\ n.runtime = m.runtime /\ n.seen = m.seen
        /\ n.lease = m.lease /\ n.settle = "tape" /\ n.outcome = s
    BY <1>2 DEF Memory, MemoryFields
  <2>3. n \in Memory
    BY <1>2, <1>3 DEF Memory, MemoryFields, Phases
  <2> HIDE DEF n
  <2>4. svc # "off" /\ row[t].status # "none"
    BY <1>2, Awake
  <2>5. Onward(n, m)
    BY <1>2, <2>2 DEF Onward
  <2>6. Fits(t, n, row'[t], sent[t], taken'[t], bound', svc)
    BY <1>2, <1>3, <1>6, <1>7, <2>1, <2>2, <2>4 DEF Fits, UnderWay
  <2>7. Runs(t) => MayRun(t)'
    <3>1. turn'[t] = n
      BY <2>1, SoundParts DEF Becomes
    <3> QED
      BY <1>2, <2>1, <2>2, <3>1, RunStopped DEF serviceVars
  <2>8. ServiceAlike /\ RecordedAfresh(t) /\ \A d \in Delegation : ChildAlike(d)
    BY <2>1, ChainsAlike DEF RecordedAfresh, ChildAlike, Busy
  <2> QED
    BY <1>7, <2>1, <2>3, <2>4, <2>5, <2>6, <2>7, <2>8, RowMoves DEF Runs, serviceVars, IsActive
<1> QED
  BY <1>8, <1>9

LEMMA LinkTapeEnds ==
  ASSUME Sound, EndSound, NEW t \in Turn, LinkTape(t), UNCHANGED serviceVars
  PROVE  EndSound'
<1>1. turn[t] \in Memory /\ turn[t].settle = "tape" /\ taken' = taken
  BY EndParts DEF LinkTape
<1>2. turn[t].outcome \in Ended
  BY <1>1 DEF Memory
<1>3. Fits(t, turn[t], row[t], sent[t], taken[t], bound, svc)
  BY DEF EndSound, TurnsSound, TurnSound
<1>4. CASE Finish(t, turn[t].outcome)
  BY <1>1, <1>2, <1>3, <1>4, FinishEnds DEF Fits
<1>5. CASE Fault /\ Unlist(t) /\ RowEnds(t, "failed")
            /\ UNCHANGED <<bound, svc, chain, child, sent, lost>>
  <2>1. row' = row \/ (IsActive(t) /\ \E s \in Ended : row' = [row EXCEPT ![t].status = s])
    BY <1>5 DEF RowEnds, Ended
  <2>2. row'[t].status = "completed" => taken'[t] = t
    <3>1. row \in [Turn -> Row]
      BY SoundParts
    <3>2. row'[t].status \in {row[t].status, "failed"}
      BY <1>5, <3>1 DEF RowEnds, Row
    <3> QED
      BY <1>1, <1>3, <3>2 DEF Fits
  <2> QED
    BY <1>1, <1>5, <2>1, <2>2, ForgottenEnds DEF Unlist
<1> QED
  BY <1>4, <1>5 DEF LinkTape

-----------------------------------------------------------------------------
(* The tasks.                                                              *)

LEMMA RefuseEnds ==
  ASSUME Sound, EndSound, NEW t \in Turn, Refuse(t), UNCHANGED serviceVars
  PROVE  EndSound'
<1> DEFINE m == turn[t]
           n == [m EXCEPT !.lease = "suspended"]
<1>1. /\ m \in Memory /\ Becomes(t, n) /\ m.lease = "acquiring" /\ lost \subseteq lost'
      /\ UNCHANGED <<row, bound, svc, mapped, chain, child, sent, taken>>
  BY EndParts DEF Refuse
<1>2. /\ n \in Memory /\ Alike(n, m) /\ n.aborted = m.aborted /\ n.settle = m.settle
      /\ n.outcome = m.outcome /\ n.lease = "suspended"
  BY <1>1 DEF Alike, Memory, MemoryFields, Leases
<1> HIDE DEF n
<1>3. svc # "off" /\ row[t].status # "none"
  BY <1>1, Awake
<1>4. Fits(t, n, row[t], sent[t], taken[t], bound', svc)
  BY <1>1, <1>2, <1>3, AlikeFits DEF EndSound, TurnsSound, TurnSound
<1>5. Onward(n, m)
  BY <1>2, AlikeOnward
<1>6. Runs(t) => MayRun(t)'
  <2>1. turn'[t] = n
    BY <1>1, SoundParts DEF Becomes
  <2> QED
    BY <1>1, <1>2, <2>1, RunGoesOn DEF Alike, serviceVars, IsActive
<1>7. ServiceAlike
  BY <1>1, ChainsAlike
<1> QED
  BY <1>1, <1>2, <1>3, <1>4, <1>5, <1>6, <1>7, OneMoves DEF serviceVars

LEMMA TasksEnd ==
  ASSUME Sound, PermitSound, EndSound, NEW t \in Turn,
         Task(t) \/ Refuse(t) \/ SendFails(t), UNCHANGED serviceVars
  PROVE  EndSound'
<1>1. CASE NotAdmitted(t)
  <2>1. Fits(t, turn[t], row[t], sent[t], taken[t], bound, svc)
    BY DEF EndSound, TurnsSound, TurnSound
  <2>2. CASE Goes(t, "none")
    BY <1>1, <2>2, GoesEnds DEF NotAdmitted, Steps
  <2>3. CASE ~Goes(t, "none")
    <3>1. Throw(t) /\ (turn[t].lease = "released" \/ turn[t].aborted \/ turn[t].settle # "no")
      BY <1>1, <2>3 DEF NotAdmitted
    <3> QED
      BY <1>1, <2>1, <3>1, ThrowEnds DEF NotAdmitted, Fits
  <2> QED
    BY <2>2, <2>3
<1>2. CASE Checked(t)
  <2>1. Throw(t) \/ Goes(t, "acquire")
    BY <1>2 DEF Checked
  <2>2. turn[t].step = "safety" /\ turn[t].step \in Early
    BY <1>2 DEF Checked, Early, Undelivered
  <2> QED
    BY <2>1, <2>2, ThrowEnds, GoesEnds DEF Steps
<1>3. CASE Made(t)
  BY <1>3, BindEnds DEF Made
<1>4. CASE Unbound(t)
  BY <1>4, ThrowEnds DEF Unbound, Early, Undelivered
<1>5. CASE Recalled(t)
  <2>1. turn[t].aborted
    BY <1>5 DEF Recalled, EndSound, TurnsSound, TurnSound, Fits
  <2> QED
    BY <1>5, <2>1, ThrowEnds DEF Recalled
<1>6. CASE SendFails(t)
  BY <1>6, ThrowEnds DEF SendFails, Early
<1>7. CASE Admit(t) \/ Acquire(t) \/ ChildIsMade(t) \/ Synchronized(t) \/ ChildAccepts(t)
           \/ SendReturns(t) \/ LookUpResult(t) \/ LinkTape(t) \/ Refuse(t)
  BY <1>7, AdmitEnds, AcquireEnds, ChildIsMadeEnds, SynchronizedEnds, ChildAcceptsEnds,
     SendReturnsEnds, LookUpResultEnds, LinkTapeEnds, RefuseEnds
<1> QED
  BY <1>1, <1>2, <1>3, <1>4, <1>5, <1>6, <1>7 DEF Task


-----------------------------------------------------------------------------
(* The calls of the parent.                                                *)

\* Nothing of the turns moves: operations, boundaries and calls come and go.
LEMMA StandStill ==
  ASSUME Sound, EndSound, UNCHANGED <<row, bound, svc, turn, child, sent, taken, lost>>,
         rec' = rec \/ RecSound', ServiceAlike, svc # "off"
  PROVE  EndSound'
<1>1. /\ TurnsSound' /\ ChildrenSound'
  BY DEF EndSound, TurnsSound, TurnSound, ChildrenSound, ChildSound, Busy, IsActive
<1>2. RunsSound' /\ OffSound'
  BY DEF EndSound, RunsSound, RunSound, MayRun, ToCancel, IsActive, OffSound, ServiceAlike
<1>3. ChainsSound'
  <2>1. SUFFICES ASSUME NEW d \in Delegation, NEW e \in Range(chain'[d]), e \in Range(chain[d])
                 PROVE  EntrySound(d, e)'
    BY DEF ServiceAlike, ChainsSound, ChainSound
  <2>2. EntrySound(d, e)
    BY <2>1 DEF EndSound, ChainsSound, ChainSound
  <2> QED
    BY <2>2 DEF EntrySound, Delivered, ServiceAlike
<1>4. GatesSound'
  <2>1. SUFFICES ASSUME NEW d \in Delegation, gate[d].stage # "none", NEW q, q = gate[d].turn,
                        gate'[d].turn = q
                 PROVE  Delivered(q)'
    BY DEF ServiceAlike, GatesSound, GateSound
  <2> QED
    BY <2>1 DEF EndSound, GatesSound, GateSound, Delivered, ServiceAlike
<1>5. CallsSound'
  <2>1. SUFFICES ASSUME NEW c \in Caller, call[c].stage = "drain", NEW q, q = call[c].turn,
                        call'[c].turn = q
                 PROVE  GivenUp(q)'
    BY DEF ServiceAlike, CallsSound, CallSound
  <2> QED
    BY <2>1 DEF EndSound, CallsSound, CallSound, GivenUp, ServiceAlike
<1>6. CapturesSound'
  BY DEF EndSound, CapturesSound, ServiceAlike, GivenUp
<1>7. RecSound'
  BY DEF EndSound, RecSound, Busy, IsActive
<1> QED
  BY <1>1, <1>2, <1>3, <1>4, <1>5, <1>6, <1>7 DEF EndSound

\* A call that begins, returns, or goes on to wait for something else than the delivery.
LEMMA CallMoves ==
  ASSUME Sound, NEW c \in Caller, NEW k, call' = [call EXCEPT ![c] = k], k.stage # "drain",
         UNCHANGED <<chain, gate, rec, captured>>
  PROVE  ServiceAlike
<1>1. call \in [Caller -> Call]
  BY DEF Sound, DelegationTypeOK, ServiceTypeOK
<1>2. \A b \in Caller : call'[b].stage = "drain" => call'[b] = call[b]
  BY <1>1
<1> QED
  BY <1>2 DEF ServiceAlike, Pending

LEMMA CallEnded ==
  ASSUME Sound, NEW c \in Caller, Ends(c), UNCHANGED <<chain, gate, rec, captured>>
  PROVE  ServiceAlike
<1>1. NoCall.stage # "drain"
  BY DEF NoCall
<1> QED
  BY <1>1, CallMoves DEF Ends

\* A new turn: nothing names it yet, and the child of its delegation does not work.
LEMMA ScheduleEnds ==
  ASSUME Sound, PermitSound, EndSound, svc # "off", NEW t \in Turn, NEW d \in Delegation, NEW k,
         row[t].status = "none", ~Busy(d), Schedule(t, d, k), UNCHANGED <<gate, rec, captured>>,
         \A c \in Caller :
           call'[c].stage = "drain" => call[c].stage = "drain" /\ call'[c].turn = call[c].turn
  PROVE  EndSound'
<1> DEFINE n == [NewMemory(d) EXCEPT !.step = "admit", !.lease = "acquiring"]
           r == [status |-> "queued", of |-> d, kind |-> k, dispatched |-> FALSE]
<1>1. /\ n.live /\ n.step = "admit" /\ (n.knows <=> d \in bound) /\ ~n.aborted /\ ~n.started
      /\ n.runtime = "none" /\ n.seen = NoTurn /\ n.lease = "acquiring" /\ n.settle = "no"
      /\ n.outcome = "none"
  BY DEF NewMemory, NoMemory
<1>2. r.status = "queued" /\ r.of = d /\ ~r.dispatched
  OBVIOUS
<1>3. /\ turn' = [turn EXCEPT ![t] = n] /\ row' = [row EXCEPT ![t] = r]
      /\ UNCHANGED <<bound, svc, chain, child, sent, taken, lost>>
  BY DEF Schedule, Becomes
<1> HIDE DEF n, r
<1>4. /\ turn'[t] = n /\ row'[t] = r
      /\ \A q \in Turn \ {t} : turn'[q] = turn[q] /\ row'[q] = row[q]
  BY <1>3, SoundParts
<1>5. sent[t] = 0 /\ ~row[t].dispatched
  BY DEF Sound, DispatchSound
<1>6. t \notin Pending
  BY DEF PermitSound, PendingIsUnlisted
<1>7. TurnsSound'
  <2>1. SUFFICES ASSUME NEW q \in Turn PROVE TurnSound(q)'
    BY DEF TurnsSound
  <2>2. CASE q = t
    <3>1. Fits(t, n, r, sent[t], taken[t], bound, svc)
      BY <1>1, <1>2, <1>5 DEF Fits, UnderWay, Early, Undelivered, ActiveStatuses
    <3> QED
      BY <1>3, <1>4, <2>2, <3>1 DEF TurnSound
  <2>3. CASE q # t
    BY <1>3, <1>4, <2>3 DEF EndSound, TurnsSound, TurnSound
  <2> QED
    BY <2>2, <2>3
<1>8. \A e \in Delegation : child[e].turn # NoTurn => child[e].turn \in Turn \ {t}
  BY <1>5, EndParts DEF EndSound, ChildrenSound, ChildSound
<1>9. ChildrenSound'
  <2>1. SUFFICES ASSUME NEW e \in Delegation PROVE ChildSound(e)'
    BY DEF ChildrenSound
  <2>2. /\ child[e].turn # NoTurn =>
             sent[child[e].turn] # 0 /\ row[child[e].turn].of = e /\ e \in bound
        /\ Busy(e) => child[e].turn # NoTurn
        /\ \A q \in Turn : IsActive(q) /\ row[q].of = e =>
             /\ Busy(e) => child[e].turn = q
             /\ child[e].fresh /\ row[q].dispatched => child[e].answer = q
    BY DEF EndSound, ChildrenSound, ChildSound
  <2>3. child[e].turn # NoTurn =>
          sent'[child'[e].turn] # 0 /\ row'[child'[e].turn].of = e /\ e \in bound'
    BY <1>3, <1>4, <1>8, <2>2
  <2>4. \A q \in Turn : row'[q].status \in ActiveStatuses /\ row'[q].of = e =>
             /\ Busy(e) => child[e].turn = q
             /\ child[e].fresh /\ row'[q].dispatched => child[e].answer = q
    BY <1>2, <1>4, <2>2 DEF IsActive
  <2> QED
    BY <1>3, <2>2, <2>3, <2>4 DEF ChildSound, Busy, IsActive
<1>10. RunsSound'
  <2>1. SUFFICES ASSUME NEW e \in Delegation, child[e].status \in Working, NEW q, q = child[e].turn
                 PROVE  MayRun(q)'
    BY <1>3 DEF RunsSound, RunSound
  <2>2. q \in Turn \ {t} /\ MayRun(q)
    BY <1>8, <2>1 DEF EndSound, ChildrenSound, ChildSound, Busy, RunsSound, RunSound
  <2> QED
    BY <1>3, <1>4, <2>2 DEF MayRun, ToCancel, IsActive
<1>11. ChainsSound'
  <2>1. SUFFICES ASSUME NEW e \in Delegation, NEW o \in Range(chain[e]) PROVE EntrySound(e, o)'
    BY <1>3 DEF ChainsSound, ChainSound
  <2>2. o \in Queued /\ EntrySound(e, o)
    BY <2>1, EndParts DEF EndSound, ChainsSound, ChainSound
  <2>3. PICK q \in Turn : q = o[2]
    BY <2>2 DEF Queued
  <2>4. CASE o[1] = "run"
    BY <2>4 DEF EntrySound
  <2>5. CASE o[1] # "run"
    <3>1. q # t
      BY <1>5, <2>2, <2>3, <2>5 DEF EntrySound, Delivered
    <3> QED
      BY <1>4, <2>2, <2>3, <3>1 DEF EntrySound, Delivered, Pending
  <2> QED
    BY <2>4, <2>5
<1>12. GatesSound'
  <2>1. SUFFICES ASSUME NEW e \in Delegation, gate[e].stage # "none" PROVE Delivered(gate[e].turn)'
    BY DEF GatesSound, GateSound
  <2>2. gate[e].turn \in Turn /\ Delivered(gate[e].turn)
    BY <2>1, NamedTurns DEF EndSound, GatesSound, GateSound
  <2> QED
    BY <1>4, <1>5, <2>2 DEF Delivered, Pending
<1>13. \A q : GivenUp(q) => GivenUp(q)'
  BY <1>4 DEF GivenUp, Pending
<1>14. CallsSound'
  <2>1. SUFFICES ASSUME NEW c \in Caller, call'[c].stage = "drain" PROVE GivenUp(call[c].turn)'
    BY DEF CallsSound, CallSound
  <2> QED
    BY <1>13, <2>1 DEF EndSound, CallsSound, CallSound
<1>15. CapturesSound' /\ OffSound'
  BY <1>3, <1>13 DEF EndSound, CapturesSound, OffSound
<1>16. RecSound'
  <2>1. SUFFICES ASSUME rec.stage = "read", rec.shown # "generating",
                        row'[rec.at].status \in ActiveStatuses
                 PROVE  ~Busy(row'[rec.at].of)
    BY <1>3 DEF EndSound, RecSound, IsActive, Busy
  <2>2. rec.at \in Turn \ {t}
    BY <1>6, <2>1, RecordParts DEF EndSound, RecSound, Pending
  <2> QED
    BY <1>4, <2>1, <2>2 DEF EndSound, RecSound, IsActive
<1> QED
  BY <1>7, <1>9, <1>10, <1>11, <1>12, <1>14, <1>15, <1>16 DEF EndSound


LEMMA CommitEnds ==
  ASSUME Sound, PermitSound, EndSound, NEW c \in Caller, SpawnCommits(c) \/ FollowUpCommits(c)
  PROVE  EndSound'
<1>1. PICK d \in Delegation : d = call[c].of
  BY DEF Sound, DelegationTypeOK, ServiceTypeOK, Call
<1>2. svc # "off" /\ Ends(c) /\ UNCHANGED <<gate, rec, captured>>
  BY CallerIsOn DEF SpawnCommits, FollowUpCommits
<1>3. CASE UNCHANGED turnVars
  <2>1. ServiceAlike
    BY <1>2, <1>3, CallEnded DEF turnVars
  <2> QED
    BY <1>2, <1>3, <2>1, StandStill DEF turnVars
<1>4. ASSUME NEW t \in Turn, NEW k, IsNext(t), Schedule(t, d, k), ~Busy(d) PROVE EndSound'
  <2>1. call \in [Caller -> Call] /\ NoCall.stage # "drain"
    BY DEF Sound, DelegationTypeOK, ServiceTypeOK, NoCall
  <2>2. \A b \in Caller :
          call'[b].stage = "drain" => call[b].stage = "drain" /\ call'[b].turn = call[b].turn
    BY <1>2, <2>1 DEF Ends
  <2> QED
    BY <1>2, <1>4, <2>2, ScheduleEnds DEF IsNext
<1>5. CASE SpawnCommits(c)
  <2>1. TurnsOf(d) = {} => ~Busy(d)
    BY EndParts DEF EndSound, ChildrenSound, ChildSound, TurnsOf
  <2> QED
    BY <1>1, <1>3, <1>4, <1>5, <2>1 DEF SpawnCommits
<1>6. CASE FollowUpCommits(c)
  BY <1>1, <1>3, <1>4, <1>6 DEF FollowUpCommits
<1> QED
  BY <1>5, <1>6

\* Memory n is that of turn t, but for an abort and what begins its settlement.
LEMMA AlikeMoves ==
  ASSUME Sound, EndSound, NEW t \in Turn, NEW n \in Memory, Becomes(t, n), Alike(n, turn[t]),
         turn[t].aborted => n.aborted,
         n.lease = "released" => turn[t].lease = "released" \/ n.settle # "no",
         \/ n.settle = turn[t].settle /\ n.outcome = turn[t].outcome
         \/ /\ turn[t].settle = "no" /\ n.settle = "lookup"
            /\ turn[t].step \in Early => n.aborted /\ turn[t].step # "send"
            /\ n.outcome = "completed" => row[t].dispatched /\ UnderWay(turn[t]),
         row[t].status # "none", svc # "off", UNCHANGED <<row, bound, svc, sent, taken, rec>>,
         lost \subseteq lost', ServiceAlike,
         \/ child' = child /\ (Runs(t) => MayRun(t)')
         \/ child' = Cancelled(row[t].of)
  PROVE  EndSound'
<1>1. turn[t] \in Memory /\ Fits(t, turn[t], row[t], sent[t], taken[t], bound, svc)
  BY EndParts DEF EndSound, TurnsSound, TurnSound
<1>2. Fits(t, n, row[t], sent[t], taken[t], bound', svc)
  BY <1>1, AlikeFits
<1>3. Onward(n, turn[t])
  BY AlikeOnward
<1> QED
  BY <1>2, <1>3, OneMoves

LEMMA InterruptListedEnds ==
  ASSUME Sound, PermitSound, EndSound, NEW c \in Caller, NEW d \in Delegation,
         NEW t \in Listed(d), InterruptListed(c, d, t), svc # "off",
         UNCHANGED <<bound, svc, chain, sent, taken, lost, gate, rec, captured>>
  PROVE  EndSound'
<1> DEFINE m == turn[t]
           n == Aborted(m)
           k == [op |-> "interrupt", of |-> d, turn |-> t, stage |-> "drain"]
<1>1. /\ t \in Turn /\ row[t].status # "none" /\ row[t].of = d /\ m.live
      /\ m \in Memory /\ call \in [Caller -> Call] /\ turn \in [Turn -> Memory]
  BY SoundParts, NamedTurns DEF Listed, TurnsOf, Sound, DelegationTypeOK, ServiceTypeOK
<1>2. /\ call' = [call EXCEPT ![c] = k] /\ Becomes(t, n) /\ UNCHANGED row
      /\ child' = IF m.knows THEN Cancelled(d) ELSE child
  BY DEF InterruptListed
<1>3. /\ n \in Memory /\ Alike(n, m) /\ n.aborted /\ n.settle = m.settle
      /\ n.outcome = m.outcome /\ (n.lease = "released" => m.lease = "released")
  BY <1>1, AbortedMemory, AbortedAlike
<1> HIDE DEF n
<1>4. turn'[t] = n
  BY <1>1, <1>2 DEF Becomes
<1>5. ServiceAlike
  <2>1. t \notin Pending
    BY <1>1, NotPending
  <2>2. k.turn = t
    OBVIOUS
  <2>3. call'[c].turn = t /\ \A b \in Caller \ {c} : call'[b] = call[b]
    <3> HIDE DEF k
    <3> QED
      BY <1>1, <1>2, <2>2
  <2>4. GivenUp(t)'
    BY <1>1, <1>2, <1>3, <1>4, <2>1 DEF GivenUp, Pending
  <2>5. CallSound(c)'
    BY <2>3, <2>4 DEF CallSound
  <2> QED
    BY <2>3, <2>5 DEF ServiceAlike, Pending
<1>6. ~m.knows => ~Runs(t)
  BY <1>1, RunsOwn DEF EndSound, TurnsSound, TurnSound, Fits
<1> QED
  BY <1>1, <1>2, <1>3, <1>5, <1>6, AlikeMoves

\* The turn is not listed, so no task delivers it, and the run of its child is cancelled.
LEMMA InterruptUnlistedEnds ==
  ASSUME Sound, PermitSound, EndSound, NEW c \in Caller, NEW d \in Delegation,
         NEW t \in TurnsOf(d), InterruptUnlisted(c, d, t), svc = "on",
         UNCHANGED <<bound, svc, chain, sent, taken, lost, gate, rec, captured>>
  PROVE  EndSound'
<1> DEFINE k == [op |-> "interrupt", of |-> d, turn |-> t, stage |-> "cancel"]
<1>1. /\ t \in Turn /\ row[t].status # "none" /\ row[t].of = d /\ ~turn[t].live /\ IsActive(t)
      /\ turn[t] \in Memory /\ turn \in [Turn -> Memory] /\ row \in [Turn -> Row]
  BY SoundParts, NamedTurns DEF InterruptUnlisted, Listed, TurnsOf
<1>2. /\ call' = [call EXCEPT ![c] = k] /\ UNCHANGED turn
      /\ row' = [row EXCEPT ![t].status = "interrupted"]
      /\ child' = IF d \in bound THEN Cancelled(d) ELSE child
  BY <1>1 DEF InterruptUnlisted, RowEnds
<1>3. ServiceAlike
  <2>1. k.stage # "drain"
    OBVIOUS
  <2> HIDE DEF k
  <2> QED
    BY <1>2, <2>1, CallMoves
<1>4. /\ \A q \in Turn \ {t} : row'[q] = row[q]
      /\ row'[t].status = "interrupted" /\ row'[t].of = d
      /\ row'[t].dispatched = row[t].dispatched
  BY <1>1, <1>2 DEF Row
<1>5. Becomes(t, turn[t]) /\ Onward(turn[t], turn[t])
  BY <1>1, <1>2 DEF Becomes, Onward
<1>6. Fits(t, turn[t], row'[t], sent[t], taken'[t], bound', svc)
  <2>1. Fits(t, turn[t], row[t], sent[t], taken[t], bound, svc)
    BY <1>1 DEF EndSound, TurnsSound, TurnSound
  <2>2. ~UnderWay(turn[t])
    BY <1>1, <2>1 DEF Fits
  <2> QED
    BY <1>1, <1>4, <2>1, <2>2 DEF Fits
<1>7. \A e \in Delegation : ChildAlike(e)
  BY <1>2, ChildrenAlike
<1>8. ~(child'[d].status \in Working /\ child[d].turn = t)
  <2>1. child[d].turn = t => d \in bound
    BY <1>1, RunsOwn
  <2> QED
    BY <1>2, <2>1, ChildrenAlike
<1>9. RecordedAfresh(t)
  BY <1>4 DEF RecordedAfresh
<1> QED
  BY <1>1, <1>3, <1>4, <1>5, <1>6, <1>7, <1>8, <1>9, RowMoves DEF ActiveStatuses

LEMMA InterruptEnds ==
  ASSUME Sound, PermitSound, EndSound, NEW c \in Caller, Interrupt(c)
  PROVE  EndSound'
<1>1. svc = "on" /\ UNCHANGED <<bound, svc, chain, sent, taken, lost, gate, rec, captured>>
  BY DEF Interrupt
<1>2. PICK d \in Delegation : \/ \E t \in Listed(d) : InterruptListed(c, d, t)
                              \/ \E t \in TurnsOf(d) : InterruptUnlisted(c, d, t)
  BY DEF Interrupt
<1> QED
  BY <1>1, <1>2, InterruptListedEnds, InterruptUnlistedEnds

\* The delivery of the interrupted turn is over, and cannot be sent any more.
LEMMA DrainedEnds ==
  ASSUME Sound, PermitSound, EndSound, NEW c \in Caller, Drained(c)
  PROVE  EndSound'
<1>1. PICK t : t = call[c].turn
  OBVIOUS
<1> DEFINE m == turn[t]
           n == Settling(m, "interrupted")
<1>2. /\ call[c].stage = "drain" /\ m.step \notin Acquiring \union HandingOff /\ Becomes(t, n)
      /\ call' = [call EXCEPT ![c].stage = "settling"]
      /\ UNCHANGED <<row, bound, svc, chain, child, sent, taken, lost, gate, rec, captured>>
  BY <1>1 DEF Drained
<1>3. /\ t \in Turn /\ row[t].status # "none" /\ (m.settle = "no" => m.aborted)
  BY <1>1, <1>2 DEF EndSound, CallsSound, CallSound, GivenUp
<1>4. m \in Memory /\ svc # "off" /\ call \in [Caller -> Call] /\ turn \in [Turn -> Memory]
  BY <1>2, <1>3, CallerIsOn, SoundParts, NamedTurns DEF Sound, DelegationTypeOK, ServiceTypeOK
<1>5. /\ n \in Memory /\ Alike(n, m) /\ n.aborted = m.aborted /\ (m.settle # "no" => n = m)
      /\ m.settle = "no" => n.settle = "lookup" /\ n.outcome = "interrupted"
  BY <1>4, SettlingMemory, SettlingAlike DEF Ended
<1> HIDE DEF n
<1>6. Runs(t) => MayRun(t)'
  <2>1. turn'[t] = n
    BY <1>2, <1>3, <1>4 DEF Becomes
  <2>2. n.runtime = m.runtime /\ m.step # "accepted"
    BY <1>2, <1>5 DEF Alike, HandingOff
  <2> QED
    BY <1>2, <1>3, <2>1, <2>2, RunStopped
<1>7. ServiceAlike
  <2>1. \A b \in Caller : call'[b].stage = "drain" => call'[b] = call[b]
    BY <1>2, <1>4 DEF Call
  <2> QED
    BY <1>2, <2>1 DEF ServiceAlike, Pending
<1>8. m.step # "send"
  BY <1>2 DEF HandingOff
<1> QED
  BY <1>2, <1>3, <1>4, <1>5, <1>6, <1>7, <1>8, AlikeMoves

LEMMA CallsEnd ==
  ASSUME Sound, PermitSound, EndSound, NEW c \in Caller,
         Spawn(c) \/ FollowUp(c) \/ Interrupt(c) \/ Calls(c)
  PROVE  EndSound'
<1>1. CASE Spawn(c) \/ FollowUp(c)
  <2>1. UNCHANGED <<turnVars, gate, rec, captured>> /\ svc = "on"
    BY <1>1 DEF Spawn, FollowUp, Begins
  <2>2. \E o \in {"spawn", "follow_up"}, d \in Delegation : Begins(c, o, d, "checking")
    BY <1>1 DEF Spawn, FollowUp
  <2>3. PICK o \in {"spawn", "follow_up"}, d \in Delegation : Begins(c, o, d, "checking")
    BY <2>2
  <2> DEFINE k == [op |-> o, of |-> d, turn |-> NoTurn, stage |-> "checking"]
  <2>4. call' = [call EXCEPT ![c] = k] /\ k.stage # "drain"
    BY <2>3 DEF Begins
  <2> HIDE DEF k
  <2>5. ServiceAlike
    BY <2>1, <2>4, CallMoves DEF turnVars
  <2> QED
    BY <2>1, <2>5, StandStill DEF turnVars
<1>2. CASE CancelReturns(c) \/ InterruptReturns(c)
  <2>1. /\ UNCHANGED <<row, bound, svc, turn, chain, child, sent, taken, lost, gate, rec, captured>>
        /\ Ends(c) /\ svc # "off"
    BY <1>2, CallerIsOn DEF CancelReturns, InterruptReturns, turnVars
  <2>2. ServiceAlike
    BY <2>1, CallEnded
  <2> QED
    BY <2>1, <2>2, StandStill
<1> QED
  BY <1>1, <1>2, CommitEnds, InterruptEnds, DrainedEnds DEF Calls


-----------------------------------------------------------------------------
(* The boundary of a child.                                                *)

\* One boundary is passed, stays with its turn or is a delivered turn's.
LEMMA GatesAlike ==
  ASSUME Sound, NEW d \in Delegation, UNCHANGED <<call, rec, captured>>,
         \/ gate' = gate \/ Passes(d)
         \/ \E s : gate[d].stage # "none" /\ Stands(d, s)
         \/ GateSound(d)' /\ \E g : gate' = [gate EXCEPT ![d] = g],
         \/ chain' = chain
         \/ \E c \in Delegation : chain[c] # <<>> /\ Leaves(c)
         \/ \E c \in Delegation : \E e \in Queued :
              chain' = [chain EXCEPT ![c] = Append(@, e)] /\ EntrySound(c, e)'
  PROVE  ServiceAlike
<1>1. gate \in [Delegation -> GateFields] /\ NoGate.stage = "none"
  BY SoundParts DEF Gate, NoGate
<1>2. \A c \in Delegation \ {d} : gate'[c] = gate[c]
  BY <1>1 DEF Passes, Stands
<1>3. \/ gate'[d].stage # "none" => gate[d].stage # "none" /\ gate'[d].turn = gate[d].turn
      \/ GateSound(d)'
  <2>1. CASE gate' = gate
    BY <2>1
  <2>2. CASE Passes(d)
    BY <1>1, <2>2 DEF Passes
  <2>3. ASSUME NEW s, gate[d].stage # "none", Stands(d, s) PROVE gate'[d].turn = gate[d].turn
    BY <1>1, <2>3 DEF Stands, GateFields
  <2> QED
    BY <2>1, <2>2, <2>3
<1> QED
  BY <1>2, <1>3, ChainEntries DEF ServiceAlike, Pending

\* The turn of a boundary is one of its delegation, and delivered.
LEMMA AtBoundary ==
  ASSUME Sound, PermitSound, EndSound, NEW d \in Delegation, gate[d].stage # "none"
  PROVE  /\ gate[d].turn \in Turn /\ row[gate[d].turn].of = d
         /\ row[gate[d].turn].status # "none" /\ Delivered(gate[d].turn) /\ svc # "off"
<1>1. svc # "off"
  BY DEF EndSound, OffSound
<1> QED
  BY <1>1, NamedTurns DEF PermitSound, ChildsOwn, EndSound, GatesSound, GateSound

LEMMA UnverifiedEnds ==
  ASSUME Sound, EndSound, NEW d \in Delegation, NEW t \in Turn, row[t].of = d,
         row[t].status # "none", Delivered(t), svc # "off", Unverified(d, t),
         UNCHANGED <<row, bound, svc, sent, taken, lost, rec>>, ServiceAlike
  PROVE  EndSound'
<1> DEFINE a == Aborted(turn[t])
           n == Settling(a, "interrupted")
<1>1. turn[t] \in Memory /\ a \in Memory /\ n \in Memory
  BY EndParts, AbortedMemory, SettlingMemory DEF Ended
<1>2. CASE turn[t].settle = "no"
  <2>1. /\ Alike(a, turn[t]) /\ a.aborted /\ a.settle = "no"
        /\ Alike(n, a) /\ n.aborted = a.aborted
        /\ n.settle = "lookup" /\ n.outcome = "interrupted"
    <3>1. Alike(a, turn[t]) /\ a.aborted /\ a.settle = "no"
      BY <1>1, <1>2, AbortedAlike
    <3> QED
      BY <1>1, <3>1, SettlingAlike
  <2>2. Becomes(t, n) /\ child' = Cancelled(d)
    BY <1>2 DEF Unverified
  <2> HIDE DEF n, a
  <2>3. Alike(n, turn[t]) /\ n.aborted
    BY <2>1 DEF Alike
  <2>4. turn[t].step \notin Early
    BY DEF Delivered
  <2> QED
    BY <1>1, <1>2, <2>1, <2>2, <2>3, <2>4, AlikeMoves
<1>3. CASE turn[t].settle # "no"
  BY <1>3, StandStill DEF Unverified
<1> QED
  BY <1>2, <1>3

LEMMA GateOpensEnds ==
  ASSUME Sound, PermitSound, EndSound, NEW d \in Delegation, GateOpens(d)
  PROVE  EndSound'
<1>1. PICK t : t = mapped[d]
  OBVIOUS
<1>2. /\ child[d].status \in Working /\ t # NoTurn /\ turn[t].live /\ turn[t].settle = "no"
      /\ chain' = [chain EXCEPT ![d] = Append(@, <<"gate", t>>)]
      /\ UNCHANGED <<row, bound, svc, turn, mapped, child, sent, taken, lost, call, rec, captured>>
  BY <1>1 DEF GateOpens, Owned, Synchronizes
<1> DEFINE g == [kind |-> IF child[d].status = "waiting" THEN "answer" ELSE "tool", turn |-> t,
                 stage |-> IF turn[t].lease = "active" THEN "enter" ELSE "verify"]
<1>3. gate' = [gate EXCEPT ![d] = g] /\ g.turn = t
  BY <1>1 DEF GateOpens
<1> HIDE DEF g
<1>4. t \in Turn /\ row[t].of = d /\ row[t].status # "none" /\ IsActive(t)
  BY <1>1, <1>2, NamedTurns DEF PermitSound, ChildsOwn, LiveIsActive
<1>5. sent[t] # 0
  BY <1>2, <1>4 DEF EndSound, ChildrenSound, ChildSound, Busy
<1>6. Delivered(t)
  BY <1>2, <1>4, <1>5, EndParts, NotPending DEF Delivered
<1>7. Delivered(t)'
  BY <1>2, <1>6 DEF Delivered, Pending
<1>8. PICK e \in Queued : e = <<"gate", t>>
  BY <1>4 DEF Queued
<1>9. EntrySound(d, e)'
  BY <1>2, <1>4, <1>7, <1>8 DEF EntrySound
<1>10. GateSound(d)'
  <2>1. gate'[d].turn = t
    BY <1>3, SoundParts
  <2> QED
    BY <1>7, <2>1 DEF GateSound
<1>11. ServiceAlike
  BY <1>2, <1>3, <1>8, <1>9, <1>10, GatesAlike
<1>12. svc # "off"
  BY <1>2, <1>4, Awake
<1> QED
  BY <1>2, <1>11, <1>12, StandStill

LEMMA GateVerifiedEnds ==
  ASSUME Sound, PermitSound, EndSound, NEW d \in Delegation, GateVerified(d)
  PROVE  EndSound'
<1>1. PICK t : t = gate[d].turn
  OBVIOUS
<1>2. /\ chain[d] # <<>> /\ Leaves(d) /\ gate[d].stage = "verify"
      /\ UNCHANGED <<row, bound, svc, mapped, sent, taken, lost, call, rec, captured>>
  BY DEF GateVerified, GateIsUp, AtGate
<1>3. t \in Turn /\ row[t].of = d /\ row[t].status # "none" /\ Delivered(t) /\ svc # "off"
  BY <1>1, <1>2, AtBoundary
<1>4. CASE Unverified(d, t) /\ Passes(d)
  <2>1. ServiceAlike
    BY <1>2, <1>4, GatesAlike
  <2> QED
    BY <1>2, <1>3, <1>4, <2>1, UnverifiedEnds
<1>5. CASE ~(Unverified(d, t) /\ Passes(d))
  <2> DEFINE n == [turn[t] EXCEPT !.lease = IF @ = "suspended" THEN "acquiring" ELSE @]
  <2>1. Becomes(t, n) /\ Stands(d, "resume") /\ UNCHANGED child
    BY <1>1, <1>5 DEF GateVerified
  <2>2. turn[t] \in Memory
    BY <1>3, EndParts
  <2>3. /\ n \in Memory /\ Alike(n, turn[t]) /\ n.aborted = turn[t].aborted
        /\ n.settle = turn[t].settle /\ n.outcome = turn[t].outcome
        /\ n.lease = "released" => turn[t].lease = "released"
    BY <2>2 DEF Memory, MemoryFields, Leases, Alike
  <2> HIDE DEF n
  <2>4. turn'[t] = n
    BY <1>3, <2>1, SoundParts DEF Becomes
  <2>5. ServiceAlike
    BY <1>2, <2>1, GatesAlike
  <2>6. Runs(t) => MayRun(t)'
    BY <1>2, <1>3, <2>3, <2>4, RunGoesOn DEF Alike, IsActive
  <2> QED
    BY <1>2, <1>3, <2>1, <2>3, <2>5, <2>6, AlikeMoves
<1> QED
  BY <1>4, <1>5


LEMMA GateLeftEnds ==
  ASSUME Sound, PermitSound, EndSound, NEW d \in Delegation,
         GateAdmitted(d) \/ GateRefused(d)
  PROVE  EndSound'
<1>1. PICK t : t = gate[d].turn
  OBVIOUS
<1>2. /\ gate[d].stage = "resume"
      /\ UNCHANGED <<row, bound, svc, mapped, sent, taken, lost, call, rec, captured>>
  BY DEF GateAdmitted, GateRefused, AtGate
<1>3. t \in Turn /\ row[t].of = d /\ row[t].status # "none" /\ Delivered(t) /\ svc # "off"
  BY <1>1, <1>2, AtBoundary
<1>4. CASE Unverified(d, t) /\ Passes(d) /\ UNCHANGED chain
  <2>1. ServiceAlike
    BY <1>2, <1>4, GatesAlike
  <2> QED
    BY <1>2, <1>3, <1>4, <2>1, UnverifiedEnds
<1>5. CASE ~(Unverified(d, t) /\ Passes(d) /\ UNCHANGED chain)
  <2>1. Stands(d, "enter") /\ Synchronizes(d, t) /\ UNCHANGED <<turn, child>>
    BY <1>1, <1>5 DEF GateAdmitted, GateRefused
  <2>2. PICK e \in Queued : e = <<"gate", t>>
    BY <1>3 DEF Queued
  <2>3. EntrySound(d, e)'
    BY <1>2, <1>3, <2>1, <2>2 DEF EntrySound, Delivered, Pending
  <2>4. ServiceAlike
    BY <1>2, <2>1, <2>2, <2>3, GatesAlike DEF Synchronizes
  <2> QED
    BY <1>2, <1>3, <2>1, <2>4, StandStill
<1> QED
  BY <1>4, <1>5

LEMMA GateEnteredEnds ==
  ASSUME Sound, PermitSound, EndSound, NEW d \in Delegation, GateEntered(d)
  PROVE  EndSound'
<1>1. PICK t : t = gate[d].turn
  OBVIOUS
<1>2. /\ chain[d] # <<>> /\ Leaves(d) /\ gate[d].stage = "enter" /\ Passes(d)
      /\ UNCHANGED <<row, bound, svc, sent, taken, lost, call, rec, captured>>
  BY DEF GateEntered, GateIsUp, AtGate
<1>3. t \in Turn /\ row[t].of = d /\ row[t].status # "none" /\ Delivered(t) /\ svc # "off"
  BY <1>1, <1>2, AtBoundary
<1>4. ServiceAlike
  BY <1>2, GatesAlike
<1>5. turn[t] \in Memory /\ turn \in [Turn -> Memory] /\ child \in [Delegation -> ChildSession]
  BY <1>3, EndParts, SoundParts
<1>6. \/ /\ Wanted(d) /\ UNCHANGED turn
         /\ child' = child \/ child' = [child EXCEPT ![d].status = "generating"]
      \/ UNCHANGED child /\ (Becomes(t, Suspended(turn[t])) \/ Becomes(t, turn[t]))
      \/ Unverified(d, t)
  BY <1>1 DEF GateEntered
<1>7. ASSUME Wanted(d), UNCHANGED turn,
             child' = child \/ child' = [child EXCEPT ![d].status = "generating"]
      PROVE  EndSound'
  <2>1. ASSUME NEW e \in Delegation
        PROVE  ChildAlike(e) /\ (child'[e].status \in Working => child[e].status \in Working)
    BY <1>5, <1>7, <2>1 DEF ChildAlike, Wanted, Working, Busy, ChildSession
  <2>2. Moved(t) /\ TurnSound(t)' /\ RecordedAfresh(t)
    BY <1>2, <1>3, <1>7
    DEF Moved, Onward, EndSound, TurnsSound, TurnSound, RecordedAfresh, Delivered, IsActive
  <2>3. \A e \in Delegation : child'[e].status \in Working /\ child[e].turn = t => MayRun(t)'
    BY <1>2, <1>7, <2>1 DEF EndSound, RunsSound, RunSound, MayRun, ToCancel, IsActive
  <2> QED
    BY <1>2, <1>3, <1>4, <2>1, <2>2, <2>3, MovedKeeps
<1>8. ASSUME NEW n \in Memory, Becomes(t, n), n = Suspended(turn[t]) \/ n = turn[t],
             UNCHANGED child
      PROVE  EndSound'
  <2>1. /\ Alike(n, turn[t]) /\ n.aborted = turn[t].aborted /\ n.settle = turn[t].settle
        /\ n.outcome = turn[t].outcome /\ (n.lease = "released" => turn[t].lease = "released")
    BY <1>5, <1>8, SuspendedAlike DEF Alike
  <2>2. turn'[t] = n
    BY <1>3, <1>5, <1>8 DEF Becomes
  <2>3. Runs(t) => MayRun(t)'
    BY <1>2, <1>3, <2>1, <2>2, RunGoesOn DEF Alike, IsActive
  <2> QED
    BY <1>2, <1>3, <1>4, <1>8, <2>1, <2>3, AlikeMoves
<1>9. Suspended(turn[t]) \in Memory
  BY <1>5, SuspendedMemory
<1>10. CASE Unverified(d, t)
  BY <1>2, <1>3, <1>4, <1>10, UnverifiedEnds
<1> QED
  BY <1>5, <1>6, <1>7, <1>8, <1>9, <1>10

\* An idle child that is synchronized completes its turn.
LEMMA CompletesEnds ==
  ASSUME Sound, PermitSound, EndSound, NEW d \in Delegation, Completes(d)
  PROVE  EndSound'
<1>1. PICK t : t = Head(chain[d])[2]
  OBVIOUS
<1>2. /\ chain[d] # <<>> /\ Head(chain[d])[1] = "check" /\ Leaves(d)
      /\ UNCHANGED <<row, bound, svc, mapped, sent, taken, lost, serviceVars>>
  BY DEF Completes
<1>3. /\ t \in Turn /\ row[t].of = d /\ Delivered(t)
      /\ turn[t].settle = "no" => turn[t].started /\ turn[t].runtime \in {"idle", "error"}
  <2>1. chain[d] \in Seq(Queued)
    BY SoundParts
  <2>2. Head(chain[d]) \in Queued /\ Head(chain[d]) \in Range(chain[d])
    BY <1>2, <2>1 DEF Range
  <2>3. EntrySound(d, Head(chain[d]))
    BY <2>2 DEF EndSound, ChainsSound, ChainSound
  <2> QED
    BY <1>1, <1>2, <2>2, <2>3 DEF EntrySound, Queued
<1>4. row[t].status # "none" /\ svc # "off"
  <2>1. row[t].status # "none"
    BY <1>3 DEF Sound, DispatchSound, Delivered
  <2>2. svc # "off"
    BY <1>2 DEF EndSound, OffSound
  <2> QED
    BY <2>1, <2>2
<1>5. ServiceAlike
  BY <1>2, ChainsAlike
<1>6. CASE Unverified(d, t)
  BY <1>2, <1>3, <1>4, <1>5, <1>6, UnverifiedEnds DEF serviceVars
<1>7. CASE ~Unverified(d, t)
  <2> DEFINE n == Settling(turn[t], "completed")
  <2>1. Becomes(t, n) /\ UNCHANGED child
    BY <1>1, <1>7 DEF Completes
  <2>2. turn[t] \in Memory /\ turn \in [Turn -> Memory]
    BY <1>3, EndParts, SoundParts
  <2>3. /\ n \in Memory /\ Alike(n, turn[t]) /\ n.aborted = turn[t].aborted
        /\ turn[t].settle # "no" => n = turn[t]
        /\ turn[t].settle = "no" => n.settle = "lookup" /\ n.outcome = "completed"
    BY <2>2, SettlingAlike, SettlingMemory DEF Ended
  <2> HIDE DEF n
  <2>4. turn'[t] = n
    BY <1>3, <2>1, <2>2 DEF Becomes
  <2>5. Runs(t) => MayRun(t)'
    <3>1. CASE turn[t].settle = "no"
      BY <1>3, <3>1, RunsOwn DEF MayRun
    <3>2. CASE turn[t].settle # "no"
      BY <1>2, <1>3, <2>3, <2>4, <3>2, RunStopped DEF serviceVars
    <3> QED
      BY <3>1, <3>2
  <2>6. turn[t].settle = "no" => row[t].dispatched /\ UnderWay(turn[t]) /\ turn[t].step \notin Early
    BY <1>3 DEF Delivered, UnderWay
  <2> QED
    BY <1>2, <1>3, <1>4, <1>5, <2>1, <2>3, <2>5, <2>6, AlikeMoves DEF serviceVars
<1> QED
  BY <1>6, <1>7


-----------------------------------------------------------------------------
(* The child at work.                                                      *)

LEMMA AnswerUnownedEnds ==
  ASSUME Sound, EndSound, NEW d \in Delegation, AnswerUnowned(d)
  PROVE  EndSound'
<1>1. child \in [Delegation -> ChildSession]
  BY SoundParts
<1>2. ASSUME NEW e \in Delegation PROVE ChildAlike(e)
  BY <1>1, <1>2 DEF AnswerUnowned, ChildAlike, Working, Busy, ChildSession
<1> QED
  BY <1>2, ChildMoves DEF AnswerUnowned

\* The turn that hears of a child at work is the one the child works for.
LEMMA Heard ==
  ASSUME Sound, PermitSound, EndSound, NEW d \in Delegation, Busy(d), Hears(d)
  PROVE  /\ child[d].turn = mapped[d] /\ mapped[d] \in Turn /\ row[mapped[d]].of = d
         /\ IsActive(mapped[d]) /\ mapped[d] \notin Pending /\ svc # "off"
         /\ turn[mapped[d]].settle = "no"
<1>1. PICK t : t = mapped[d]
  OBVIOUS
<1>2. svc = "on" /\ t # NoTurn /\ turn[t].live /\ turn[t].settle = "no"
  BY <1>1 DEF Hears
<1>3. t \in Turn /\ row[t].of = d /\ IsActive(t)
  BY <1>1, <1>2, NamedTurns DEF PermitSound, ChildsOwn, LiveIsActive
<1>4. child[d].turn = t
  BY <1>3 DEF EndSound, ChildrenSound, ChildSound
<1>5. t \notin Pending
  BY <1>2, <1>3, NotPending
<1> QED
  BY <1>1, <1>2, <1>3, <1>4, <1>5

\* The run of a child is that of a turn that was handed over.
LEMMA RunIsOwned ==
  ASSUME Sound, EndSound, NEW d \in Delegation, Busy(d)
  PROVE  /\ child[d].turn \in Turn /\ row[child[d].turn].of = d
         /\ row[child[d].turn].status # "none" /\ row[child[d].turn].dispatched
         /\ turn[child[d].turn].step \notin Early /\ sent[child[d].turn] # 0
BY EndParts DEF EndSound, ChildrenSound, ChildSound

\* An update of the blocks reaches the turn: it has seen the message of its own run.
LEMMA SeenEnds ==
  ASSUME Sound, PermitSound, EndSound, NEW d \in Delegation, Busy(d), Hears(d),
         NEW t, t = mapped[d], NEW n \in Memory, Becomes(t, n), n.seen = t,
         n.live = turn[t].live, n.step = turn[t].step, n.knows = turn[t].knows,
         n.aborted = turn[t].aborted, n.started = turn[t].started,
         n.runtime = turn[t].runtime, n.settle = turn[t].settle,
         n.outcome = turn[t].outcome, n.lease = "released" => turn[t].lease = "released",
         row' = row \/ \E s \in {"running", "waiting"} : row' = MarkedAs(row, t, s),
         UNCHANGED <<bound, svc, chain, sent, taken, lost, serviceVars>>,
         \A e \in Delegation : ChildAlike(e)
  PROVE  EndSound'
<1>1. /\ child[d].turn = t /\ t \in Turn /\ row[t].of = d /\ IsActive(t) /\ svc # "off"
      /\ row[t].status # "none" /\ row[t].dispatched /\ turn[t].step \notin Early
  BY Heard, RunIsOwned
<1>2. row \in [Turn -> Row] /\ turn \in [Turn -> Memory]
  BY SoundParts
<1>3. /\ \A q \in Turn \ {t} : row'[q] = row[q]
      /\ row'[t].of = d /\ row'[t].dispatched /\ row'[t].status \in ActiveStatuses
  <2>1. CASE row' = row
    BY <1>1, <2>1 DEF IsActive
  <2>2. ASSUME NEW s \in {"running", "waiting"}, row' = MarkedAs(row, t, s)
        PROVE  /\ \A q \in Turn \ {t} : row'[q] = row[q]
               /\ row'[t].of = d /\ row'[t].dispatched /\ row'[t].status \in ActiveStatuses
    BY <1>1, <1>2, <2>2 DEF MarkedAs, Row, ActiveStatuses
  <2> QED
    BY <2>1, <2>2
<1>4. turn'[t] = n
  BY <1>1, <1>2 DEF Becomes
<1>5. Onward(n, turn[t])
  BY DEF Onward
<1>6. Fits(t, n, row'[t], sent[t], taken'[t], bound', svc)
  <2>1. Fits(t, turn[t], row[t], sent[t], taken[t], bound, svc)
    BY <1>1 DEF EndSound, TurnsSound, TurnSound
  <2>2. UnderWay(n) => UnderWay(turn[t])
    BY DEF UnderWay
  <2> QED
    BY <1>1, <1>3, <2>1, <2>2 DEF Fits, ActiveStatuses
<1>7. Runs(t) => MayRun(t)'
  BY <1>1, <1>3, <1>4, RunGoesOn DEF serviceVars, IsActive
<1>8. ServiceAlike /\ RecordedAfresh(t)
  BY <1>1, ChainsAlike DEF RecordedAfresh
<1>9. child'[row[t].of].status \in Working /\ child[row[t].of].turn = t => MayRun(t)'
  BY <1>1, <1>7 DEF Runs, ChildAlike
<1>10. row'[t].status # "none"
  BY <1>3 DEF ActiveStatuses
<1> QED
  BY <1>1, <1>3, <1>5, <1>6, <1>8, <1>9, <1>10, RowMoves DEF serviceVars


LEMMA ChildAsksEnds ==
  ASSUME Sound, PermitSound, EndSound, NEW d \in Delegation, ChildAsks(d)
  PROVE  EndSound'
<1>1. PICK t : t = mapped[d]
  OBVIOUS
<1>2. /\ child[d].status = "generating" /\ child' = [child EXCEPT ![d].status = "waiting"]
      /\ UNCHANGED <<bound, svc, mapped, chain, faults, sent, taken, lost, serviceVars>>
      /\ Busy(d)
  BY DEF ChildAsks, PublishWaiting, Busy, Working
<1>3. child \in [Delegation -> ChildSession]
  BY SoundParts
<1>4. ASSUME NEW e \in Delegation PROVE ChildAlike(e)
  BY <1>2, <1>3, <1>4 DEF ChildAlike, Working, Busy, ChildSession
<1>5. CASE ~Hears(d)
  BY <1>2, <1>4, <1>5, ChildMoves DEF ChildAsks, PublishWaiting
<1>6. CASE Hears(d)
  <2> DEFINE m == Suspended(turn[t])
             n == [m EXCEPT !.seen = child[d].turn]
  <2>1. child[d].turn = t /\ t \in Turn /\ turn[t] \in Memory
    BY <1>1, <1>2, <1>6, Heard, EndParts
  <2>2. /\ m \in Memory /\ Alike(m, turn[t]) /\ m.aborted = turn[t].aborted
        /\ m.settle = turn[t].settle /\ m.outcome = turn[t].outcome
        /\ m.lease = "released" => turn[t].lease = "released"
    BY <2>1, SuspendedMemory, SuspendedAlike
  <2>3. Becomes(t, n) /\ (row' = row \/ row' = MarkedAs(row, t, "waiting"))
    BY <1>1, <1>6 DEF ChildAsks, PublishWaiting
  <2> HIDE DEF m
  <2>4. /\ n \in Memory /\ n.seen = t /\ n.live = m.live /\ n.step = m.step
        /\ n.knows = m.knows /\ n.aborted = m.aborted /\ n.started = m.started
        /\ n.runtime = m.runtime /\ n.settle = m.settle /\ n.outcome = m.outcome
        /\ n.lease = m.lease
    BY <2>1, <2>2 DEF Memory, MemoryFields
  <2> HIDE DEF n
  <2> QED
    BY <1>1, <1>2, <1>4, <1>6, <2>2, <2>3, <2>4, SeenEnds DEF Alike
<1> QED
  BY <1>5, <1>6

LEMMA ChildWritesEnds ==
  ASSUME Sound, PermitSound, EndSound, NEW d \in Delegation, ChildWrites(d)
  PROVE  EndSound'
<1>1. PICK t : t = mapped[d]
  OBVIOUS
<1>2. /\ Busy(d) /\ Hears(d)
      /\ UNCHANGED <<bound, svc, chain, child, sent, taken, lost, serviceVars>>
  BY DEF ChildWrites, PublishBlocks, Busy, Working
<1> DEFINE m == turn[t]
           n == [m EXCEPT !.seen = child[d].turn]
<1>3. child[d].turn = t /\ t \in Turn /\ m \in Memory
  BY <1>1, <1>2, Heard, EndParts
<1>4. Becomes(t, n) /\ (row' = row \/ row' = MarkedAs(row, t, "running"))
  BY <1>1, <1>2 DEF ChildWrites, PublishBlocks
<1>5. /\ n \in Memory /\ n.seen = t /\ n.live = m.live /\ n.step = m.step
      /\ n.knows = m.knows /\ n.aborted = m.aborted /\ n.started = m.started
      /\ n.runtime = m.runtime /\ n.settle = m.settle /\ n.outcome = m.outcome
      /\ n.lease = m.lease
  BY <1>3 DEF Memory, MemoryFields
<1> HIDE DEF n
<1>6. \A e \in Delegation : ChildAlike(e)
  BY <1>2 DEF ChildAlike, Busy
<1> QED
  BY <1>1, <1>2, <1>4, <1>5, <1>6, SeenEnds

\* The end of a run reaches the turn it was for, or nobody.
LEMMA ChildEndsEnds ==
  ASSUME Sound, PermitSound, EndSound, NEW d \in Delegation, ChildEnds(d)
  PROVE  EndSound'
<1>1. PICK s \in {"idle", "error"}, a \in BOOLEAN :
        /\ child' = [child EXCEPT ![d].status = s,
                                  ![d].answer = IF a THEN child[d].turn ELSE @,
                                  ![d].fresh = @ \/ a]
        /\ PublishStatus(d, s)
  BY DEF ChildEnds
<1>2. /\ UNCHANGED <<bound, svc, mapped, faults, sent, taken, lost, serviceVars>> /\ Busy(d)
  BY DEF ChildEnds, Busy
<1>3. PICK t \in Turn : t = child[d].turn
  BY <1>2, RunIsOwned
<1>4. /\ row[t].of = d /\ row[t].status # "none" /\ row[t].dispatched
      /\ turn[t].step \notin Early /\ sent[t] # 0 /\ turn[t] \in Memory
  BY <1>2, <1>3, RunIsOwned, EndParts
<1>5. Fits(t, turn[t], row[t], sent[t], taken[t], bound, svc)
  BY DEF EndSound, TurnsSound, TurnSound
<1>6. /\ child'[d].status = s /\ child'[d].turn = t
      /\ child'[d].answer = IF a THEN t ELSE child[d].answer
      /\ child'[d].fresh => child[d].fresh \/ a
      /\ \A e \in Delegation \ {d} : child'[e] = child[e]
  <2>1. child \in [Delegation -> ChildSession]
    BY SoundParts
  <2> QED
    BY <1>1, <1>3, <2>1 DEF ChildSession
<1>7. Moved(t) /\ TurnSound(t)' /\ ServiceAlike /\ row'[t].dispatched
  <2>1. CASE ~Hears(d)
    <3>1. UNCHANGED <<turn, row, chain>>
      BY <1>1, <2>1 DEF PublishStatus
    <3>2. TurnSound(t)'
      BY <1>2, <1>5, <3>1 DEF TurnSound
    <3>3. Moved(t)
      BY <1>2, <1>4, <3>1 DEF Moved, Onward, IsActive
    <3> QED
      BY <1>2, <1>4, <3>1, <3>2, <3>3, ChainsAlike
  <2>2. CASE Hears(d)
    <3> DEFINE m == turn[t]
               n == [m EXCEPT !.runtime = s]
    <3>1. mapped[d] = t /\ t \notin Pending
      BY <1>2, <1>3, <2>2, Heard
    <3>2. Apply(t, n)
      BY <1>1, <2>2, <3>1 DEF PublishStatus
    <3>3. /\ n \in Memory /\ n.runtime = s /\ n.live = m.live /\ n.step = m.step
          /\ n.knows = m.knows /\ n.aborted = m.aborted /\ n.started = m.started
          /\ n.seen = m.seen /\ n.settle = m.settle /\ n.outcome = m.outcome
          /\ n.lease = m.lease
      BY <1>4 DEF Memory, MemoryFields
    <3> HIDE DEF n
    <3>4. Onward(n, m)
      BY <3>3 DEF Onward
    <3>5. Fits(t, n, row[t], sent[t], taken[t], bound, svc)
      BY <1>4, <1>5, <3>3 DEF Fits, UnderWay, Early, Undelivered
    <3>6. n.step \notin Early
      BY <1>4, <3>3
    <3> QED
      BY <1>2, <1>4, <3>1, <3>2, <3>3, <3>4, <3>5, <3>6, ApplyMoves
  <2> QED
    BY <2>1, <2>2
<1>8. RecordedAfresh(t)
  BY <1>4 DEF RecordedAfresh
<1>9. ChildrenSound'
  <2>1. SUFFICES ASSUME NEW e \in Delegation PROVE ChildSound(e)'
    BY DEF ChildrenSound
  <2>2. CASE e # d
    <3>1. ChildAlike(e)
      BY <1>6, <2>2 DEF ChildAlike, Busy
    <3> QED
      BY <1>7, <1>8, <3>1, ChildStays DEF EndSound, ChildrenSound
  <2>3. CASE e = d
    <3>1. ~Busy(d)'
      BY <1>6 DEF Busy, Working
    <3>2. sent'[t] # 0 /\ row'[t].of = d /\ d \in bound'
      BY <1>2, <1>3, <1>4, <1>7, RunsOwn DEF Moved
    <3>3. ASSUME NEW q \in Turn, row'[q].status \in ActiveStatuses, row'[q].of = d,
                 child'[d].fresh
          PROVE  child'[d].answer = q
      <4>1. IsActive(q) /\ row[q].of = d
        BY <1>7, <3>3 DEF Moved, IsActive
      <4>2. q = t
        BY <1>2, <1>3, <4>1 DEF EndSound, ChildrenSound, ChildSound
      <4>3. child[d].fresh => child[d].answer = t
        BY <1>4, <4>1, <4>2 DEF EndSound, ChildrenSound, ChildSound
      <4> QED
        BY <1>6, <3>3, <4>2, <4>3
    <3> QED
      BY <1>6, <2>3, <3>1, <3>2, <3>3 DEF ChildSound, IsActive
  <2> QED
    BY <2>2, <2>3
<1>10. RunsSound'
  <2>1. SUFFICES ASSUME NEW e \in Delegation PROVE RunSound(e)'
    BY DEF RunsSound
  <2>2. CASE e # d
    <3>1. ChildAlike(e) /\ child[e].turn # t
      BY <1>4, <1>6, <2>2, RunsOwn DEF ChildAlike, Busy
    <3> QED
      BY <1>2, <1>7, <3>1, RunStays DEF EndSound, RunsSound, ChildrenSound, serviceVars
  <2>3. CASE e = d
    BY <1>6, <2>3 DEF RunSound, Working
  <2> QED
    BY <2>2, <2>3
<1>11. RecSound'
  <2>1. \A e \in Delegation : Busy(e)' => Busy(e)
    BY <1>2, <1>6 DEF Busy
  <2> QED
    BY <1>2, <1>7, <2>1, RecordStays DEF EndSound, serviceVars
<1>12. ChainsSound' /\ GatesSound' /\ CallsSound' /\ CapturesSound' /\ TurnsSound'
  BY <1>7, ServiceStays, TurnsStay DEF EndSound
<1>13. OffSound'
  <2>1. svc = "off" => UNCHANGED <<turn, row, chain>>
    BY <1>1 DEF PublishStatus, Hears
  <2> QED
    BY <1>2, <2>1 DEF EndSound, OffSound, serviceVars
<1> QED
  BY <1>9, <1>10, <1>11, <1>12, <1>13 DEF EndSound

LEMMA BoundaryEnds ==
  ASSUME Sound, PermitSound, EndSound, NEW d \in Delegation, Boundary(d) \/ Child(d)
  PROVE  EndSound'
BY GateVerifiedEnds, GateLeftEnds, GateEnteredEnds, CompletesEnds, GateOpensEnds,
   AnswerUnownedEnds, ChildAsksEnds, ChildWritesEnds, ChildEndsEnds DEF Boundary, Child

-----------------------------------------------------------------------------
(* start(), and the reconciliation.                                        *)

\* Nothing is in memory, and nothing waits: what is sound while the service is off stays so.
LEMMA StartEnds ==
  ASSUME Sound, PermitSound, EndSound, Start
  PROVE  EndSound'
<1>1. /\ svc = "off" /\ svc' = "on"
      /\ UNCHANGED <<row, bound, turn, chain, child, sent, taken, lost, call, gate, captured>>
      /\ rec'.stage = "none"
  BY DEF Start, NoRecord
<1>2. /\ \A t \in Turn : turn[t] = NoMemory
      /\ \A d \in Delegation : chain[d] = <<>> /\ gate[d].stage = "none"
      /\ \A c \in Caller : call[c].stage # "drain"
      /\ captured = {}
  <2>1. NoCall.stage # "drain"
    BY DEF NoCall
  <2>2. /\ \A t \in Turn : turn[t] = NoMemory
        /\ \A d \in Delegation : chain[d] = <<>> /\ gate[d].stage = "none"
    BY <1>1 DEF EndSound, OffSound
  <2>3. \A c \in Caller : call[c].stage # "drain"
    BY <1>1, <2>1 DEF PermitSound, OffIsQuiet
  <2> QED
    BY <1>1, <2>2, <2>3 DEF EndSound, CapturesSound
<1>3. TurnsSound'
  <2>1. ~UnderWay(NoMemory)
    BY DEF UnderWay, NoMemory, Early, Undelivered
  <2>2. ASSUME NEW t \in Turn PROVE Fits(t, NoMemory, row[t], sent[t], taken[t], bound, "on")
    <3>1. Fits(t, NoMemory, row[t], sent[t], taken[t], bound, "off")
      BY <1>1, <1>2 DEF EndSound, TurnsSound, TurnSound
    <3> QED
      BY <2>1, <3>1 DEF Fits
  <2> QED
    BY <1>1, <1>2, <2>2 DEF TurnsSound, TurnSound
<1>4. ChildrenSound' /\ RunsSound'
  BY <1>1, <1>2
  DEF EndSound, ChildrenSound, ChildSound, Busy, IsActive, RunsSound, RunSound, MayRun, ToCancel
<1>5. ChainsSound' /\ GatesSound' /\ CallsSound' /\ CapturesSound' /\ OffSound'
  BY <1>1, <1>2
  DEF ChainsSound, ChainSound, Range, GatesSound, GateSound, CallsSound, CallSound,
      CapturesSound, OffSound
<1>6. RecSound'
  BY <1>1 DEF RecSound
<1> QED
  BY <1>3, <1>4, <1>5, <1>6 DEF EndSound

\* What is read for a turn is true when it is read.
LEMMA RecordReadEnds ==
  ASSUME Sound, PermitSound, EndSound, ReadRecord \/ RecordSettled
  PROVE  EndSound'
<1>1. UNCHANGED <<turnVars, call, gate, captured>>
  BY DEF ReadRecord, RecordSettled
<1>2. svc # "off"
  BY DEF EndSound, OffSound, ReadRecord, RecordSettled, NoRecord
<1>3. Pending' \subseteq Pending /\ RecSound'
  <2>1. CASE RecordSettled
    BY <1>1, <2>1
    DEF RecordSettled, RecordDone, NoRecord, Pending, EndSound, RecSound, turnVars
  <2>2. CASE ReadRecord /\ svc # "on"
    BY <2>2 DEF ReadRecord, NoRecord, Pending, RecSound
  <2>3. CASE ReadRecord /\ svc = "on"
    <3>1. PICK t \in rec.todo :
            /\ rec'.todo = rec.todo \ {t} /\ rec'.at = t /\ rec'.stage = "read"
            /\ rec'.shown = Shown(row[t].of)
      BY <2>3 DEF ReadRecord
    <3>2. t \in Turn /\ t # NoTurn
      BY <3>1, EndParts, RecordParts
    <3>3. rec'.shown # "generating" => ~Busy(row[t].of)'
      BY <1>1, <3>1 DEF Shown, Busy, turnVars
    <3> QED
      BY <1>1, <2>3, <3>1, <3>2, <3>3 DEF Pending, RecSound, turnVars, Busy
  <2> QED
    BY <2>1, <2>2, <2>3
<1>4. ServiceAlike
  BY <1>1, <1>3 DEF ServiceAlike, turnVars
<1> QED
  BY <1>1, <1>2, <1>3, <1>4, StandStill DEF turnVars

\* The reconciliation is done with the turn at hand.
LEMMA DoneSound ==
  ASSUME Sound, PermitSound, EndSound, Reconcile, RecordDone
  PROVE  /\ RecSound' /\ Pending' = rec.todo /\ ServiceAlike
         /\ rec.at \in Turn /\ rec.at \in Pending /\ ~turn[rec.at].live
         /\ row[rec.at].status # "none" /\ row[rec.at].of \in Delegation
         /\ svc \in {"on", "draining"}
<1>1. UNCHANGED <<svc, chain, sent, taken, call, gate, captured>>
  BY DEF Reconcile
<1>2. /\ rec'.todo = rec.todo /\ rec'.at = NoTurn /\ rec'.stage = "none"
      /\ rec.stage = "read" /\ rec.at # NoTurn
  BY DEF RecordDone, NoRecord, Reconcile
<1>3. svc \notin {"off", "emptying", "closing", "settling", "stopped"}
  BY <1>2 DEF EndSound, OffSound, RecSound, NoRecord
<1>4. svc \in {"on", "draining"}
  BY <1>3 DEF Sound, DelegationTypeOK, TurnTypeOK
<1>5. RecSound' /\ Pending' = rec.todo
  BY <1>1, <1>2, <1>4 DEF RecSound, Pending
<1>6. ServiceAlike
  BY <1>1, <1>5 DEF ServiceAlike, Pending
<1>7. rec.at \in Turn /\ rec.at \in Pending /\ ~turn[rec.at].live /\ row[rec.at].status # "none"
  BY <1>2, AtHand DEF Pending, PermitSound, PendingIsUnlisted
<1> QED
  BY <1>4, <1>5, <1>6, <1>7, EndParts

LEMMA RecordGoneEnds ==
  ASSUME Sound, PermitSound, EndSound, Reconcile, RecordGone(rec.at)
  PROVE  EndSound'
<1>1. RecordDone /\ UNCHANGED <<row, bound, svc, turn, child, sent, taken, lost>>
  BY DEF Reconcile, RecordGone
<1>2. RecSound' /\ ServiceAlike /\ svc # "off"
  BY <1>1, DoneSound
<1> QED
  BY <1>1, <1>2, StandStill


\* A turn that cannot be taken up leaves its row: no child works for it, or its run is lost.
LEMMA RecordInterruptedEnds ==
  ASSUME Sound, PermitSound, EndSound, Reconcile, RecordInterrupted(rec.at)
  PROVE  EndSound'
<1>0. PICK t \in Turn, n \in Memory : t = rec.at /\ n = turn[t]
  BY AtHand, EndParts
<1>1. /\ RecordDone /\ RowEnds(t, "interrupted") /\ svc = "on" /\ IsActive(t)
      /\ UNCHANGED <<svc, chain, sent, taken, bound, turn, child>>
      /\ rec.shown = "none" \/ lost' = lost \union {t}
      /\ lost \subseteq lost'
  BY <1>0 DEF Reconcile, RecordInterrupted
<1>2. /\ RecSound' /\ ServiceAlike /\ t \in Turn /\ ~n.live
      /\ row[t].status # "none" /\ row[t].of \in Delegation
  BY <1>0, <1>1, DoneSound
<1>3. Becomes(t, n) /\ Onward(n, n)
  BY <1>0, <1>1, SoundParts DEF Becomes, Onward
<1>4. /\ \A q \in Turn \ {t} : row'[q] = row[q]
      /\ row'[t].status = "interrupted" /\ row'[t].of = row[t].of
      /\ row'[t].dispatched = row[t].dispatched
  BY <1>1, <1>2, SoundParts DEF RowEnds, Row
<1>5. Fits(t, n, row'[t], sent[t], taken[t], bound, svc)
  <2>1. Fits(t, n, row[t], sent[t], taken[t], bound, svc)
    BY <1>0 DEF EndSound, TurnsSound, TurnSound
  <2>2. ~UnderWay(n)
    BY <1>1, <1>2, <2>1 DEF Fits
  <2> QED
    BY <1>2, <1>4, <2>1, <2>2 DEF Fits
<1>6. Runs(t) => MayRun(t)'
  <2>1. SUFFICES ASSUME Runs(t) PROVE MayRun(t)'
    OBVIOUS
  <2>2. Busy(row[t].of)
    BY <2>1 DEF Runs, Busy
  <2>3. lost' = lost \union {t}
    BY <1>0, <1>1, <2>2 DEF EndSound, RecSound, Reconcile
  <2>4. MayRun(t) /\ ~ToCancel(t)
    BY <1>1, <1>2, <2>1, RunsOwn DEF ToCancel
  <2> QED
    BY <1>1, <1>2, <2>3, <2>4 DEF MayRun
<1>7. RecordedAfresh(t)
  BY <1>4 DEF RecordedAfresh
<1>8. \A d \in Delegation : ChildAlike(d)
  BY <1>1, <1>2, ChildrenAlike
<1> QED
  BY <1>0, <1>1, <1>2, <1>3, <1>4, <1>5, <1>6, <1>7, <1>8, RowMoves DEF Runs, ActiveStatuses

\* The child of a turn whose contract is not inherited is cancelled.
LEMMA RecordQuarantinedEnds ==
  ASSUME Sound, PermitSound, EndSound, Reconcile, RecordQuarantined(rec.at)
  PROVE  EndSound'
<1>0. PICK t \in Turn, d \in Delegation, n \in Memory :
        t = rec.at /\ d = row[t].of /\ n = turn[t]
  BY AtHand, EndParts
<1>1. /\ RecordDone /\ svc = "on"
      /\ UNCHANGED <<svc, chain, sent, taken, row, turn>>
      /\ child' = Cancelled(d) /\ bound \subseteq bound' /\ lost \subseteq lost'
  BY <1>0 DEF Reconcile, RecordQuarantined
<1>2. /\ RecSound' /\ ServiceAlike /\ t \in Turn /\ row[t].status # "none"
  BY <1>0, <1>1, DoneSound
<1>3. Becomes(t, n) /\ Onward(n, n)
  BY <1>0, <1>1, SoundParts DEF Becomes, Onward
<1>4. Fits(t, n, row[t], sent[t], taken[t], bound', svc)
  <2>1. Fits(t, n, row[t], sent[t], taken[t], bound, svc)
    BY <1>0 DEF EndSound, TurnsSound, TurnSound
  <2> QED
    BY <1>1, <2>1 DEF Fits
<1>5. RecordedAfresh(t)
  BY <1>1 DEF RecordedAfresh
<1>6. (\A e \in Delegation : ChildAlike(e)) /\ child'[d].status \notin Working
  BY <1>1, <1>2, ChildrenAlike
<1> QED
  BY <1>0, <1>1, <1>2, <1>3, <1>4, <1>5, <1>6, RowMoves DEF IsActive


\* The memory of a turn that is taken up fits its row, which was or becomes dispatched where
\* its child works.
LEMMA TakenUpFits ==
  ASSUME NEW t \in Turn, NEW m \in Memory, NEW r, NEW s, NEW k, NEW B,
         m.live, m.knows, m.settle = "no", ~m.aborted, m.step = "none", m.seen = NoTurn,
         m.lease = "suspended", m.runtime = rec.shown, rec.shown # "none",
         m.started <=> row[t].dispatched \/ rec.shown = "generating",
         r.status \in ActiveStatuses, r.of \in B,
         r.dispatched <=> row[t].dispatched \/ rec.shown = "generating"
  PROVE  /\ Fits(t, TakenUp(t, m), r, s, k, B, "on")
         /\ rec.shown = "generating"
            => LET n == TakenUp(t, m) IN n.runtime = "generating" /\ n.settle = "no" /\ ~n.aborted
<1> DEFINE n == TakenUp(t, m)
<1>1. r.status \notin {"none", "completed"}
  BY DEF ActiveStatuses
<1>2. CASE rec.shown = "generating"
  <2> DEFINE p == [m EXCEPT !.step = "readmit", !.lease = "acquiring"]
  <2>1. n = m \/ n = p
    BY <1>2 DEF TakenUp, Watched
  <2>2. /\ p.step = "readmit" /\ p.lease = "acquiring" /\ p.live = m.live /\ p.knows = m.knows
        /\ p.aborted = m.aborted /\ p.started = m.started /\ p.runtime = m.runtime
        /\ p.seen = m.seen /\ p.settle = m.settle /\ p.outcome = m.outcome
    BY DEF Memory, MemoryFields
  <2> HIDE DEF n, p
  <2>3. /\ n.step \in {"none", "readmit"} /\ n.lease \in {"suspended", "acquiring"}
        /\ n.live /\ n.knows /\ ~n.aborted /\ n.started /\ n.runtime = "generating"
        /\ n.seen = NoTurn /\ n.settle = "no"
    BY <1>2, <2>1, <2>2
  <2>4. Fits(t, n, r, s, k, B, "on")
    BY <1>1, <1>2, <2>3 DEF Fits, UnderWay, Early, Undelivered
  <2> QED
    BY <2>3, <2>4 DEF n
<1>3. CASE rec.shown # "generating" /\ ~row[t].dispatched
  <2> DEFINE p == [m EXCEPT !.runtime = "none", !.step = "admit", !.lease = "acquiring"]
  <2>1. n = p
    BY <1>3 DEF TakenUp
  <2>2. /\ p.step = "admit" /\ p.lease = "acquiring" /\ p.live = m.live /\ p.knows = m.knows
        /\ p.aborted = m.aborted /\ p.started = m.started /\ p.runtime = "none"
        /\ p.seen = m.seen /\ p.settle = m.settle /\ p.outcome = m.outcome
    BY DEF Memory, MemoryFields
  <2> HIDE DEF n, p
  <2>3. Fits(t, p, r, s, k, B, "on")
    BY <1>1, <1>3, <2>2 DEF Fits, UnderWay, Early, Undelivered
  <2> QED
    BY <1>3, <2>1, <2>3 DEF n
<1>4. CASE rec.shown # "generating" /\ row[t].dispatched
  <2> DEFINE o == IF rec.shown = "error" THEN "failed" ELSE "completed"
             p == Settling(m, o)
  <2>1. n = p
    BY <1>4 DEF TakenUp
  <2>2. /\ Alike(p, m) /\ p.aborted = m.aborted /\ p.settle = "lookup" /\ p.outcome = o
    BY SettlingAlike
  <2> HIDE DEF n, o, p
  <2>3. Fits(t, p, r, s, k, B, "on")
    BY <1>1, <1>4, <2>2 DEF Fits, UnderWay, Early, Undelivered, Alike
  <2> QED
    BY <1>4, <2>1, <2>3 DEF n
<1> QED
  BY <1>2, <1>3, <1>4

\* A child that works is watched, a handoff that was not recorded is sent, and a child that
\* rests ends its turn.
LEMMA RecordTakenEnds ==
  ASSUME Sound, PermitSound, EndSound, Reconcile, RecordTaken(rec.at)
  PROVE  EndSound'
<1>0. PICK t \in Turn, d \in Delegation : t = rec.at /\ d = row[t].of
  BY AtHand, EndParts
<1> DEFINE works == rec.shown = "generating"
           b == row[t].dispatched \/ works
           m == [NewMemory(d) EXCEPT !.knows = TRUE, !.started = b, !.runtime = rec.shown]
           n == TakenUp(t, m)
<1>1. /\ svc = "on" /\ rec.shown # "none" /\ IsActive(t) /\ bound' = bound \union {d}
      /\ Becomes(t, n) /\ UNCHANGED <<svc, chain, sent, taken, call, gate, captured, lost>>
  BY <1>0 DEF Reconcile, RecordTaken
<1>2. /\ row' = IF works /\ ~row[t].dispatched THEN MarkedAs(row, t, "running") ELSE row
      /\ child' = IF works /\ ~row[t].dispatched THEN [child EXCEPT ![d].fresh = FALSE] ELSE child
      /\ rec' = [rec EXCEPT !.stage = "settle"] \/ RecordDone
  BY <1>0, Zenon DEF RecordTaken
<1>3. /\ m \in Memory /\ m.live /\ m.knows /\ m.settle = "no" /\ ~m.aborted /\ m.step = "none"
      /\ m.seen = NoTurn /\ m.lease = "suspended" /\ m.runtime = rec.shown /\ (m.started <=> b)
  <2>1. rec.shown \in {"none", "idle", "generating", "error"}
    BY RecordParts DEF Record
  <2>2. b \in BOOLEAN
    OBVIOUS
  <2>3. /\ NewMemory(d) \in Memory /\ NewMemory(d).live /\ NewMemory(d).settle = "no"
        /\ ~NewMemory(d).aborted /\ NewMemory(d).step = "none" /\ NewMemory(d).seen = NoTurn
        /\ NewMemory(d).lease = "suspended"
    BY NewMemoryMemory DEF NewMemory, NoMemory
  <2> HIDE DEF b
  <2> QED
    BY <2>1, <2>2, <2>3 DEF Memory, MemoryFields
<1> HIDE DEF m
<1>4. n \in Memory
  BY <1>3, TakenUpMemory
<1>5. row[t] \in Row /\ row \in [Turn -> Row] /\ child \in [Delegation -> ChildSession]
      /\ row[t].dispatched \in BOOLEAN
  BY SoundParts DEF Row
<1>6. /\ \A q \in Turn \ {t} : row'[q] = row[q]
      /\ row'[t].status \in ActiveStatuses /\ row'[t].of = d /\ (row'[t].dispatched <=> b)
  <2>1. CASE works /\ ~row[t].dispatched
    <3>1. row' = [row EXCEPT ![t].status = "running", ![t].dispatched = TRUE]
      BY <1>2, <2>1 DEF MarkedAs
    <3> QED
      BY <1>0, <1>5, <2>1, <3>1 DEF Row, ActiveStatuses
  <2>2. CASE ~(works /\ ~row[t].dispatched)
    BY <1>0, <1>1, <1>2, <2>2 DEF IsActive
  <2> QED
    BY <2>1, <2>2
<1>7. /\ Fits(t, n, row'[t], sent[t], taken[t], bound', "on")
      /\ works => n.runtime = "generating" /\ n.settle = "no" /\ ~n.aborted
  BY <1>1, <1>3, <1>6, TakenUpFits
<1> HIDE DEF n
<1>8. /\ \A e \in Delegation : ChildAlike(e)
      /\ \A e \in Delegation : child'[e].status = child[e].status
      /\ RecordedAfresh(t)
  <2>1. CASE child' = child /\ row' = row
    BY <2>1 DEF ChildAlike, Busy, RecordedAfresh
  <2>2. CASE child' = [child EXCEPT ![d].fresh = FALSE]
    <3>1. ~child'[d].fresh
      BY <1>5, <2>2 DEF ChildSession
    <3>2. ASSUME NEW e \in Delegation
          PROVE  /\ child'[e].status = child[e].status /\ child'[e].turn = child[e].turn
                 /\ child'[e].answer = child[e].answer /\ (child'[e].fresh => child[e].fresh)
      BY <1>5, <2>2 DEF ChildSession
    <3> QED
      BY <1>0, <3>1, <3>2 DEF ChildAlike, Busy, Working, RecordedAfresh
  <2> QED
    BY <1>2, <2>1, <2>2
<1>9. Runs(t) => MayRun(t)'
  <2>1. SUFFICES ASSUME Runs(t) PROVE MayRun(t)'
    OBVIOUS
  <2>2. works
    BY <1>0, <1>1, <2>1 DEF EndSound, RecSound, Reconcile, Runs, Busy
  <2>3. turn'[t] = n
    BY <1>1, SoundParts DEF Becomes
  <2> QED
    BY <1>6, <1>7, <2>2, <2>3 DEF MayRun, IsActive
<1>10. /\ RecSound' /\ ServiceAlike
       /\ t \in Pending /\ row[t].status # "none"
  <2>1. rec'.stage # "read" /\ rec'.todo = rec.todo
    BY <1>2, RecordParts DEF RecordDone, NoRecord, Record
  <2>2. RecSound'
    BY <1>1, <2>1 DEF RecSound
  <2>3. ServiceAlike
    BY <1>1, <2>1 DEF ServiceAlike, Pending
  <2> QED
    BY <1>0, <1>1, <2>2, <2>3 DEF Pending, Reconcile, IsActive, ActiveStatuses
<1> QED
  BY <1>0, <1>1, <1>4, <1>6, <1>7, <1>8, <1>9, <1>10, RowMoves DEF Runs, ActiveStatuses

LEMMA ReconcilingEnds ==
  ASSUME Sound, PermitSound, EndSound, Reconciling
  PROVE  EndSound'
BY RecordReadEnds, RecordGoneEnds, RecordInterruptedEnds, RecordQuarantinedEnds, RecordTakenEnds
DEF Reconciling, Reconcile

-----------------------------------------------------------------------------
(* stop(), and the end of the app.                                         *)

\* Turns are aborted, settled or listed no more: what waits for them is not disturbed.
LEMMA WaitsStay ==
  ASSUME Sound, EndSound, UNCHANGED <<row, chain, gate, call, rec>>,
         \A q \in Turn :
           /\ turn'[q].step = turn[q].step /\ turn'[q].started = turn[q].started
           /\ turn'[q].runtime = turn[q].runtime
           /\ turn[q].aborted => turn'[q].aborted
           /\ turn'[q].settle = turn[q].settle \/ turn[q].settle = "no"
  PROVE  /\ ChainsSound' /\ GatesSound' /\ CallsSound'
         /\ \A t : GivenUp(t) => GivenUp(t)'
<1>1. Pending' = Pending
  BY DEF Pending
<1>2. ChainsSound'
  <2>1. SUFFICES ASSUME NEW d \in Delegation, NEW e \in Range(chain[d]) PROVE EntrySound(d, e)'
    BY DEF ChainsSound, ChainSound
  <2>2. EntrySound(d, e)
    BY DEF EndSound, ChainsSound, ChainSound
  <2>3. e[2] \in Turn
    BY EndParts DEF Queued
  <2> QED
    BY <1>1, <2>2, <2>3 DEF EntrySound, Delivered
<1>3. GatesSound'
  BY <1>1, NamedTurns DEF EndSound, GatesSound, GateSound, Delivered
<1>4. ASSUME NEW t, GivenUp(t) PROVE GivenUp(t)'
  BY <1>1, <1>4 DEF GivenUp
<1>5. CallsSound'
  BY <1>4 DEF EndSound, CallsSound, CallSound
<1> QED
  BY <1>2, <1>3, <1>4, <1>5

LEMMA StopBegins ==
  ASSUME Sound, EndSound, Stop
  PROVE  EndSound'
<1>1. /\ svc = "on" /\ svc' = "draining"
      /\ UNCHANGED <<row, bound, turn, chain, child, sent, taken, lost, call, gate, rec, captured>>
  BY DEF Stop, Moves
<1>2. ChainsSound' /\ GatesSound' /\ CallsSound'
  BY <1>1, WaitsStay
<1>3. TurnsSound' /\ ChildrenSound'
  BY <1>1
  DEF EndSound, TurnsSound, TurnSound, Fits, ChildrenSound, ChildSound, Busy, IsActive
<1>4. RunsSound' /\ CapturesSound' /\ RecSound' /\ OffSound'
  BY <1>1
  DEF EndSound, RunsSound, RunSound, MayRun, ToCancel, IsActive, CapturesSound, RecSound, Busy,
      OffSound
<1> QED
  BY <1>2, <1>3, <1>4 DEF EndSound

\* The children that work for a turn that is taken have still to be cancelled.
LEMMA StopTakesEnds ==
  ASSUME Sound, EndSound, StopTakes
  PROVE  EndSound'
<1> DEFINE listed == {t \in Turn : turn[t].live}
<1>1. /\ svc = "draining" /\ rec.at = NoTurn /\ rec.todo = {} /\ captured' = listed
      /\ svc' \in {"settling", "emptying"} /\ (listed # {} => svc' = "emptying")
      /\ turn' = [t \in Turn |-> IF t \in listed THEN Aborted(turn[t]) ELSE turn[t]]
      /\ UNCHANGED <<row, bound, chain, child, sent, taken, lost, call, gate, rec>>
  BY DEF StopTakes, Moves
<1>2. \A q \in Turn : turn[q] \in Memory
  BY EndParts
<1>3. ASSUME NEW q \in Turn
      PROVE  /\ Alike(turn'[q], turn[q]) /\ (turn[q].aborted => turn'[q].aborted)
             /\ turn'[q].settle = turn[q].settle /\ turn'[q].outcome = turn[q].outcome
             /\ turn'[q].lease = "released" => turn[q].lease = "released"
             /\ turn'[q] \in Memory
             /\ q \in listed => turn'[q].aborted
             /\ q \notin listed => turn'[q] = turn[q]
  BY <1>1, <1>2, AbortedAlike, AbortedMemory DEF Alike
<1>4. ASSUME NEW q \in listed PROVE row[q].status # "none"
  BY Awake
<1> HIDE DEF listed
<1>5. ChainsSound' /\ GatesSound' /\ CallsSound'
  BY <1>1, <1>3, WaitsStay DEF Alike
<1>6. TurnsSound'
  <2>1. SUFFICES ASSUME NEW q \in Turn PROVE TurnSound(q)'
    BY DEF TurnsSound
  <2>2. Fits(q, turn[q], row[q], sent[q], taken[q], bound, svc')
    BY <1>1 DEF EndSound, TurnsSound, TurnSound, Fits
  <2>3. CASE q \in listed
    BY <1>1, <1>2, <1>3, <1>4, <2>2, <2>3, AlikeFits DEF TurnSound
  <2>4. CASE q \notin listed
    BY <1>1, <1>3, <2>2, <2>4 DEF TurnSound
  <2> QED
    BY <2>3, <2>4
<1>7. ChildrenSound'
  BY <1>1 DEF EndSound, ChildrenSound, ChildSound, Busy, IsActive
<1>8. RunsSound'
  <2>1. SUFFICES ASSUME NEW d \in Delegation, child[d].status \in Working, NEW q, q = child[d].turn
                 PROVE  MayRun(q)'
    BY <1>1 DEF RunsSound, RunSound
  <2>2. q \in Turn /\ MayRun(q) /\ ~ToCancel(q)
    BY <1>1, <2>1, EndParts
    DEF EndSound, ChildrenSound, ChildSound, RunsSound, RunSound, Busy, ToCancel
  <2> QED
    BY <1>1, <1>3, <2>2 DEF MayRun, ToCancel, IsActive, Alike
<1>9. CapturesSound' /\ RecSound' /\ OffSound'
  <2>1. rec.stage # "read" /\ Pending' = {}
    BY <1>1 DEF EndSound, RecSound, Pending
  <2>2. listed \subseteq Turn
    BY DEF listed
  <2> QED
    BY <1>1, <1>3, <1>4, <2>1, <2>2 DEF CapturesSound, GivenUp, RecSound, OffSound
<1> QED
  BY <1>5, <1>6, <1>7, <1>8, <1>9 DEF EndSound

\* No child works any more for a turn that was taken.
LEMMA StopCancelsEnds ==
  ASSUME Sound, EndSound, StopCancels
  PROVE  EndSound'
<1> DEFINE cancels(d) == d \in bound /\ \E t \in captured : row[t].of = d
<1>1. /\ svc = "emptying" /\ svc' = "closing"
      /\ child' = [d \in Delegation |-> IF cancels(d) THEN Cancelled(d)[d] ELSE child[d]]
      /\ UNCHANGED <<row, bound, turn, chain, sent, taken, lost, call, gate, rec, captured>>
  BY DEF StopCancels, Moves, serviceVars
<1>2. ASSUME NEW d \in Delegation
      PROVE  /\ child'[d].turn = child[d].turn /\ child'[d].answer = child[d].answer
             /\ child'[d].fresh = child[d].fresh
             /\ Busy(d)' => Busy(d)
             /\ child'[d].status \in Working => child[d].status \in Working /\ ~cancels(d)
  <2>1. child[d] \in ChildSession /\ child \in [Delegation -> ChildSession]
    BY SoundParts
  <2>2. CASE ~cancels(d)
    <3>1. child'[d] = child[d]
      BY <1>1, <2>2
    <3> QED
      BY <2>2, <3>1 DEF Busy
  <2>3. CASE cancels(d) /\ child[d].status \in Working
    <3>1. child'[d] = [child[d] EXCEPT !.status = "cancelling"]
      BY <1>1, <2>1, <2>3 DEF Cancelled
    <3> QED
      BY <2>1, <2>3, <3>1 DEF Busy, Working, ChildSession
  <2>4. CASE cancels(d) /\ child[d].status \notin Working
    <3>1. child'[d] = child[d]
      BY <1>1, <2>4 DEF Cancelled
    <3> QED
      BY <2>4, <3>1 DEF Busy
  <2> QED
    BY <2>2, <2>3, <2>4
<1>3. ChainsSound' /\ GatesSound' /\ CallsSound' /\ \A t : GivenUp(t) => GivenUp(t)'
  BY <1>1, WaitsStay
<1>4. TurnsSound'
  BY <1>1 DEF EndSound, TurnsSound, TurnSound, Fits
<1>5. ChildrenSound'
  <2>1. SUFFICES ASSUME NEW d \in Delegation PROVE ChildSound(d)'
    BY DEF ChildrenSound
  <2>2. ChildSound(d)
    BY DEF EndSound, ChildrenSound
  <2> HIDE DEF cancels
  <2> QED
    BY <1>1, <1>2, <2>2 DEF ChildSound, IsActive
<1>6. RunsSound'
  <2>1. SUFFICES ASSUME NEW d \in Delegation, child'[d].status \in Working,
                        NEW q, q = child[d].turn
                 PROVE  MayRun(q)'
    BY <1>2 DEF RunsSound, RunSound
  <2>2. child[d].status \in Working /\ ~cancels(d)
    BY <1>2, <2>1
  <2>3. q \in Turn /\ MayRun(q) /\ row[q].of = d /\ d \in bound
    BY <2>1, <2>2, EndParts
    DEF EndSound, ChildrenSound, ChildSound, RunsSound, RunSound, Busy
  <2>4. q \notin captured
    BY <2>2, <2>3
  <2> QED
    BY <1>1, <2>3, <2>4 DEF MayRun, ToCancel, IsActive
<1>7. CapturesSound' /\ RecSound' /\ OffSound'
  BY <1>1, <1>3 DEF EndSound, CapturesSound, RecSound, OffSound
<1> QED
  BY <1>3, <1>4, <1>5, <1>6, <1>7 DEF EndSound

\* The turns that were taken are settled as interrupted: none of them is in its delivery.
LEMMA StopSettlesEnds ==
  ASSUME Sound, EndSound, StopSettles
  PROVE  EndSound'
<1>1. /\ svc = "closing" /\ svc' = "settling"
      /\ \A t \in captured : turn[t].step \notin Acquiring \union HandingOff
      /\ turn' = [t \in Turn |->
           IF t \in captured THEN Settling(turn[t], "interrupted") ELSE turn[t]]
      /\ UNCHANGED <<row, bound, chain, child, sent, taken, lost, call, gate, rec, captured>>
  BY DEF StopSettles, Moves, serviceVars
<1>2. \A q \in Turn : turn[q] \in Memory
  BY EndParts
<1>3. ASSUME NEW q \in captured
      PROVE  q \in Turn /\ row[q].status # "none" /\ (turn[q].settle = "no" => turn[q].aborted)
  BY DEF EndSound, CapturesSound, GivenUp
<1>4. ASSUME NEW q \in Turn
      PROVE  /\ Alike(turn'[q], turn[q]) /\ turn'[q].aborted = turn[q].aborted
             /\ turn[q].settle # "no" => turn'[q] = turn[q]
             /\ turn'[q] \in Memory
             /\ q \in captured /\ turn[q].settle = "no"
                => turn'[q].settle = "lookup" /\ turn'[q].outcome = "interrupted"
             /\ q \notin captured => turn'[q] = turn[q]
  BY <1>1, <1>2, SettlingAlike, SettlingMemory DEF Alike, Ended
<1>5. ChainsSound' /\ GatesSound' /\ CallsSound' /\ \A t : GivenUp(t) => GivenUp(t)'
  BY <1>1, <1>4, WaitsStay DEF Alike
<1>6. TurnsSound'
  <2>1. SUFFICES ASSUME NEW q \in Turn PROVE TurnSound(q)'
    BY DEF TurnsSound
  <2>2. Fits(q, turn[q], row[q], sent[q], taken[q], bound, svc')
    BY <1>1 DEF EndSound, TurnsSound, TurnSound, Fits
  <2>3. CASE q \in captured /\ turn[q].settle = "no"
    <3>1. /\ turn[q].aborted /\ turn'[q].settle = "lookup" /\ turn'[q].outcome = "interrupted"
          /\ turn[q].step # "send" /\ row[q].status # "none"
      BY <1>1, <1>3, <1>4, <2>3 DEF HandingOff
    <3>2. Fits(q, turn'[q], row[q], sent[q], taken[q], bound, svc')
      BY <1>2, <1>4, <2>2, <2>3, <3>1, AlikeFits
    <3> QED
      BY <1>1, <3>2 DEF TurnSound
  <2>4. CASE q \notin captured \/ turn[q].settle # "no"
    BY <1>1, <1>4, <2>2, <2>4 DEF TurnSound
  <2> QED
    BY <2>3, <2>4
<1>7. ChildrenSound'
  BY <1>1 DEF EndSound, ChildrenSound, ChildSound, Busy, IsActive
<1>8. RunsSound'
  <2>1. SUFFICES ASSUME NEW d \in Delegation, child[d].status \in Working, NEW q, q = child[d].turn
                 PROVE  MayRun(q)'
    BY <1>1 DEF RunsSound, RunSound
  <2>2. q \in Turn /\ MayRun(q) /\ ~ToCancel(q)
    BY <1>1, <2>1, EndParts
    DEF EndSound, ChildrenSound, ChildSound, RunsSound, RunSound, Busy, ToCancel
  <2>3. q \notin captured
    BY <1>1, <1>3, <2>2 DEF MayRun, HandingOff
  <2> QED
    BY <1>1, <1>4, <2>2, <2>3 DEF MayRun, IsActive
<1>9. CapturesSound' /\ RecSound' /\ OffSound'
  BY <1>1, <1>5 DEF EndSound, CapturesSound, RecSound, OffSound
<1> QED
  BY <1>5, <1>6, <1>7, <1>8, <1>9 DEF EndSound


\* Nothing is listed any more.
LEMMA StopEndsEnds ==
  ASSUME Sound, EndSound, StopEnds
  PROVE  EndSound'
<1>1. /\ svc = "settling" /\ svc' = "stopped" /\ captured' = {}
      /\ turn' = [t \in Turn |-> [turn[t] EXCEPT !.live = FALSE]]
      /\ UNCHANGED <<row, bound, chain, child, sent, taken, lost, call, gate, rec>>
  BY DEF StopEnds, Moves
<1>2. ASSUME NEW q \in Turn
      PROVE  /\ turn'[q].step = turn[q].step /\ turn'[q].knows = turn[q].knows
             /\ turn'[q].aborted = turn[q].aborted /\ turn'[q].started = turn[q].started
             /\ turn'[q].runtime = turn[q].runtime /\ turn'[q].seen = turn[q].seen
             /\ turn'[q].lease = turn[q].lease /\ turn'[q].settle = turn[q].settle
             /\ turn'[q].outcome = turn[q].outcome /\ ~turn'[q].live
             /\ turn[q] = NoMemory => turn'[q] = NoMemory
  <2>1. turn[q] \in Memory /\ turn'[q] = [turn[q] EXCEPT !.live = FALSE]
    BY <1>1, EndParts
  <2>2. \A m \in Memory : m.live = FALSE => [m EXCEPT !.live = FALSE] = m
    BY DEF Memory, MemoryFields
  <2>3. turn[q] = NoMemory => turn'[q] = NoMemory
    <3>1. NoMemory \in Memory /\ NoMemory.live = FALSE
      BY NoMemoryMemory DEF NoMemory
    <3> QED
      BY <2>1, <2>2, <3>1
  <2>4. /\ turn'[q].step = turn[q].step /\ turn'[q].knows = turn[q].knows
        /\ turn'[q].aborted = turn[q].aborted /\ turn'[q].started = turn[q].started
        /\ turn'[q].runtime = turn[q].runtime /\ turn'[q].seen = turn[q].seen
        /\ turn'[q].lease = turn[q].lease /\ turn'[q].settle = turn[q].settle
        /\ turn'[q].outcome = turn[q].outcome /\ ~turn'[q].live
    BY <2>1 DEF Memory, MemoryFields
  <2> QED
    BY <2>3, <2>4
<1>3. ChainsSound' /\ GatesSound' /\ CallsSound'
  BY <1>1, <1>2, WaitsStay
<1>4. TurnsSound'
  <2>1. SUFFICES ASSUME NEW q \in Turn
                 PROVE  Fits(q, turn'[q], row[q], sent[q], taken[q], bound, "stopped")
    BY <1>1 DEF TurnsSound, TurnSound
  <2>2. Fits(q, turn[q], row[q], sent[q], taken[q], bound, svc)
    BY DEF EndSound, TurnsSound, TurnSound
  <2>3. UnderWay(turn'[q]) <=> UnderWay(turn[q])
    BY <1>2 DEF UnderWay
  <2> QED
    BY <1>2, <2>2, <2>3 DEF Fits
<1>5. ChildrenSound'
  BY <1>1 DEF EndSound, ChildrenSound, ChildSound, Busy, IsActive
<1>6. RunsSound'
  <2>1. SUFFICES ASSUME NEW d \in Delegation, child[d].status \in Working, NEW q, q = child[d].turn
                 PROVE  MayRun(q)'
    BY <1>1 DEF RunsSound, RunSound
  <2>2. q \in Turn /\ MayRun(q) /\ ~ToCancel(q)
    BY <1>1, <2>1, EndParts
    DEF EndSound, ChildrenSound, ChildSound, RunsSound, RunSound, Busy, ToCancel
  <2> QED
    BY <1>1, <1>2, <2>2 DEF MayRun, IsActive
<1>7. CapturesSound' /\ RecSound' /\ OffSound'
  BY <1>1 DEF EndSound, CapturesSound, RecSound, OffSound
<1> QED
  BY <1>3, <1>4, <1>5, <1>6, <1>7 DEF EndSound

\* Only rows and children are left: a run that goes on waits for its user, and its turn is
\* active, or was ended by a stop that had still to cancel it.
LEMMA RestartEnds ==
  ASSUME Sound, EndSound, Restart
  PROVE  EndSound'
<1>1. /\ svc' = "off" /\ captured' = {} /\ lost' = lost \union captured
      /\ \A t \in Turn : turn'[t] = NoMemory
      /\ \A d \in Delegation : chain'[d] = <<>> /\ gate'[d].stage = "none"
      /\ \A c \in Caller : call'[c].stage = "none"
      /\ rec' = NoRecord /\ rec'.stage = "none" /\ UNCHANGED <<row, bound, sent, taken>>
  BY DEF Restart, NoGate, NoCall, NoRecord
<1>2. ASSUME NEW d \in Delegation
      PROVE  /\ child'[d].turn = child[d].turn
             /\ \/ child'[d] = child[d] /\ child[d].status \notin {"generating", "cancelling"}
                \/ /\ Busy(d) /\ child'[d].status = "idle"
                   /\ \/ child'[d].answer = child[d].turn
                      \/ child'[d].answer = child[d].answer /\ (child'[d].fresh => child[d].fresh)
  <2>1. child[d] \in ChildSession
    BY EndParts
  <2>2. PICK answered \in [Delegation -> BOOLEAN] :
          child' = [e \in Delegation |->
            IF child[e].status \in {"generating", "cancelling"}
              THEN [child[e] EXCEPT !.status = "idle",
                                    !.answer = IF answered[e] THEN child[e].turn ELSE @,
                                    !.fresh = @ \/ answered[e]]
              ELSE child[e]]
    BY DEF Restart
  <2>3. CASE child[d].status \notin {"generating", "cancelling"}
    BY <2>2, <2>3
  <2>4. CASE child[d].status \in {"generating", "cancelling"}
    <3> DEFINE c == [child[d] EXCEPT !.status = "idle",
                                     !.answer = IF answered[d] THEN child[d].turn ELSE @,
                                     !.fresh = @ \/ answered[d]]
    <3>1. child'[d] = c
      BY <2>2, <2>4
    <3>2. /\ c.status = "idle" /\ c.turn = child[d].turn
          /\ answered[d] => c.answer = child[d].turn
          /\ ~answered[d] => c.answer = child[d].answer /\ c.fresh = (child[d].fresh \/ answered[d])
      BY <2>1 DEF ChildSession
    <3> HIDE DEF c
    <3>3. Busy(d)
      BY <2>4 DEF Busy, Working
    <3> QED
      BY <3>1, <3>2, <3>3
  <2> QED
    BY <2>3, <2>4
<1>3. TurnsSound'
  <2>1. ASSUME NEW t \in Turn
        PROVE  Fits(t, NoMemory, row[t], sent[t], taken[t], bound, "off")
    <3>1. row[t].status = "completed" => taken[t] = t
      BY DEF EndSound, TurnsSound, TurnSound, Fits
    <3> QED
      BY <3>1 DEF Fits, UnderWay, NoMemory, Early, Undelivered
  <2> QED
    BY <1>1, <2>1 DEF TurnsSound, TurnSound
<1>4. ChildrenSound'
  <2>1. SUFFICES ASSUME NEW d \in Delegation PROVE ChildSound(d)'
    BY DEF ChildrenSound
  <2>2. ChildSound(d)
    BY DEF EndSound, ChildrenSound
  <2> QED
    BY <1>1, <1>2, <2>2 DEF ChildSound, Busy, Working, IsActive
<1>5. RunsSound'
  <2>1. SUFFICES ASSUME NEW d \in Delegation, child'[d].status \in Working,
                        NEW q, q = child[d].turn
                 PROVE  MayRun(q)'
    BY <1>2 DEF RunsSound, RunSound
  <2>2. child[d].status \in Working
    BY <1>2, <2>1 DEF Working
  <2>3. q \in Turn /\ MayRun(q)
    BY <2>1, <2>2, EndParts
    DEF EndSound, ChildrenSound, ChildSound, RunsSound, RunSound, Busy
  <2>4. /\ NoMemory.runtime = "none" /\ NoMemory.settle = "no" /\ ~NoMemory.aborted
    BY DEF NoMemory
  <2> QED
    BY <1>1, <2>3, <2>4 DEF MayRun, ToCancel, IsActive
<1>6. ChainsSound' /\ GatesSound' /\ CallsSound' /\ CapturesSound' /\ RecSound' /\ OffSound'
  <2>1. Range(<<>>) = {}
    BY DEF Range
  <2>2. NoRecord.at = NoTurn /\ NoRecord.todo = {}
    BY DEF NoRecord
  <2> QED
    BY <1>1, <2>1, <2>2
    DEF ChainsSound, ChainSound, GatesSound, GateSound, CallsSound, CallSound, CapturesSound,
        RecSound, OffSound
<1> QED
  BY <1>3, <1>4, <1>5, <1>6 DEF EndSound

-----------------------------------------------------------------------------
(* The whole.                                                              *)

LEMMA InitEnds == Init => EndSound
<1> SUFFICES ASSUME Init PROVE EndSound
  OBVIOUS
<1>1. /\ svc = "off" /\ captured = {} /\ rec = NoRecord /\ rec.stage = "none"
      /\ \A t \in Turn : /\ turn[t] = NoMemory /\ row[t].status = "none" /\ ~row[t].dispatched
                         /\ sent[t] = 0 /\ ~IsActive(t)
      /\ \A d \in Delegation : /\ chain[d] = <<>> /\ gate[d].stage = "none"
                               /\ child[d].turn = NoTurn /\ ~Busy(d)
      /\ \A c \in Caller : call[c].stage = "none"
  <2>1. /\ svc = "off" /\ captured = {} /\ rec = NoRecord
        /\ \A t \in Turn : turn[t] = NoMemory /\ row[t] = NoRow /\ sent[t] = 0
        /\ \A d \in Delegation : chain[d] = <<>> /\ gate[d] = NoGate /\ child[d] = NoChild
        /\ \A c \in Caller : call[c] = NoCall
    BY DEF Init
  <2>2. NoRow.status = "none" /\ ~NoRow.dispatched /\ NoGate.stage = "none"
        /\ NoCall.stage = "none" /\ NoRecord.stage = "none" /\ NoChild.turn = NoTurn
        /\ NoChild.status = "none"
    BY DEF NoRow, NoGate, NoCall, NoRecord, NoChild
  <2>3. "none" \notin ActiveStatuses /\ "none" \notin Working \union {"cancelling"}
    BY DEF ActiveStatuses, Working
  <2>4. \A t \in Turn : /\ turn[t] = NoMemory /\ row[t].status = "none" /\ ~row[t].dispatched
                         /\ sent[t] = 0 /\ ~IsActive(t)
    BY <2>1, <2>2, <2>3 DEF IsActive
  <2>5. \A d \in Delegation : /\ chain[d] = <<>> /\ gate[d].stage = "none"
                               /\ child[d].turn = NoTurn /\ ~Busy(d)
    BY <2>1, <2>2, <2>3 DEF Busy
  <2>6. rec.stage = "none"
    BY <2>1, <2>2
  <2>7. \A c \in Caller : call[c].stage = "none"
    BY <2>1, <2>2
  <2> QED
    BY <2>1, <2>4, <2>5, <2>6, <2>7
<1>2. TurnsSound
  <2>1. /\ ~NoMemory.live /\ NoMemory.step = "none" /\ ~NoMemory.knows /\ ~NoMemory.started
        /\ NoMemory.seen = NoTurn /\ NoMemory.lease = "suspended" /\ NoMemory.settle = "no"
    BY DEF NoMemory
  <2> QED
    BY <1>1, <2>1 DEF TurnsSound, TurnSound, Fits, UnderWay, Early, Undelivered
<1>3. ChildrenSound /\ RunsSound
  BY <1>1 DEF ChildrenSound, ChildSound, RunsSound, RunSound, Busy
<1>4. ChainsSound /\ GatesSound /\ CallsSound /\ CapturesSound /\ RecSound /\ OffSound
  BY <1>1
  DEF ChainsSound, ChainSound, Range, GatesSound, GateSound, CallsSound, CallSound,
      CapturesSound, RecSound, OffSound
<1> QED
  BY <1>2, <1>3, <1>4 DEF EndSound

LEMMA NextEnds == Sound /\ PermitSound /\ EndSound /\ [Next]_vars => EndSound'
<1> SUFFICES ASSUME Sound, PermitSound, EndSound, [Next]_vars PROVE EndSound'
  OBVIOUS
<1>1. ASSUME NEW c \in Caller, Spawn(c) \/ FollowUp(c) \/ Interrupt(c) \/ Calls(c)
      PROVE  EndSound'
  BY <1>1, CallsEnd
<1>2. ASSUME NEW t \in Turn, Task(t) \/ Refuse(t) \/ SendFails(t), UNCHANGED serviceVars
      PROVE  EndSound'
  BY <1>2, TasksEnd
<1>3. ASSUME NEW d \in Delegation, Boundary(d) \/ Child(d)
      PROVE  EndSound'
  BY <1>3, BoundaryEnds
<1>4. CASE Start \/ Reconciling
  BY <1>4, StartEnds, ReconcilingEnds
<1>5. CASE Stop \/ Stopping \/ Restart
  BY <1>5, StopBegins, StopTakesEnds, StopCancelsEnds, StopSettlesEnds, StopEndsEnds, RestartEnds
  DEF Stopping
<1>6. CASE UNCHANGED vars
  BY <1>6
  DEF vars, turnVars, serviceVars, EndSound, TurnsSound, TurnSound, ChildrenSound, ChildSound,
      RunsSound, RunSound, MayRun, ToCancel, ChainsSound, ChainSound, EntrySound, Delivered,
      Pending, GatesSound, GateSound, CallsSound, CallSound, GivenUp, CapturesSound, RecSound,
      OffSound, IsActive, Busy
<1> QED
  BY <1>1, <1>2, <1>3, <1>4, <1>5, <1>6 DEF Next

\* No child works on for nobody: while the service is on, or after it was stopped or the app
\* restarted, the turn a working child is for has an active row, or was ended by a
\* reconciliation that failed or a stop that was cut off.
THEOREM NoRunIsOrphaned == Spec => []NoOrphanedRun
<1>1. EndSound => NoOrphanedRun
  BY DEF EndSound, RunsSound, RunSound, MayRun, ToCancel, NoOrphanedRun
<1> QED
  BY <1>1, InitSound, NextSound, InitPermits, NextPermits, InitEnds, NextEnds, PTL DEF Spec

\* A turn is completed with the answer of its own run, never with one that an earlier turn
\* left in the same child, also when it is settled after a restart.
THEOREM CompletedByOwnRun == Spec => []CompletedByItsOwnRun
<1>1. EndSound => CompletedByItsOwnRun
  BY DEF EndSound, TurnsSound, TurnSound, Fits, CompletedByItsOwnRun
<1> QED
  BY <1>1, InitSound, NextSound, InitPermits, NextPermits, InitEnds, NextEnds, PTL DEF Spec
=============================================================================
