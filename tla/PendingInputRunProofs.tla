-------------------------- MODULE PendingInputRunProofs --------------------------
(***************************************************************************)
(* Every state of a session has the shape TypeOK gives it, for any number  *)
(* of submissions and any capacity.  First, one lemma per transaction of   *)
(* the store: it maps a database to a database, and opens no interaction.  *)
(* Then the gate, wakeup and turn operators the actions share, and one     *)
(* lemma per action.                                                       *)
(*                                                                         *)
(* The lease belongs to exactly one launched turn, and a session never     *)
(* runs two turns.  Only Launch takes the lease for a turn, only a finally *)
(* block gives it back, and no wakeup, admission call or Stop in between   *)
(* touches it.                                                             *)
(*                                                                         *)
(* That the lease keeps launched turns apart is not enough: the run that   *)
(* resumes a paused answer takes no lease.  What keeps it apart is the     *)
(* status.  A run keeps the session generating until its controller is     *)
(* cleared, an interaction waits only where no run is under way, and a     *)
(* turn is launched only into a session that is neither generating nor     *)
(* waiting for an interaction.                                             *)
(***************************************************************************)
EXTENDS PendingInputProperties, FiniteSetTheorems, TLAPS

-----------------------------------------------------------------------------
(* The store, in the order of the operators in PendingInputStore. *)

\* The rows of a session are finitely many, so a queue order is a natural number.
LEMMA InputSetsAreFinite ==
    ASSUME NEW S \in SUBSET Inputs
    PROVE  IsFiniteSet(S) /\ Cardinality(S) \in Nat
<1>1. IsFiniteSet(Inputs)
    BY StoreAssumption, FS_Interval DEF Inputs
<1> QED
    BY <1>1, FS_Subset, FS_CardinalityType

LEMMA QueueRowsAreInputs ==
    ASSUME NEW d
    PROVE  QueueRows(d) \in SUBSET Inputs /\ Cardinality(QueueRows(d)) \in Nat
<1>1. QueueRows(d) \in SUBSET Inputs
    BY DEF QueueRows
<1> QED
    BY <1>1, InputSetsAreFinite

\* The empty database is one.
LEMMA EmptyDatabaseType == EmptyDatabase \in Databases
BY DEF EmptyDatabase, Databases, RowStates, MessageStates, Receipts, AssistantStates

LEMMA EnqueueType ==
    ASSUME NEW d \in Databases, NEW u \in Inputs, NEW s \in RowStates
    PROVE  Enqueue(d, u, s) \in Databases
<1>1. Cardinality(QueueRows(d)) + 1 \in Nat
    BY QueueRowsAreInputs
<1> QED
    BY <1>1 DEF Enqueue, Databases

LEMMA ResequenceType ==
    ASSUME NEW d \in Databases
    PROVE  Resequence(d) \in Databases
<1> DEFINE place(i) == {j \in QueueRows(d) : d.order[j] <= d.order[i]}
<1>1. \A i \in Inputs : Cardinality(place(i)) \in Nat
  <2> TAKE i \in Inputs
  <2>1. place(i) \in SUBSET Inputs
      BY QueueRowsAreInputs
  <2> QED
      BY <2>1, InputSetsAreFinite
<1>2. [i \in Inputs |-> IF i \in QueueRows(d) THEN Cardinality(place(i)) ELSE 0] \in [Inputs -> Nat]
    BY <1>1
<1> QED
    BY <1>2 DEF Resequence, Databases

LEMMA SetStateType ==
    ASSUME NEW d \in Databases, NEW i, NEW s \in RowStates
    PROVE  SetState(d, i, s) \in Databases
BY DEF SetState, Databases

LEMMA ReleaseType ==
    ASSUME NEW d \in Databases, NEW i, NEW s \in RowStates
    PROVE  Release(d, i, s) \in Databases
BY DEF Release, Databases

LEMMA DeleteRowType ==
    ASSUME NEW d \in Databases, NEW i
    PROVE  DeleteRow(d, i) \in Databases
<1>1. [d EXCEPT !.state[i] = "none", !.msgs[i] = {}] \in Databases
    BY DEF Databases, RowStates
<1> QED
    BY <1>1, ResequenceType DEF DeleteRow

LEMMA MovesType ==
    ASSUME NEW d \in Databases, NEW i, NEW j, NEW e \in Moves(d, i, j)
    PROVE  e \in Databases
<1> DEFINE W == WaitingQueue(d)
           Slots == {d.order[w] : w \in W}
<1>1. W \in SUBSET Inputs
    BY DEF WaitingQueue, QueueRows
<1>2. Slots \in SUBSET Nat
    BY <1>1 DEF Databases
<1>3. PICK o \in [W -> Slots] :
          e = [d EXCEPT !.order = [k \in Inputs |-> IF k \in W THEN o[k] ELSE d.order[k]]]
    BY DEF Moves
<1> DEFINE order == [k \in Inputs |-> IF k \in W THEN o[k] ELSE d.order[k]]
<1>4. order \in [Inputs -> Nat]
    BY <1>1, <1>2, <1>3 DEF Databases
<1>5. e = [d EXCEPT !.order = order]
    BY <1>3
<1> HIDE DEF order
<1> QED
    BY <1>4, <1>5 DEF Databases
-----------------------------------------------------------------------------
(* Rows and the messages they promise. *)

LEMMA WriteUserMessageType ==
    ASSUME NEW d \in Databases, NEW u, NEW s \in MessageStates, NEW r \in Receipts
    PROVE  WriteUserMessage(d, u, s, r) \in Databases
<1>1. d.tail + 1 \in Nat
    BY DEF Databases
<1> QED
    BY <1>1 DEF WriteUserMessage, Databases

LEMMA WriteAssistantType ==
    ASSUME NEW d \in Databases, NEW i
    PROVE  WriteAssistant(d, i) \in Databases
<1>1. d.tail + 1 \in Nat
    BY DEF Databases
<1> QED
    BY <1>1 DEF WriteAssistant, Databases, AssistantStates

LEMMA SetAssistantType ==
    ASSUME NEW d \in Databases, NEW i, NEW s \in AssistantStates
    PROVE  SetAssistant(d, i, s) \in Databases
BY DEF SetAssistant, Databases

LEMMA DeleteAssistantType ==
    ASSUME NEW d \in Databases, NEW i
    PROVE  DeleteAssistant(d, i) \in Databases
BY DEF DeleteAssistant, Databases, AssistantStates

LEMMA AppendUserFactType ==
    ASSUME NEW d \in Databases, NEW i \in Inputs
    PROVE  AppendUserFact(d, i) \in Databases
<1> DEFINE w == WriteUserMessage(d, i, "sent", "none")
<1>1. w \in Databases
    BY WriteUserMessageType DEF MessageStates, Receipts
<1>2. AppendUserFact(d, i) = [w EXCEPT !.msgs[i] = {i}]
    BY DEF AppendUserFact
<1> HIDE DEF w
<1>3. {i} \in SUBSET Inputs
    OBVIOUS
<1>4. [w EXCEPT !.msgs[i] = {i}] \in Databases
    BY <1>1, <1>3 DEF Databases
<1> QED
    BY <1>2, <1>4

LEMMA MaterializeType ==
    ASSUME NEW d \in Databases
    PROVE  Materialize(d) \in Databases
<1>1. CASE Unmaterialized(d) = {}
    BY <1>1 DEF Materialize
<1>2. CASE Unmaterialized(d) # {}
  <2>1. (CHOOSE c \in Unmaterialized(d) : TRUE) \in Inputs
      BY <1>2 DEF Unmaterialized, QueueRows
  <2> QED
      BY <1>2, <2>1, AppendUserFactType DEF Materialize
<1> QED
    BY <1>1, <1>2

LEMMA AcceptSteerType ==
    ASSUME NEW d \in Databases, NEW u \in Inputs, NEW open
    PROVE  AcceptSteer(d, u, open) \in Databases
<1> DEFINE w == WriteUserMessage(d, u, "pending", "unread")
<1>1. w \in Databases
    BY WriteUserMessageType DEF MessageStates, Receipts
<1> HIDE DEF w
<1>2. CASE IsOpenSteer(d, open)
  <2>1. d.msgs[open] \cup {u} \in SUBSET Inputs
      BY <1>2 DEF IsOpenSteer, Databases
  <2>2. [w EXCEPT !.msgs[open] = d.msgs[open] \cup {u}] \in Databases
      BY <1>1, <2>1 DEF Databases
  <2> QED
      BY <1>2, <2>2 DEF AcceptSteer, w
<1>3. CASE ~IsOpenSteer(d, open)
  <2>1. [w EXCEPT !.mode[u] = "steer", !.state[u] = "pending", !.order[u] = 0,
                  !.msgs[u] = {u}] \in Databases
      BY <1>1 DEF Databases, RowStates
  <2> QED
      BY <1>3, <2>1 DEF AcceptSteer, w
<1> QED
    BY <1>2, <1>3

LEMMA PromoteType ==
    ASSUME NEW d \in Databases, NEW i \in Inputs
    PROVE  Promote(d, i) \in Databases
<1> DEFINE w == WriteUserMessage(d, i, "pending", "unread")
<1>1. w \in Databases
    BY WriteUserMessageType DEF MessageStates, Receipts
<1>2. d.msgs[i] \cup {i} \in SUBSET Inputs
    BY DEF Databases
<1> HIDE DEF w
<1>3. [w EXCEPT !.mode[i] = "steer", !.msgs[i] = d.msgs[i] \cup {i}] \in Databases
    BY <1>1, <1>2 DEF Databases
<1> QED
    BY <1>3, ResequenceType DEF Promote, w

LEMMA ClaimType ==
    ASSUME NEW d \in Databases, NEW i
    PROVE  Claim(d, i) \in Databases
<1> DEFINE w == WriteAssistant(d, i)
           receipt == [u \in Inputs |-> IF u \in d.msgs[i] THEN "read" ELSE d.receipt[u]]
<1>1. w \in Databases
    BY WriteAssistantType
<1>2. receipt \in [Inputs -> Receipts]
    BY DEF Databases, Receipts
<1>3. ClaimSteer(d, i) = [w EXCEPT !.state[i] = "claimed", !.receipt = receipt]
    BY DEF ClaimSteer
<1> HIDE DEF w, receipt
<1>4. [w EXCEPT !.state[i] = "claimed", !.receipt = receipt] \in Databases
    BY <1>1, <1>2 DEF Databases, RowStates
<1>5. SetState(d, i, "claimed") \in Databases
    BY SetStateType DEF RowStates
<1> QED
    BY <1>3, <1>4, <1>5 DEF Claim

LEMMA SetMessagesType ==
    ASSUME NEW d \in Databases, NEW S, NEW s \in MessageStates
    PROVE  SetMessages(d, S, s) \in Databases
BY DEF SetMessages, Databases

LEMMA ConsumeType ==
    ASSUME NEW d \in Databases, NEW i
    PROVE  Consume(d, i) \in Databases
<1>1. SetMessages(d, d.msgs[i], "sent") \in Databases
    BY SetMessagesType DEF MessageStates
<1>2. SetState(SetMessages(d, d.msgs[i], "sent"), i, "consumed") \in Databases
    BY <1>1, SetStateType DEF RowStates
<1>3. DeleteRow(d, i) \in Databases
    BY DeleteRowType
<1> QED
    BY <1>2, <1>3 DEF Consume

LEMMA RollbackType ==
    ASSUME NEW d \in Databases, NEW i \in Inputs
    PROVE  Rollback(d, i) \in Databases
<1>1. CASE ~Exists(d, i)
    BY <1>1 DEF Rollback
<1>2. CASE Exists(d, i)
  <2> DEFINE from == d.seq[i]
             gone(s) == s > 0 /\ s >= from
             seq == [u \in Inputs |-> IF gone(d.seq[u]) THEN 0 ELSE d.seq[u]]
             status == [u \in Inputs |-> IF gone(d.seq[u]) THEN "none" ELSE d.status[u]]
             receipt == [u \in Inputs |-> IF gone(d.seq[u]) THEN "none" ELSE d.receipt[u]]
             aseq == [u \in Inputs |-> IF gone(d.aseq[u]) THEN 0 ELSE d.aseq[u]]
             astatus == [u \in Inputs |-> IF gone(d.aseq[u]) THEN "none" ELSE d.astatus[u]]
             tail == from - 1
  <2>1. tail \in Nat
      BY <1>2 DEF Exists, Databases
  <2>2. seq \in [Inputs -> Nat] /\ aseq \in [Inputs -> Nat]
      BY DEF Databases
  <2>3. /\ status \in [Inputs -> MessageStates]
        /\ receipt \in [Inputs -> Receipts]
        /\ astatus \in [Inputs -> AssistantStates]
      BY DEF Databases, MessageStates, Receipts, AssistantStates
  <2>4. Rollback(d, i) = [d EXCEPT !.seq = seq, !.status = status, !.receipt = receipt,
                                   !.aseq = aseq, !.astatus = astatus, !.tail = tail]
      BY <1>2 DEF Rollback
  <2> HIDE DEF seq, status, receipt, aseq, astatus, tail
  <2> QED
      BY <2>1, <2>2, <2>3, <2>4 DEF Databases
<1> QED
    BY <1>1, <1>2

\* The reconciliation of a crashed session's database.
LEMMA RecoverType ==
    ASSUME NEW d \in Databases
    PROVE  Recover(d) \in Databases
<1> DEFINE Answered == {i \in QueueRows(d) : d.state[i] = "claimed" /\ HasFact(d, i)}
           Unanswered == {i \in QueueRows(d) : d.state[i] = "claimed" /\ ~HasFact(d, i)}
           Settled == SteerRows(d, "claimed")
           Failed == SteerRows(d, "pending")
           linked(S) == UNION {d.msgs[i] : i \in S}
           state == [i \in Inputs |->
                        CASE i \in Answered -> "none"
                          [] i \in Unanswered -> "pending"
                          [] i \in Settled \cup Failed -> "consumed"
                          [] OTHER -> d.state[i]]
           msgs == [i \in Inputs |-> IF i \in Answered \cup Unanswered THEN {} ELSE d.msgs[i]]
           status == [u \in Inputs |->
                        IF u \in linked(Settled) THEN "sent"
                        ELSE IF u \in linked(Failed) THEN "error" ELSE d.status[u]]
           astatus == [i \in Inputs |-> IF d.astatus[i] = "pending" THEN "error" ELSE d.astatus[i]]
<1>1. state \in [Inputs -> RowStates]
  <2>1. d.state \in [Inputs -> RowStates]
      BY DEF Databases
  <2> HIDE DEF Answered, Unanswered, Settled, Failed
  <2> QED
      BY <2>1 DEF RowStates
<1>2. msgs \in [Inputs -> SUBSET Inputs]
    BY DEF Databases
<1>3. status \in [Inputs -> MessageStates]
  <2>1. d.status \in [Inputs -> MessageStates]
      BY DEF Databases
  <2> HIDE DEF linked, Settled, Failed
  <2> QED
      BY <2>1 DEF MessageStates
<1>4. astatus \in [Inputs -> AssistantStates]
    BY DEF Databases, AssistantStates
<1> DEFINE e == [d EXCEPT !.state = state, !.msgs = msgs, !.status = status, !.astatus = astatus]
<1>5. Recover(d) = Resequence(e)
    BY DEF Recover
<1> HIDE DEF state, msgs, status, astatus
<1>6. e \in Databases
    BY <1>1, <1>2, <1>3, <1>4 DEF Databases
<1> HIDE DEF e
<1> QED
    BY <1>5, <1>6, ResequenceType

-----------------------------------------------------------------------------
(* Only the end of a run opens an interaction: no transaction here does. *)

OpensNoInteraction(d, e) ==
    \A a \in Inputs : e.astatus[a] = "paused" => d.astatus[a] = "paused"

\* Transactions that leave every answer as it is.
LEMMA RowsOpenNothing ==
    ASSUME NEW d \in Databases, NEW i, NEW s
    PROVE  /\ Enqueue(d, i, s).astatus = d.astatus
           /\ Resequence(d).astatus = d.astatus
           /\ SetState(d, i, s).astatus = d.astatus
           /\ Release(d, i, s).astatus = d.astatus
           /\ \A r : WriteUserMessage(d, i, s, r).astatus = d.astatus
           /\ \A S : SetMessages(d, S, s).astatus = d.astatus
BY DEF Enqueue, Resequence, SetState, Release, WriteUserMessage, SetMessages, Databases

LEMMA DeleteRowOpensNothing ==
    ASSUME NEW d \in Databases, NEW i
    PROVE  DeleteRow(d, i).astatus = d.astatus
<1> DEFINE w == [d EXCEPT !.state[i] = "none", !.msgs[i] = {}]
<1>1. w \in Databases /\ w.astatus = d.astatus
    BY DEF Databases, RowStates
<1> HIDE DEF w
<1>2. Resequence(w).astatus = w.astatus
    BY <1>1, RowsOpenNothing
<1> QED
    BY <1>1, <1>2 DEF DeleteRow, w

LEMMA MovesOpenNothing ==
    ASSUME NEW d \in Databases, NEW i, NEW j, NEW e \in Moves(d, i, j)
    PROVE  e.astatus = d.astatus
BY DEF Moves, Databases

LEMMA MessagesOpenNothing ==
    ASSUME NEW d \in Databases, NEW i \in Inputs, NEW o
    PROVE  /\ AppendUserFact(d, i).astatus = d.astatus
           /\ Materialize(d).astatus = d.astatus
           /\ AcceptSteer(d, i, o).astatus = d.astatus
           /\ Promote(d, i).astatus = d.astatus
<1>1. \A j \in Inputs : AppendUserFact(d, j).astatus = d.astatus
    BY DEF AppendUserFact, WriteUserMessage, Databases
<1>2. Materialize(d).astatus = d.astatus
    BY <1>1 DEF Materialize, Unmaterialized, QueueRows
<1>3. AcceptSteer(d, i, o).astatus = d.astatus
    BY DEF AcceptSteer, WriteUserMessage, Databases
<1>4. Promote(d, i).astatus = d.astatus
    BY DEF Promote, Resequence, WriteUserMessage, Databases
<1> QED
    BY <1>1, <1>2, <1>3, <1>4

LEMMA ConsumeOpensNothing ==
    ASSUME NEW d \in Databases, NEW i
    PROVE  Consume(d, i).astatus = d.astatus
<1>1. DeleteRow(d, i).astatus = d.astatus
    BY DeleteRowOpensNothing
<1>2. SetState(SetMessages(d, d.msgs[i], "sent"), i, "consumed").astatus = d.astatus
    BY DEF SetState, SetMessages, Databases
<1> QED
    BY <1>1, <1>2 DEF Consume

\* Transactions that write an answer, and none of them as paused.
LEMMA AnswersOpenNothing ==
    ASSUME NEW d \in Databases, NEW i, NEW s \in AssistantStates \ {"paused"}
    PROVE  /\ OpensNoInteraction(d, WriteAssistant(d, i))
           /\ OpensNoInteraction(d, SetAssistant(d, i, s))
           /\ OpensNoInteraction(d, DeleteAssistant(d, i))
BY DEF OpensNoInteraction, WriteAssistant, SetAssistant, DeleteAssistant, Databases, AssistantStates

LEMMA ClaimOpensNothing ==
    ASSUME NEW d \in Databases, NEW i
    PROVE  OpensNoInteraction(d, Claim(d, i))
BY DEF OpensNoInteraction, Claim, ClaimSteer, SetState, WriteAssistant, Databases

LEMMA RollbackOpensNothing ==
    ASSUME NEW d \in Databases, NEW i
    PROVE  OpensNoInteraction(d, Rollback(d, i))
<1>1. \A a \in Inputs : Rollback(d, i).astatus[a] \in {d.astatus[a], "none"}
    BY DEF Rollback, Databases
<1> QED
    BY <1>1 DEF OpensNoInteraction

LEMMA RecoverOpensNothing ==
    ASSUME NEW d \in Databases
    PROVE  OpensNoInteraction(d, Recover(d))
<1>1. \A a \in Inputs : Recover(d).astatus[a] \in {d.astatus[a], "error"}
    BY DEF Recover, Resequence, Databases
<1> QED
    BY <1>1 DEF OpensNoInteraction

-----------------------------------------------------------------------------
(* The session. *)

\* What the type proof carries from one state to the next.
Typed == TypeOK /\ LaneKnowsItem

LEMMA NoneIsNoRun == None \notin Runs /\ None \notin Inputs /\ Inputs \subseteq Runs
                       /\ Resumed \in Runs /\ Resumed \notin Inputs
BY StoreAssumption DEF None, Runs, Inputs, Resumed

\* A run other than the resumed one is the run of an input.
LEMMA LaunchedRuns == ASSUME NEW r \in Runs, r # Resumed PROVE r \in Inputs
BY StoreAssumption DEF Runs, Inputs, Resumed

-----------------------------------------------------------------------------
(* The pump. *)

LEMMA ScheduleType ==
    ASSUME NEW p \in Pumps, NEW t, NEW status, NEW reason \in Wakes
    PROVE  Schedule(p, t, status, reason) \in Pumps
BY DEF Schedule, Pumps, Wakes

LEMMA RequestType ==
    ASSUME NEW p \in Pumps, NEW t, NEW status
    PROVE  Request(p, t, status) \in Pumps
<1> DEFINE q == Schedule(p, t, status, "enqueue")
<1>1. q \in Pumps
    BY ScheduleType DEF Wakes
<1>2. Request(p, t, status) = IF p.lease = "free" THEN [q EXCEPT !.again = TRUE] ELSE q
    BY DEF Request
<1> HIDE DEF q
<1> QED
    BY <1>1, <1>2 DEF Pumps

LEMMA GiveBackType ==
    ASSUME NEW p \in Pumps, NEW t, NEW status
    PROVE  GiveBack(p, t, status) \in Pumps
<1> DEFINE freed == [p EXCEPT !.lease = "free", !.launched = None, !.wake = "none",
                              !.again = FALSE, !.deferred = "none"]
<1>1. freed \in Pumps /\ p.deferred \in Wakes
    BY DEF Pumps, Wakes
<1>2. GiveBack(p, t, status) =
        IF p.deferred = "none" THEN freed ELSE Schedule(freed, t, status, p.deferred)
    BY DEF GiveBack
<1> HIDE DEF freed
<1> QED
    BY <1>1, <1>2, ScheduleType

LEMMA UnholdType ==
    ASSUME NEW p \in Pumps, NEW i
    PROVE  Unhold(p, i) \in Pumps
BY DEF Unhold, Pumps

LEMMA RestedPumpType ==
    ASSUME NEW H \in SUBSET Inputs
    PROVE  RestedPump(H) \in Pumps
BY DEF RestedPump, Pumps, Wakes

-----------------------------------------------------------------------------
(* Turns, the instance and the history. *)

LEMMA SignalType ==
    ASSUME turn \in [Runs -> Turns], NEW r, NEW s \in {"live", "stopped", "handoff"}
    PROVE  [turn EXCEPT ![r].signal = s] \in [Runs -> Turns]
BY DEF Turns

LEMMA StageType ==
    ASSUME turn \in [Runs -> Turns], NEW r, NEW s \in Stages, NEW f \in BOOLEAN
    PROVE  /\ [turn EXCEPT ![r].stage = s] \in [Runs -> Turns]
           /\ [turn EXCEPT ![r].stage = s, ![r].fenced = f] \in [Runs -> Turns]
<1>1. \A x \in Turns : /\ [x EXCEPT !.stage = s] \in Turns
                       /\ [x EXCEPT !.stage = s, !.fenced = f] \in Turns
    BY DEF Turns
<1> QED
    BY <1>1

LEMMA NoTurnType == NoTurn \in Turns
BY DEF NoTurn, Turns, Stages

LEMMA EndedType ==
    ASSUME turn \in [Runs -> Turns], NEW r
    PROVE  Ended(r) \in [Runs -> Turns]
<1>1. \A x \in Turns : [x EXCEPT !.stage = "finishing", !.fenced = TRUE] \in Turns
    BY DEF Turns, Stages
<1> QED
    BY <1>1, NoTurnType DEF Ended

LEMMA ClearedType ==
    ASSUME inst \in Instances, NEW r, NEW status \in Statuses
    PROVE  Cleared(r, status) \in Instances
BY DEF Cleared, Instances

LEMMA StoppedType ==
    ASSUME turn \in [Runs -> Turns], NEW r
    PROVE  Stopped(r) \in [Runs -> Turns]
<1>1. \A x \in Turns : \A s \in {"live", "stopped", "handoff"} :
            [x EXCEPT !.signal = s] \in Turns /\ x.signal \in {"live", "stopped", "handoff"}
    BY DEF Turns
<1> QED
    BY <1>1 DEF Stopped

LEMMA SubmitType ==
    ASSUME hist \in Histories, NEW u \in Inputs
    PROVE  Submit(u) \in Histories
<1>1. hist.accepted \cup {u} \in SUBSET Inputs /\ u \in 0 .. N
    BY DEF Histories, Inputs
<1> QED
    BY <1>1 DEF Submit, Histories

LEMMA ApproveType ==
    ASSUME hist \in Histories, NEW S
    PROVE  Approve(S) \in Histories
BY DEF Approve, Histories

LEMMA NoCallType == NoCall \in Calls
BY DEF NoCall, Calls, Statuses

LEMMA InitType == Init => Typed
<1> SUFFICES ASSUME Init PROVE Typed
    OBVIOUS
<1>1. db \in Databases
    BY EmptyDatabaseType DEF Init
<1>2. inst \in Instances
    BY DEF Init, IdleInstance, Instances, Statuses
<1>3. pump \in Pumps
    BY RestedPumpType DEF Init
<1>4. turn \in [Runs -> Turns]
    BY NoTurnType DEF Init
<1>5. call \in Calls /\ LaneKnowsItem
    BY NoCallType DEF Init, LaneKnowsItem, NoCall
<1>6. hist \in Histories
    BY StoreAssumption DEF Init, Histories, Inputs
<1> QED
    BY <1>1, <1>2, <1>3, <1>4, <1>5, <1>6 DEF Typed, TypeOK

-----------------------------------------------------------------------------
(* Starting a turn. *)

LEMMA LaunchType ==
    ASSUME TypeOK, NEW d \in Databases, NEW i \in Inputs, NEW source \in {"send", "queue", "steer"},
           Launch(d, i, source)
    PROVE  db' \in Databases /\ inst' \in Instances /\ pump' \in Pumps /\ turn' \in [Runs -> Turns]
<1>1. pump' \in Pumps
    BY DEF Launch, TypeOK, Pumps, Wakes
<1>2. i \in Runs
    BY NoneIsNoRun
<1> DEFINE launched == [stage |-> IF source = "steer" THEN "factual" ELSE "preparing",
                        source |-> source, signal |-> "live", fenced |-> FALSE, answer |-> i]
           failed == [stage |-> "finishing", source |-> source, signal |-> "live",
                      fenced |-> TRUE, answer |-> i]
           published == [status |-> "generating", controller |-> i, active |-> None,
                         openSteer |-> IF source = "steer" /\ inst.openSteer = i
                                       THEN None ELSE inst.openSteer]
<1>3. launched \in Turns /\ failed \in Turns
    BY DEF Turns, Stages
<1>4. published \in Instances
    BY <1>2 DEF TypeOK, Instances, Statuses
<1>5. CASE db' = d /\ inst' = published /\ turn' = [turn EXCEPT ![i] = launched]
  <2> HIDE DEF launched, published
  <2> QED
      BY <1>1, <1>3, <1>4, <1>5 DEF TypeOK
<1>6. CASE /\ db' = IF source = "steer" THEN Consume(SetAssistant(d, i, "error"), i)
                    ELSE Release(d, i, "retry_required")
           /\ inst' = [inst EXCEPT !.openSteer =
                 IF source = "steer" /\ inst.openSteer = i THEN None ELSE @]
           /\ turn' = [turn EXCEPT ![i] = failed]
  <2>1. SetAssistant(d, i, "error") \in Databases
      BY SetAssistantType DEF AssistantStates
  <2>2. db' \in Databases
      BY <1>6, <2>1, ConsumeType, ReleaseType DEF RowStates
  <2>3. inst' \in Instances
      BY <1>6 DEF TypeOK, Instances
  <2>4. turn' \in [Runs -> Turns]
    <3> HIDE DEF failed
    <3> QED
        BY <1>3, <1>6 DEF TypeOK
  <2> QED
      BY <1>1, <2>2, <2>3, <2>4
<1> QED
    BY <1>5, <1>6 DEF Launch

LEMMA DrainLaunchType ==
    ASSUME Typed, NEW i \in Inputs, DrainLaunch(i)
    PROVE  Typed'
<1>1. Claim(db, i) \in Databases
    BY ClaimType DEF Typed, TypeOK
<1>2. db' \in Databases /\ inst' \in Instances /\ pump' \in Pumps /\ turn' \in [Runs -> Turns]
    BY <1>1, LaunchType DEF Typed, DrainLaunch
<1>3. call' \in Calls /\ LaneKnowsItem'
    BY DEF DrainLaunch, Typed, TypeOK, Calls, LaneKnowsItem
<1> QED
    BY <1>2, <1>3 DEF Typed, TypeOK, DrainLaunch

LEMMA DrainIdleType ==
    ASSUME Typed, DrainIdle
    PROVE  Typed'
<1> DEFINE back == GiveBack(pump, turn, inst.status)
<1>1. back \in Pumps
    BY GiveBackType DEF Typed, TypeOK
<1>2. pump' = IF pump.again THEN Schedule(back, turn, inst.status, "enqueue") ELSE back
    BY DEF DrainIdle
<1> HIDE DEF back
<1>3. pump' \in Pumps
    BY <1>1, <1>2, ScheduleType DEF Wakes
<1>4. call' \in Calls /\ LaneKnowsItem'
    BY DEF DrainIdle, Typed, TypeOK, Calls, LaneKnowsItem
<1> QED
    BY <1>3, <1>4 DEF Typed, TypeOK, DrainIdle

-----------------------------------------------------------------------------
(* Admission. *)

LEMMA QueueType ==
    ASSUME Typed, NEW u \in Inputs, NEW src \in {"send", "queue"}, Queue(u, src)
    PROVE  Typed'
<1>1. hist' \in Histories
    BY SubmitType DEF Queue, Typed, TypeOK
<1>2. CASE Launch(Enqueue(db, u, "claimed"), u, src) /\ UNCHANGED call
  <2>1. Enqueue(db, u, "claimed") \in Databases
      BY EnqueueType DEF Typed, TypeOK, RowStates
  <2>2. db' \in Databases /\ inst' \in Instances /\ pump' \in Pumps /\ turn' \in [Runs -> Turns]
      BY <1>2, <2>1, LaunchType DEF Typed
  <2> QED
      BY <1>1, <1>2, <2>2 DEF Typed, TypeOK, LaneKnowsItem
<1>3. CASE /\ db' = Enqueue(db, u, "pending")
           /\ pump' = Schedule(pump, turn, inst.status, "enqueue")
           /\ UNCHANGED <<inst, turn, call>>
  <2>1. db' \in Databases
      BY <1>3, EnqueueType DEF Typed, TypeOK, RowStates
  <2>2. pump' \in Pumps
      BY <1>3, ScheduleType DEF Typed, TypeOK, Wakes
  <2> QED
      BY <1>1, <1>3, <2>1, <2>2 DEF Typed, TypeOK, LaneKnowsItem
<1> QED
    BY <1>2, <1>3 DEF Queue

LEMMA HandOffType ==
    ASSUME turn \in [Runs -> Turns]
    PROVE  HandOff \in [Runs -> Turns]
BY SignalType DEF HandOff

LEMMA GateAwaitsType ==
    ASSUME NEW p
    PROVE  [NoCall EXCEPT !.gate = GateAwaits(p)] \in Calls
BY NoCallType DEF GateAwaits, Calls

LEMMA AcceptVisibleSteerType ==
    ASSUME Typed, NEW u \in Inputs, NEW seen, AcceptVisibleSteer(u, seen)
    PROVE  Typed'
<1>1. hist' \in Histories
    BY SubmitType DEF AcceptVisibleSteer, Typed, TypeOK
<1>2. inst' \in Instances
  <2>1. OpenAfter(u) \in Inputs
      BY DEF OpenAfter, IsOpenSteer
  <2> QED
      BY <2>1 DEF AcceptVisibleSteer, Typed, TypeOK, Instances
<1>3. db' \in Databases
    BY AcceptSteerType, MaterializeType DEF AcceptVisibleSteer, Typed, TypeOK
<1>4. turn' \in [Runs -> Turns]
    BY HandOffType DEF AcceptVisibleSteer, Typed, TypeOK
<1>5. pump' \in Pumps
    BY ScheduleType, RequestType DEF AcceptVisibleSteer, Typed, TypeOK, Wakes
<1>6. call' \in Calls
    BY NoCallType, GateAwaitsType DEF AcceptVisibleSteer, Typed, TypeOK
<1>7. call'.lane = "free"
    BY DEF AcceptVisibleSteer, NoCall
<1> QED
    BY <1>1, <1>2, <1>3, <1>4, <1>5, <1>6, <1>7 DEF Typed, TypeOK, LaneKnowsItem

LEMMA SteerCallType ==
    ASSUME Typed, \/ \E u \in Inputs : SteerText(u) \/ SteerPrepare(u)
                  \/ SteerAccept \/ SteerDrop
    PROVE  Typed'
<1>1. CASE \E u \in Inputs : SteerText(u)
    BY <1>1, AcceptVisibleSteerType DEF SteerText
<1>2. CASE \E u \in Inputs : SteerPrepare(u)
  <2>1. PICK u \in Inputs : SteerPrepare(u)
      BY <1>2
  <2>2. ProjectedStatus \in Statuses
      BY DEF ProjectedStatus, Typed, TypeOK, Instances, Statuses
  <2>3. call' \in Calls /\ LaneKnowsItem'
      BY <2>1, <2>2 DEF SteerPrepare, Calls, LaneKnowsItem
  <2> QED
      BY <2>1, <2>3 DEF SteerPrepare, Typed, TypeOK
<1>3. CASE SteerAccept
  <2>1. call.item \in Inputs
      BY <1>3 DEF SteerAccept, Typed, LaneKnowsItem
  <2> QED
      BY <1>3, <2>1, AcceptVisibleSteerType DEF SteerAccept
<1>4. CASE SteerDrop
    BY <1>4, NoCallType DEF SteerDrop, Typed, TypeOK, LaneKnowsItem, NoCall
<1> QED
    BY <1>1, <1>2, <1>3, <1>4

LEMMA EndPromotionType ==
    ASSUME call \in Calls
    PROVE  EndPromotion \in Calls /\ EndPromotion.lane = "free"
BY DEF EndPromotion, Calls

LEMMA PromoteFinishType ==
    ASSUME Typed, PromoteFinish
    PROVE  Typed'
<1> DEFINE i == call.item
           back == Release(db, i, "pending")
<1>1. i \in Inputs
    BY DEF PromoteFinish, Typed, LaneKnowsItem
<1>2. back \in Databases
    BY ReleaseType DEF Typed, TypeOK, RowStates
<1>3. Promote(back, i) \in Databases /\ Promote(Materialize(back), i) \in Databases
    BY <1>1, <1>2, MaterializeType, PromoteType
<1>4. Unhold(pump, i) \in Pumps
    BY UnholdType DEF Typed, TypeOK
<1>5. Request(Unhold(pump, i), turn, inst.status) \in Pumps
    BY <1>4, RequestType
<1>6. db' \in Databases /\ pump' \in Pumps
    BY <1>3, <1>4, <1>5 DEF PromoteFinish
<1>7. turn' \in [Runs -> Turns]
    BY HandOffType DEF PromoteFinish, Typed, TypeOK
<1>8. call' \in Calls /\ LaneKnowsItem'
    BY EndPromotionType DEF PromoteFinish, Typed, TypeOK, LaneKnowsItem
<1>9. hist' \in Histories
    BY ApproveType DEF PromoteFinish, Typed, TypeOK
<1> QED
    BY <1>6, <1>7, <1>8, <1>9 DEF Typed, TypeOK, PromoteFinish

LEMMA PromotionType ==
    ASSUME Typed, (\E i \in Inputs : PromoteClaim(i)) \/ PromoteBlock \/ PromoteFail \/ PromoteFinish
    PROVE  Typed'
<1>1. CASE \E i \in Inputs : PromoteClaim(i)
  <2>1. PICK i \in Inputs : PromoteClaim(i)
      BY <1>1
  <2>2. db' \in Databases
      BY <2>1, SetStateType DEF PromoteClaim, Typed, TypeOK, RowStates
  <2>3. call' \in Calls /\ LaneKnowsItem'
      BY <2>1 DEF PromoteClaim, Typed, TypeOK, Calls, LaneKnowsItem
  <2> QED
      BY <2>1, <2>2, <2>3 DEF PromoteClaim, Typed, TypeOK
<1>2. CASE PromoteBlock
  <2>1. db' \in Databases
      BY <1>2, SetStateType DEF PromoteBlock, Typed, TypeOK, RowStates
  <2>2. call' \in Calls /\ LaneKnowsItem'
      BY <1>2, EndPromotionType DEF PromoteBlock, Typed, TypeOK, LaneKnowsItem
  <2> QED
      BY <1>2, <2>1, <2>2 DEF PromoteBlock, Typed, TypeOK
<1>3. CASE PromoteFail
  <2>1. db' \in Databases
      BY <1>3, ReleaseType DEF PromoteFail, Typed, TypeOK, RowStates
  <2>2. call' \in Calls /\ LaneKnowsItem'
      BY <1>3, EndPromotionType DEF PromoteFail, Typed, TypeOK, LaneKnowsItem
  <2> QED
      BY <1>3, <2>1, <2>2 DEF PromoteFail, Typed, TypeOK
<1>4. CASE PromoteFinish
    BY <1>4, PromoteFinishType
<1> QED
    BY <1>1, <1>2, <1>3, <1>4

LEMMA UpdateType ==
    ASSUME Typed, NEW i \in Inputs, Update(i) \/ ResolveBlocked(i)
    PROVE  Typed'
<1>1. db' \in Databases
    BY SetStateType DEF Update, ResolveBlocked, Typed, TypeOK, RowStates
<1>2. pump' \in Pumps
    BY ScheduleType DEF Update, ResolveBlocked, Typed, TypeOK, Wakes
<1>3. hist' \in Histories
    BY ApproveType DEF Update, ResolveBlocked, Typed, TypeOK
<1> QED
    BY <1>1, <1>2, <1>3 DEF Update, ResolveBlocked, Typed, TypeOK, LaneKnowsItem

LEMMA MoveType ==
    ASSUME Typed, NEW i \in Inputs, NEW j \in Inputs, Move(i, j)
    PROVE  Typed'
BY MovesType DEF Move, Typed, TypeOK, LaneKnowsItem

LEMMA DeleteType ==
    ASSUME Typed, NEW i \in Inputs, Delete(i)
    PROVE  Typed'
<1>1. db' \in Databases
    BY DeleteRowType DEF Delete, Typed, TypeOK
<1>2. pump' \in Pumps
    BY UnholdType, ScheduleType DEF Delete, Typed, TypeOK, Wakes
<1>3. hist' \in Histories
    BY ApproveType DEF Delete, Typed, TypeOK, Histories
<1> QED
    BY <1>1, <1>2, <1>3 DEF Delete, Typed, TypeOK, LaneKnowsItem

LEMMA GatedType ==
    ASSUME Typed, NEW i \in Inputs, Retry(i) \/ ResumeQueue(i)
    PROVE  Typed'
<1>1. CASE Retry(i)
  <2>1. db' \in Databases
      BY <1>1, SetStateType DEF Retry, Typed, TypeOK, RowStates
  <2>2. pump' \in Pumps
      BY <1>1, RequestType DEF Retry, Typed, TypeOK
  <2>3. call' \in Calls /\ LaneKnowsItem'
      BY <1>1 DEF Retry, GateAwaits, Typed, TypeOK, Calls, LaneKnowsItem
  <2>4. hist' \in Histories
      BY <1>1, ApproveType DEF Retry, Typed, TypeOK
  <2> QED
      BY <1>1, <2>1, <2>2, <2>3, <2>4 DEF Retry, Typed, TypeOK
<1>2. CASE ResumeQueue(i)
  <2> DEFINE p == [pump EXCEPT !.held = @ \ WaitingQueue(db), !.resumed = @ \cup {i}]
  <2>1. pump.resumed \cup {i} \in SUBSET Inputs
      BY DEF Typed, TypeOK, Pumps
  <2>2. p \in Pumps
      BY <2>1 DEF Typed, TypeOK, Pumps
  <2>3. pump' = Schedule(p, turn, inst.status, "enqueue")
      BY <1>2 DEF ResumeQueue
  <2> HIDE DEF p
  <2>4. pump' \in Pumps
      BY <2>2, <2>3, ScheduleType DEF Wakes
  <2>5. call' \in Calls /\ LaneKnowsItem'
      BY <1>2 DEF ResumeQueue, Typed, TypeOK, Calls, LaneKnowsItem
  <2>6. hist' \in Histories
      BY <1>2, ApproveType DEF ResumeQueue, Typed, TypeOK
  <2> QED
      BY <1>2, <2>4, <2>5, <2>6 DEF ResumeQueue, Typed, TypeOK
<1> QED
    BY <1>1, <1>2

-----------------------------------------------------------------------------
(* The turn. *)

\* The end of a run: its claim is settled in d, its controller cleared.
LEMMA EndType ==
    ASSUME Typed, NEW r \in Runs, NEW status \in Statuses,
           db' \in Databases, inst' = Cleared(r, status), turn' = Ended(r),
           pump' \in Pumps, UNCHANGED <<call, hist>>
    PROVE  Typed'
<1>1. inst' \in Instances
    BY ClearedType DEF Typed, TypeOK
<1>2. turn' \in [Runs -> Turns]
    BY EndedType DEF Typed, TypeOK
<1> QED
    BY <1>1, <1>2 DEF Typed, TypeOK, LaneKnowsItem

LEMMA TurnBlockType ==
    ASSUME Typed, NEW r \in Runs, TurnBlock(r)
    PROVE  Typed'
<1>1. db' \in Databases
    BY SetStateType DEF TurnBlock, Typed, TypeOK, RowStates
<1>2. pump' \in Pumps
    BY DEF TurnBlock, Typed, TypeOK
<1> QED
    BY <1>1, <1>2, EndType DEF TurnBlock, Statuses

\* Only the run of an input prepares or writes its messages.
LEMMA TurnUserFactType ==
    ASSUME Typed, NEW r \in Runs, r # Resumed, TurnUserFact(r)
    PROVE  Typed'
<1>1. db' \in Databases
    BY LaunchedRuns, AppendUserFactType DEF TurnUserFact, Typed, TypeOK
<1>2. turn' \in [Runs -> Turns]
    BY StageType DEF TurnUserFact, Typed, TypeOK, Stages
<1> QED
    BY <1>1, <1>2 DEF TurnUserFact, Typed, TypeOK, LaneKnowsItem

LEMMA TurnReserveType ==
    ASSUME Typed, NEW r \in Runs, TurnReserve(r)
    PROVE  Typed'
<1>1. db' \in Databases
    BY WriteAssistantType, ConsumeType DEF TurnReserve, Typed, TypeOK
<1>2. turn' \in [Runs -> Turns]
    BY StageType DEF TurnReserve, Typed, TypeOK, Stages
<1> QED
    BY <1>1, <1>2 DEF TurnReserve, Typed, TypeOK, LaneKnowsItem

LEMMA TurnRegisterType ==
    ASSUME Typed, NEW r \in Runs, TurnRegister(r)
    PROVE  Typed'
<1>1. inst' \in Instances
    BY DEF TurnRegister, Typed, TypeOK, Instances
<1>2. turn' \in [Runs -> Turns]
    BY StageType DEF TurnRegister, Typed, TypeOK, Stages
<1> QED
    BY <1>1, <1>2 DEF TurnRegister, Typed, TypeOK, LaneKnowsItem

LEMMA ProviderStartType ==
    ASSUME Typed, NEW r \in Runs, ProviderStart(r)
    PROVE  Typed'
<1> DEFINE early == Unsettled(r) /\ turn[r].source = "queue" /\ r \in pump.resumed
           fenced == turn[r].fenced \/ early
<1>1. db' \in Databases
    BY ConsumeType DEF ProviderStart, Typed, TypeOK
<1>2. turn' \in [Runs -> Turns]
  <2>1. fenced \in BOOLEAN
      BY DEF Typed, TypeOK, Turns
  <2>2. turn' = [turn EXCEPT ![r].stage = "streaming", ![r].fenced = fenced]
      BY DEF ProviderStart, Typed, TypeOK
  <2> HIDE DEF fenced
  <2> QED
      BY <2>1, <2>2, StageType DEF Typed, TypeOK, Stages
<1>3. hist' \in Histories
    BY LaunchedRuns DEF ProviderStart, Typed, TypeOK, Histories
<1> QED
    BY <1>1, <1>2, <1>3 DEF ProviderStart, Typed, TypeOK, LaneKnowsItem

LEMMA StreamEndType ==
    ASSUME Typed, NEW r \in Runs, NEW result \in Results, StreamEnd(r, result)
    PROVE  Typed'
<1> DEFINE answered == SetAssistant(db, turn[r].answer, AnswerStatus[result])
<1>1. AnswerStatus[result] \in AssistantStates /\ StatusAfter[result] \in Statuses
    BY DEF Results, AnswerStatus, StatusAfter, AssistantStates, Statuses
<1>2. answered \in Databases
    BY <1>1, SetAssistantType DEF Typed, TypeOK
<1>3. db' = IF Undone(r, result) THEN Release(Rollback(db, r), r, "retry_required")
            ELSE IF Unsettled(r) THEN Consume(answered, r)
            ELSE answered
    BY DEF StreamEnd
<1> HIDE DEF answered
<1>4. db' \in Databases
  <2>1. CASE Undone(r, result)
    <3>1. Rollback(db, r) \in Databases
        BY <2>1, LaunchedRuns, RollbackType DEF Undone, Unsettled, Typed, TypeOK
    <3> QED
        BY <1>3, <2>1, <3>1, ReleaseType DEF RowStates
  <2>2. CASE ~Undone(r, result)
      BY <1>2, <1>3, <2>2, ConsumeType
  <2> QED
      BY <2>1, <2>2
<1>5. pump' \in Pumps
    BY ScheduleType DEF StreamEnd, Typed, TypeOK, Wakes
<1> QED
    BY <1>1, <1>4, <1>5, EndType DEF StreamEnd

LEMMA AbortedPreStreamType ==
    ASSUME Typed, NEW r \in Runs, NEW late \in BOOLEAN, AbortedPreStream(r, late),
           r = Resumed => turn[r].stage # "preparing"
    PROVE  Typed'
<1> DEFINE t == turn[r]
           handoff == t.signal = "handoff"
           written ==
             CASE late /\ t.stage = "preparing" /\ db.msgs[r] = {} -> AppendUserFact(db, r)
               [] late /\ t.stage = "factual" /\ t.source # "steer" /\ ~handoff ->
                      WriteAssistant(db, r)
               [] OTHER -> db
           settled ==
             IF ~Unsettled(r) THEN written
             ELSE IF Exists(written, r) \/ t.source = "steer" THEN Consume(written, r)
             ELSE Release(written, r, "retry_required")
<1>1. written \in Databases
    BY LaunchedRuns, AppendUserFactType, WriteAssistantType DEF Typed, TypeOK
<1>2. db' = IF r = Resumed
            THEN SetAssistant(db, t.answer, IF handoff THEN "sent" ELSE "error")
            ELSE IF handoff THEN DeleteAssistant(settled, r)
            ELSE SetAssistant(settled, r, "error")
    BY DEF AbortedPreStream
<1> HIDE DEF written
<1>3. settled \in Databases
    BY <1>1, ConsumeType, ReleaseType DEF RowStates
<1> HIDE DEF settled
<1>4. db' \in Databases
    BY <1>2, <1>3, SetAssistantType, DeleteAssistantType DEF Typed, TypeOK, AssistantStates
<1>5. pump' \in Pumps
    BY ScheduleType DEF AbortedPreStream, Typed, TypeOK, Wakes
<1> QED
    BY <1>4, <1>5, EndType DEF AbortedPreStream, Statuses

LEMMA FailedPreStreamType ==
    ASSUME Typed, NEW r \in Runs, FailedPreStream(r)
    PROVE  Typed'
<1> DEFINE t == turn[r]
           shown == SetAssistant(db, t.answer, "error")
           kept == IF t.stage = "preparing" THEN db ELSE Rollback(db, r)
<1>1. shown \in Databases
    BY SetAssistantType DEF Typed, TypeOK, AssistantStates
<1>2. Unsettled(r) => kept \in Databases
    BY LaunchedRuns, RollbackType DEF Unsettled, Typed, TypeOK
<1>3. db' = IF Unsettled(r) /\ t.source # "steer" THEN Release(kept, r, "retry_required")
            ELSE IF Unsettled(r) THEN Consume(shown, r)
            ELSE shown
    BY DEF FailedPreStream
<1> HIDE DEF shown, kept
<1>4. db' \in Databases
    BY <1>1, <1>2, <1>3, ConsumeType, ReleaseType DEF RowStates
<1>5. pump' \in Pumps
    BY DEF FailedPreStream, Typed, TypeOK
<1> QED
    BY <1>4, <1>5, EndType DEF FailedPreStream, Statuses

LEMMA FinalizeType ==
    ASSUME Typed, NEW i \in Inputs, Finalize(i)
    PROVE  Typed'
<1> DEFINE back == GiveBack(pump, turn', inst.status)
           again == db.state[i] \in {"pending", "retry_required"}
           next == pump.next \/ (~again /\ NextInput(db) # {})
           resumed == IF db.state[i] \in {"none", "consumed"} THEN back.resumed \ {i} ELSE back.resumed
<1>1. turn' \in [Runs -> Turns]
    BY NoTurnType DEF Finalize, Typed, TypeOK
<1>2. back \in Pumps
    BY GiveBackType DEF Typed, TypeOK
<1>3. next \in BOOLEAN
    BY DEF Typed, TypeOK, Pumps
<1>4. resumed \in SUBSET Inputs
    BY <1>2 DEF Pumps
<1>5. pump' = [back EXCEPT !.next = next, !.resumed = resumed]
    BY DEF Finalize
<1> HIDE DEF back, next, resumed
<1>6. pump' \in Pumps
    BY <1>2, <1>3, <1>4, <1>5 DEF Pumps
<1> QED
    BY <1>1, <1>6 DEF Finalize, Typed, TypeOK, LaneKnowsItem

LEMMA NextIfReadyType ==
    ASSUME Typed, NextIfReady
    PROVE  Typed'
<1> DEFINE p == [pump EXCEPT !.next = FALSE]
<1>1. p \in Pumps
    BY DEF Typed, TypeOK, Pumps
<1>2. pump' = Schedule(p, turn, inst.status, "completed") \/ pump' = p
    BY DEF NextIfReady
<1> HIDE DEF p
<1>3. pump' \in Pumps
    BY <1>1, <1>2, ScheduleType DEF Wakes
<1> QED
    BY <1>3 DEF NextIfReady, Typed, TypeOK, LaneKnowsItem

-----------------------------------------------------------------------------
(* Stop, the answer to an interaction, and a crash. *)

LEMMA CancelType ==
    ASSUME Typed, Cancel
    PROVE  Typed'
<1>1. db' \in Databases
  <2> DEFINE stopped == [i \in Inputs |-> IF db.astatus[i] = "paused" THEN "error" ELSE db.astatus[i]]
  <2>1. stopped \in [Inputs -> AssistantStates]
      BY DEF Typed, TypeOK, Databases, AssistantStates
  <2>2. db' = db \/ db' = [db EXCEPT !.astatus = stopped]
      BY DEF Cancel
  <2> HIDE DEF stopped
  <2> QED
      BY <2>1, <2>2 DEF Typed, TypeOK, Databases
<1>2. inst' \in Instances
    BY DEF Cancel, Typed, TypeOK, Instances, Statuses
<1>3. pump' \in Pumps
    BY ScheduleType DEF Cancel, Typed, TypeOK, Wakes
<1>4. turn' \in [Runs -> Turns]
    BY StoppedType DEF Cancel, Typed, TypeOK
<1> QED
    BY <1>1, <1>2, <1>3, <1>4 DEF Cancel, Typed, TypeOK, LaneKnowsItem

LEMMA RespondType ==
    ASSUME Typed, NEW a \in Inputs, Respond(a)
    PROVE  Typed'
<1>1. db' \in Databases
    BY DEF Respond, Typed, TypeOK, Databases, AssistantStates
<1>2. inst' \in Instances
    BY NoneIsNoRun DEF Respond, Typed, TypeOK, Instances, Statuses
<1> DEFINE resumed == [stage |-> "reserved", source |-> "resume", signal |-> "live",
                       fenced |-> FALSE, answer |-> a]
<1>3. resumed \in Turns
    BY DEF Turns, Stages
<1>4. turn' = [turn EXCEPT ![Resumed] = resumed]
    BY DEF Respond
<1> HIDE DEF resumed
<1>5. turn' \in [Runs -> Turns]
    BY <1>3, <1>4 DEF Typed, TypeOK
<1> QED
    BY <1>1, <1>2, <1>5 DEF Respond, Typed, TypeOK, LaneKnowsItem

LEMMA CrashType ==
    ASSUME Typed, NEW d \in Databases, CrashWith(d)
    PROVE  Typed'
<1>1. db' \in Databases
    BY RecoverType DEF CrashWith
<1>2. inst' \in Instances
    BY DEF CrashWith, IdleInstance, Instances, Statuses
<1>3. pump' \in Pumps
  <2>1. HeldByRestart(d) \in SUBSET Inputs
      BY DEF HeldByRestart, QueueRows
  <2> QED
      BY <2>1, RestedPumpType DEF CrashWith
<1>4. turn' \in [Runs -> Turns]
    BY NoTurnType DEF CrashWith
<1>5. call' \in Calls /\ LaneKnowsItem'
    BY NoCallType DEF CrashWith, LaneKnowsItem, NoCall
<1> QED
    BY <1>1, <1>2, <1>3, <1>4, <1>5 DEF CrashWith, Typed, TypeOK

\* A run in its stream that can be rolled back is the run of an input.
LEMMA RestartType ==
    ASSUME Typed, Restart \/ \E r \in Runs : RestartMidRollback(r)
    PROVE  Typed'
<1>1. CASE Restart
    BY <1>1, CrashType DEF Restart, Typed, TypeOK
<1>2. CASE \E r \in Runs : RestartMidRollback(r)
  <2>1. PICK r \in Runs : RestartMidRollback(r)
      BY <1>2
  <2>2. Rollback(db, r) \in Databases
      BY <2>1, LaunchedRuns, RollbackType DEF RestartMidRollback, Undone, Unsettled, Typed, TypeOK
  <2> QED
      BY <2>1, <2>2, CrashType DEF RestartMidRollback
<1> QED
    BY <1>1, <1>2

-----------------------------------------------------------------------------
(* The run that resumes a paused message never prepares an input. *)

LEMMA ResumedStep ==
    ASSUME Typed, ResumedSkipsPreparation, Next
    PROVE  ResumedSkipsPreparation'
<1> DEFINE keeps == turn'[Resumed].stage = turn[Resumed].stage
<1>0. keeps => ResumedSkipsPreparation'
    BY DEF ResumedSkipsPreparation, InStream
<1>1. ASSUME NEW d, NEW i \in Inputs, NEW source, Launch(d, i, source) PROVE keeps
    BY <1>1, NoneIsNoRun DEF Launch, Typed, TypeOK
<1>2. CASE turn' = HandOff \/ turn' = turn
    BY <1>0, <1>2, NoneIsNoRun DEF HandOff, Typed, TypeOK, Turns
<1>3. CASE Admission
  <2>1. CASE \E u \in Inputs : \E src \in {"send", "queue"} : Queue(u, src)
      BY <1>0, <1>1, <2>1 DEF Queue
  <2>2. CASE turn' = HandOff \/ turn' = turn
      BY <1>2, <2>2
  <2> QED
      BY <1>3, <2>1, <2>2
      DEF Admission, SteerText, SteerPrepare, SteerAccept, SteerDrop, AcceptVisibleSteer,
          PromoteClaim, PromoteBlock, PromoteFail, PromoteFinish, Update, Delete, ResolveBlocked,
          Retry, ResumeQueue, Move
<1>4. CASE Drain
    BY <1>0, <1>1, <1>4 DEF Drain, DrainIdle, DrainLaunch
<1>5. CASE NextIfReady
    BY <1>2, <1>5 DEF NextIfReady
<1>6. ASSUME NEW r \in Runs, TurnStep(r) PROVE ResumedSkipsPreparation'
  <2>1. CASE turn' = Ended(r)
    <3>1. CASE r = Resumed
        BY <2>1, <3>1 DEF Ended, NoTurn, ResumedSkipsPreparation, Typed, TypeOK
    <3>2. CASE r # Resumed
        BY <1>0, <2>1, <3>2, NoneIsNoRun DEF Ended, Typed, TypeOK
    <3> QED
        BY <3>1, <3>2
  <2>2. CASE TurnUserFact(r) \/ TurnReserve(r)
    <3>1. r # Resumed
        BY <2>2 DEF TurnUserFact, TurnReserve, ResumedSkipsPreparation, InStream
    <3> QED
        BY <1>0, <2>2, <3>1, NoneIsNoRun DEF TurnUserFact, TurnReserve, Typed, TypeOK
  <2>3. CASE TurnRegister(r) \/ ProviderStart(r)
    <3>1. turn'[r].stage \in InStream
        BY <2>3 DEF TurnRegister, ProviderStart, InStream, Typed, TypeOK, Turns
    <3>2. r # Resumed => keeps
        BY <2>3, NoneIsNoRun DEF TurnRegister, ProviderStart, Typed, TypeOK
    <3> QED
        BY <1>0, <3>1, <3>2 DEF ResumedSkipsPreparation
  <2> QED
      BY <1>6, <2>1, <2>2, <2>3
      DEF TurnStep, TurnBlock, StreamEnd, AbortedPreStream, FailedPreStream
<1>7. CASE \E i \in Inputs : Finalize(i)
    BY <1>0, <1>7, NoneIsNoRun DEF Finalize, Typed, TypeOK
<1>8. CASE Cancel
  <2>1. turn' = turn \/ turn' = Stopped(inst.active) \/ turn' = Stopped(inst.controller)
      BY <1>8 DEF Cancel
  <2> QED
      BY <1>0, <2>1, NoneIsNoRun DEF Stopped, Typed, TypeOK, Turns
<1>9. CASE \E a \in Inputs : Respond(a)
    BY <1>9, NoneIsNoRun DEF Respond, ResumedSkipsPreparation, Typed, TypeOK
<1>10. CASE Restart \/ \E r \in Runs : RestartMidRollback(r)
    BY <1>10, NoneIsNoRun DEF Restart, RestartMidRollback, CrashWith, NoTurn, ResumedSkipsPreparation
<1> QED
    BY <1>3, <1>4, <1>5, <1>6, <1>7, <1>8, <1>9, <1>10 DEF Next

-----------------------------------------------------------------------------

LEMMA TurnStepType ==
    ASSUME Typed, ResumedSkipsPreparation, NEW r \in Runs, TurnStep(r)
    PROVE  Typed'
<1>1. turn[r].stage = "preparing" => r # Resumed
    BY DEF ResumedSkipsPreparation, InStream
<1>2. CASE TurnUserFact(r)
    BY <1>1, <1>2, TurnUserFactType DEF TurnUserFact
<1>3. ASSUME NEW late \in BOOLEAN, AbortedPreStream(r, late) PROVE Typed'
    BY <1>1, <1>3, AbortedPreStreamType
<1> QED
    BY <1>2, <1>3, TurnBlockType, TurnReserveType, TurnRegisterType, ProviderStartType,
       StreamEndType, FailedPreStreamType
    DEF TurnStep

LEMMA NextType ==
    ASSUME Typed, ResumedSkipsPreparation, [Next]_vars
    PROVE  Typed' /\ ResumedSkipsPreparation'
<1>1. CASE UNCHANGED vars
    BY <1>1 DEF vars, Typed, TypeOK, LaneKnowsItem, ResumedSkipsPreparation
<1>2. CASE Next
  <2>1. ASSUME Admission PROVE Typed'
      BY <2>1, QueueType, SteerCallType, PromotionType, UpdateType, DeleteType, GatedType, MoveType
      DEF Admission
  <2>2. ASSUME Drain PROVE Typed'
      BY <2>2, DrainLaunchType, DrainIdleType DEF Drain
  <2>3. Typed'
      BY <1>2, <2>1, <2>2, NextIfReadyType, TurnStepType, FinalizeType, CancelType, RespondType,
         RestartType
      DEF Next
  <2> QED
      BY <1>2, <2>3, ResumedStep
<1> QED
    BY <1>1, <1>2

\* Every reachable state has the shape TypeOK gives it: the pump, the turns, the
\* instance and the database only ever hold values of their own kinds, whatever the
\* user, the provider and a crash do, for any number of submissions.
THEOREM TypeCorrect == Spec => []TypeOK
<1> DEFINE Inv == Typed /\ ResumedSkipsPreparation
<1>1. Init => Inv
    BY InitType, NoneIsNoRun DEF Init, ResumedSkipsPreparation, NoTurn
<1>2. Inv /\ [Next]_vars => Inv'
    BY NextType
<1>3. Inv => TypeOK
    BY DEF Typed
<1> HIDE DEF Inv
<1> QED
    BY <1>1, <1>2, <1>3, PTL DEF Spec

-----------------------------------------------------------------------------
(* The lease. *)

LEMMA ScheduleLease ==
    ASSUME NEW p \in Pumps, NEW t, NEW status, NEW reason
    PROVE  LET q == Schedule(p, t, status, reason)
           IN  q.launched = p.launched /\ (q.lease = "turn" <=> p.lease = "turn")
BY DEF Schedule, Pumps

LEMMA RequestLease ==
    ASSUME NEW p \in Pumps, NEW t, NEW status
    PROVE  LET q == Request(p, t, status)
           IN  q.launched = p.launched /\ (q.lease = "turn" <=> p.lease = "turn")
<1> DEFINE q == Schedule(p, t, status, "enqueue")
<1>1. q \in Pumps
    BY ScheduleType DEF Wakes
<1>2. q.launched = p.launched /\ (q.lease = "turn" <=> p.lease = "turn")
    BY ScheduleLease
<1>3. Request(p, t, status) = IF p.lease = "free" THEN [q EXCEPT !.again = TRUE] ELSE q
    BY DEF Request
<1> HIDE DEF q
<1> QED
    BY <1>1, <1>2, <1>3 DEF Pumps

LEMMA GiveBackLease ==
    ASSUME NEW p \in Pumps, NEW t, NEW status
    PROVE  LET q == GiveBack(p, t, status) IN q.launched = None /\ q.lease # "turn"
<1> DEFINE freed == [p EXCEPT !.lease = "free", !.launched = None, !.wake = "none",
                              !.again = FALSE, !.deferred = "none"]
<1>1. freed \in Pumps /\ freed.launched = None /\ freed.lease = "free"
    BY DEF Pumps, Wakes
<1>2. GiveBack(p, t, status) =
        IF p.deferred = "none" THEN freed ELSE Schedule(freed, t, status, p.deferred)
    BY DEF GiveBack
<1> HIDE DEF freed
<1> QED
    BY <1>1, <1>2, ScheduleLease

LEMMA UnholdLease ==
    ASSUME NEW p \in Pumps, NEW i
    PROVE  Unhold(p, i).launched = p.launched /\ Unhold(p, i).lease = p.lease
BY DEF Unhold, Pumps

\* What a step that neither launches nor finishes a turn leaves alone.
LeaseKept ==
    /\ pump'.launched = pump.launched
    /\ pump'.lease = "turn" <=> pump.lease = "turn"
TurnsKept == \A i \in Inputs : turn'[i].stage = "none" <=> turn[i].stage = "none"

LEMMA LeaseByKeeping ==
    ASSUME LeaseOwnership, LeaseKept, TurnsKept
    PROVE  LeaseOwnership'
BY DEF LeaseOwnership, LeaseKept, TurnsKept

LEMMA LaunchLease ==
    ASSUME Typed, LeaseOwnership, pump.lease # "turn",
           NEW d, NEW i \in Inputs, NEW source, Launch(d, i, source)
    PROVE  LeaseOwnership'
<1>1. pump'.lease = "turn" /\ pump'.launched = i
    BY DEF Launch, Typed, TypeOK, Pumps
<1>2. \A j \in Inputs : turn[j].stage = "none"
    BY NoneIsNoRun DEF LeaseOwnership
<1>3. \A j \in Inputs : turn'[j].stage # "none" <=> j = i
    BY <1>2, NoneIsNoRun DEF Launch, Typed, TypeOK
<1> QED
    BY <1>1, <1>3, NoneIsNoRun DEF LeaseOwnership

LEMMA HandOffKeeps ==
    ASSUME Typed, turn' = HandOff \/ turn' = turn
    PROVE  TurnsKept
BY NoneIsNoRun DEF HandOff, TurnsKept, Typed, TypeOK, Turns

LEMMA AdmissionLease ==
    ASSUME Typed, LeaseOwnership, Admission
    PROVE  LeaseOwnership'
<1>1. ASSUME NEW u \in Inputs, NEW src \in {"send", "queue"}, Queue(u, src)
      PROVE  LeaseOwnership'
  <2>1. CASE Claimable(src) /\ Launch(Enqueue(db, u, "claimed"), u, src)
      BY <2>1, LaunchLease DEF Claimable
  <2>2. CASE pump' = Schedule(pump, turn, inst.status, "enqueue") /\ UNCHANGED turn
    <3>1. LeaseKept
        BY <2>2, ScheduleLease DEF LeaseKept, Typed, TypeOK
    <3>2. TurnsKept
        BY <2>2 DEF TurnsKept
    <3> QED
        BY <3>1, <3>2, LeaseByKeeping
  <2> QED
      BY <1>1, <2>1, <2>2 DEF Queue
<1>2. ASSUME NEW u, NEW seen, AcceptVisibleSteer(u, seen) PROVE LeaseOwnership'
  <2>1. LeaseKept
      BY <1>2, ScheduleLease, RequestLease DEF AcceptVisibleSteer, LeaseKept, Typed, TypeOK
  <2>2. TurnsKept
      BY <1>2, HandOffKeeps DEF AcceptVisibleSteer
  <2> QED
      BY <2>1, <2>2, LeaseByKeeping
<1>3. CASE PromoteFinish
  <2>1. Unhold(pump, call.item) \in Pumps
      BY UnholdType DEF Typed, TypeOK
  <2>2. LeaseKept
      BY <1>3, <2>1, UnholdLease, RequestLease DEF PromoteFinish, LeaseKept, Typed, TypeOK
  <2>3. TurnsKept
      BY <1>3, HandOffKeeps DEF PromoteFinish
  <2> QED
      BY <2>2, <2>3, LeaseByKeeping
<1>4. ASSUME NEW i \in Inputs,
             Update(i) \/ Delete(i) \/ ResolveBlocked(i) \/ Retry(i) \/ ResumeQueue(i)
      PROVE  LeaseOwnership'
  <2>1. TurnsKept
      BY <1>4 DEF Update, Delete, ResolveBlocked, Retry, ResumeQueue, TurnsKept
  <2>2. CASE ResumeQueue(i)
    <3> DEFINE p == [pump EXCEPT !.held = @ \ WaitingQueue(db), !.resumed = @ \cup {i}]
    <3>1. pump.resumed \cup {i} \in SUBSET Inputs
        BY DEF Typed, TypeOK, Pumps
    <3>2. p \in Pumps /\ p.launched = pump.launched /\ p.lease = pump.lease
        BY <3>1 DEF Typed, TypeOK, Pumps
    <3>3. pump' = Schedule(p, turn, inst.status, "enqueue")
        BY <2>2 DEF ResumeQueue
    <3> HIDE DEF p
    <3>4. LeaseKept
        BY <3>2, <3>3, ScheduleLease DEF LeaseKept
    <3> QED
        BY <2>1, <3>4, LeaseByKeeping
  <2>3. CASE Delete(i)
    <3>1. Unhold(pump, i) \in Pumps
        BY UnholdType DEF Typed, TypeOK
    <3>2. LeaseKept
        BY <2>3, <3>1, UnholdLease, ScheduleLease DEF Delete, LeaseKept, Typed, TypeOK
    <3> QED
        BY <2>1, <3>2, LeaseByKeeping
  <2>4. CASE Update(i) \/ ResolveBlocked(i) \/ Retry(i)
    <3>1. LeaseKept
        BY <2>4, ScheduleLease, RequestLease
        DEF Update, ResolveBlocked, Retry, LeaseKept, Typed, TypeOK
    <3> QED
        BY <2>1, <3>1, LeaseByKeeping
  <2> QED
      BY <1>4, <2>2, <2>3, <2>4
<1>5. CASE UNCHANGED <<pump, turn>>
    BY <1>5 DEF LeaseOwnership
<1> QED
    BY <1>1, <1>2, <1>3, <1>4, <1>5
    DEF Admission, SteerText, SteerPrepare, SteerAccept, SteerDrop, PromoteClaim, PromoteBlock,
        PromoteFail, Move

LEMMA DrainLease ==
    ASSUME Typed, LeaseOwnership, Drain
    PROVE  LeaseOwnership'
<1>1. ASSUME NEW i \in Inputs, DrainLaunch(i) PROVE LeaseOwnership'
    BY <1>1, LaunchLease DEF DrainLaunch
<1>2. CASE DrainIdle
  <2> DEFINE back == GiveBack(pump, turn, inst.status)
  <2>1. back \in Pumps
      BY GiveBackType DEF Typed, TypeOK
  <2>2. back.launched = None /\ back.lease # "turn"
      BY GiveBackLease DEF Typed, TypeOK
  <2>3. pump' = IF pump.again THEN Schedule(back, turn, inst.status, "enqueue") ELSE back
      BY <1>2 DEF DrainIdle
  <2>4. pump.launched = None
      BY <1>2 DEF DrainIdle, LeaseOwnership
  <2> HIDE DEF back
  <2>5. LeaseKept
      BY <1>2, <2>1, <2>2, <2>3, <2>4, ScheduleLease DEF LeaseKept, DrainIdle
  <2>6. TurnsKept
      BY <1>2 DEF DrainIdle, TurnsKept
  <2> QED
      BY <2>5, <2>6, LeaseByKeeping
<1> QED
    BY <1>1, <1>2 DEF Drain

LEMMA EndedKeeps ==
    ASSUME Typed, NEW r \in Runs, turn[r].stage # "none", turn' = Ended(r)
    PROVE  TurnsKept
BY NoneIsNoRun DEF Ended, TurnsKept, Typed, TypeOK

LEMMA TurnStepLease ==
    ASSUME Typed, LeaseOwnership, NEW r \in Runs, TurnStep(r)
    PROVE  LeaseOwnership'
<1>1. LeaseKept
    BY ScheduleLease
    DEF TurnStep, TurnBlock, TurnUserFact, TurnReserve, TurnRegister, ProviderStart, StreamEnd,
        AbortedPreStream, FailedPreStream, LeaseKept, Typed, TypeOK
<1>2. turn[r].stage # "none"
    BY DEF TurnStep, TurnBlock, TurnUserFact, TurnReserve, TurnRegister, ProviderStart, StreamEnd,
           AbortedPreStream, FailedPreStream, PreStream, InStream
<1>3. turn' = Ended(r) => TurnsKept
    BY <1>2, EndedKeeps
<1>4. ASSUME TurnUserFact(r) \/ TurnReserve(r) \/ TurnRegister(r) \/ ProviderStart(r)
      PROVE  TurnsKept
  <2>1. PICK s \in {"factual", "reserved", "registered", "streaming"}, f \in BOOLEAN :
            turn' = [turn EXCEPT ![r].stage = s] \/ turn' = [turn EXCEPT ![r].stage = s, ![r].fenced = f]
      BY <1>4 DEF TurnUserFact, TurnReserve, TurnRegister, ProviderStart
  <2>2. turn'[r].stage = s
      BY <2>1 DEF Typed, TypeOK, Turns
  <2>3. \A i \in Runs : i # r => turn'[i] = turn[i]
      BY <2>1 DEF Typed, TypeOK
  <2> QED
      BY <1>2, <2>2, <2>3, NoneIsNoRun DEF TurnsKept
<1>5. TurnsKept
    BY <1>3, <1>4 DEF TurnStep, TurnBlock, StreamEnd, AbortedPreStream, FailedPreStream
<1> QED
    BY <1>1, <1>5, LeaseByKeeping

LEMMA FinalizeLease ==
    ASSUME Typed, LeaseOwnership, NEW i \in Inputs, Finalize(i)
    PROVE  LeaseOwnership'
<1> DEFINE back == GiveBack(pump, turn', inst.status)
<1>1. back \in Pumps /\ back.launched = None /\ back.lease # "turn"
    BY GiveBackType, GiveBackLease DEF Typed, TypeOK
<1>2. \E b, R : pump' = [back EXCEPT !.next = b, !.resumed = R]
    BY DEF Finalize
<1> HIDE DEF back
<1>3. pump'.launched = None /\ pump'.lease # "turn"
    BY <1>1, <1>2 DEF Pumps
<1>4. \A j \in Inputs : turn'[j].stage = "none"
    BY NoneIsNoRun DEF Finalize, LeaseOwnership, NoTurn, Typed, TypeOK
<1> QED
    BY <1>3, <1>4, NoneIsNoRun DEF LeaseOwnership

LEMMA NextIfReadyLease ==
    ASSUME Typed, LeaseOwnership, NextIfReady
    PROVE  LeaseOwnership'
<1> DEFINE p == [pump EXCEPT !.next = FALSE]
<1>1. p \in Pumps /\ p.launched = pump.launched /\ p.lease = pump.lease
    BY DEF Typed, TypeOK, Pumps
<1>2. pump' = Schedule(p, turn, inst.status, "completed") \/ pump' = p
    BY DEF NextIfReady
<1> HIDE DEF p
<1>3. LeaseKept
    BY <1>1, <1>2, ScheduleLease DEF LeaseKept
<1>4. TurnsKept
    BY DEF NextIfReady, TurnsKept
<1> QED
    BY <1>3, <1>4, LeaseByKeeping

LEMMA CancelLease ==
    ASSUME Typed, LeaseOwnership, Cancel
    PROVE  LeaseOwnership'
<1>1. LeaseKept
    BY ScheduleLease DEF Cancel, LeaseKept, Typed, TypeOK
<1>2. TurnsKept
    BY NoneIsNoRun DEF Cancel, Stopped, TurnsKept, Typed, TypeOK, Turns
<1> QED
    BY <1>1, <1>2, LeaseByKeeping

LEMMA CrashLease ==
    ASSUME NEW d, CrashWith(d)
    PROVE  LeaseOwnership'
BY NoneIsNoRun DEF CrashWith, RestedPump, NoTurn, LeaseOwnership

LEMMA LeaseStep ==
    ASSUME Typed, LeaseOwnership, [Next]_vars
    PROVE  LeaseOwnership'
<1>1. CASE UNCHANGED vars
    BY <1>1 DEF vars, LeaseOwnership
<1>2. ASSUME NEW a \in Inputs, Respond(a) PROVE LeaseOwnership'
    BY <1>2, NoneIsNoRun DEF Respond, LeaseOwnership, Typed, TypeOK
<1>3. CASE Restart \/ \E r \in Runs : RestartMidRollback(r)
    BY <1>3, CrashLease DEF Restart, RestartMidRollback
<1> QED
    BY <1>1, <1>2, <1>3, AdmissionLease, DrainLease, TurnStepLease, FinalizeLease,
       NextIfReadyLease, CancelLease
    DEF Next

\* For any number of submissions: the drain lease belongs to exactly one launched
\* turn from its launch to its finally block, so the pump never launches a second
\* turn while one is unfinished and never forgets a lease it took.
THEOREM LeaseOwned == Spec => []LeaseOwnership
<1> DEFINE Inv == Typed /\ ResumedSkipsPreparation /\ LeaseOwnership
<1>1. Init => Inv
  <2>1. Init => LeaseOwnership
      BY NoneIsNoRun DEF Init, RestedPump, NoTurn, LeaseOwnership
  <2>2. Init => ResumedSkipsPreparation
      BY NoneIsNoRun DEF Init, ResumedSkipsPreparation, NoTurn
  <2> QED
      BY <2>1, <2>2, InitType
<1>2. Inv /\ [Next]_vars => Inv'
    BY NextType, LeaseStep
<1>3. Inv => LeaseOwnership
    OBVIOUS
<1> HIDE DEF Inv
<1> QED
    BY <1>1, <1>2, <1>3, PTL DEF Spec

-----------------------------------------------------------------------------
(* One run. *)

\* What this argument adds to the lease and the types.
Alone ==
    /\ \A r, s \in Running : r = s
    /\ RunIsGenerating
    /\ InteractionRests
    /\ OneInteraction
    /\ ControllerOwnership

-----------------------------------------------------------------------------
(* Steps by what they do to the run under way. *)

RunsKept == \A r \in Runs : turn'[r].stage = turn[r].stage

LEMMA SameRunning ==
    ASSUME RunsKept
    PROVE  Running' = Running
BY DEF RunsKept, Running

\* Nothing happens to it.
LEMMA AloneByKeeping ==
    ASSUME Typed, Alone, RunsKept, OpensNoInteraction(db, db'),
           inst'.status = inst.status, inst'.controller = inst.controller, inst'.active = inst.active
    PROVE  Alone'
<1>1. Running' = Running
    BY SameRunning
<1>2. RunIsGenerating' /\ InteractionRests'
    BY <1>1 DEF Alone, RunIsGenerating, InteractionRests, HasInteraction, OpensNoInteraction
<1>3. OneInteraction'
    BY DEF Alone, OneInteraction, OpensNoInteraction
<1>4. ControllerOwnership'
    BY <1>1 DEF Alone, ControllerOwnership, RunsKept, Running
<1> QED
    BY <1>1, <1>2, <1>3, <1>4 DEF Alone

\* It ends, or there is none.
LEMMA AloneByResting ==
    ASSUME \A r \in Runs : turn'[r].stage \notin PreStream \cup InStream,
           inst'.controller = None, inst'.active = None, OneInteraction'
    PROVE  Alone'
<1>1. Running' = {}
    BY DEF Running
<1> QED
    BY <1>1 DEF Alone, RunIsGenerating, InteractionRests, ControllerOwnership

\* It starts where none was.
LEMMA AloneByStarting ==
    ASSUME NEW r \in Runs, turn'[r].stage \in PreStream,
           \A s \in Runs \ {r} : turn'[s].stage \notin PreStream \cup InStream,
           inst'.status = "generating", inst'.controller = r, inst'.active = None,
           ~HasInteraction(db')
    PROVE  Alone'
<1>1. Running' = {r}
    BY DEF Running
<1>2. \A s \in Runs : turn'[s].stage \notin InStream
    BY DEF PreStream, InStream
<1> QED
    BY <1>1, <1>2 DEF Alone, RunIsGenerating, InteractionRests, OneInteraction, HasInteraction,
                      ControllerOwnership

\* It goes on: no other run is under way.
LEMMA TheRun ==
    ASSUME Alone, NEW r \in Running
    PROVE  /\ Running = {r} /\ ~HasInteraction(db) /\ inst.status = "generating"
           /\ inst.controller \in {None, r} /\ inst.active \in {None, r}
           /\ \A s \in Runs \ {r} : turn[s].stage \notin PreStream \cup InStream
BY DEF Alone, RunIsGenerating, InteractionRests, ControllerOwnership, Running

LEMMA NoRun ==
    ASSUME Alone, Running = {}
    PROVE  /\ inst.controller = None /\ inst.active = None
           /\ \A s \in Runs : turn[s].stage \notin PreStream \cup InStream
BY DEF Alone, ControllerOwnership, Running

\* No interaction is open and none is opened.
LEMMA StillNoInteraction ==
    ASSUME NEW d, NEW e, ~HasInteraction(d), OpensNoInteraction(d, e)
    PROVE  ~HasInteraction(e)
BY DEF HasInteraction, OpensNoInteraction

-----------------------------------------------------------------------------
(* Launch. *)

LEMMA LaunchAlone ==
    ASSUME Typed, Alone, Running = {}, NEW d \in Databases, ~HasInteraction(d),
           NEW i \in Inputs, NEW source, Launch(d, i, source)
    PROVE  Alone'
<1> USE NoneIsNoRun
<1>1. CASE /\ db' = d
           /\ inst' = [status |-> "generating", controller |-> i, active |-> None,
                       openSteer |-> IF source = "steer" /\ inst.openSteer = i
                                     THEN None ELSE inst.openSteer]
           /\ turn' = [turn EXCEPT ![i] =
                 [stage |-> IF source = "steer" THEN "factual" ELSE "preparing",
                  source |-> source, signal |-> "live", fenced |-> FALSE, answer |-> i]]
  <2>1. turn'[i].stage \in PreStream
      BY <1>1 DEF PreStream, Typed, TypeOK
  <2>2. \A s \in Runs \ {i} : turn'[s].stage \notin PreStream \cup InStream
      BY <1>1, NoRun DEF Typed, TypeOK
  <2> QED
      BY <1>1, <2>1, <2>2, AloneByStarting
<1>2. CASE /\ db' = IF source = "steer" THEN Consume(SetAssistant(d, i, "error"), i)
                    ELSE Release(d, i, "retry_required")
           /\ inst' = [inst EXCEPT !.openSteer =
                 IF source = "steer" /\ inst.openSteer = i THEN None ELSE @]
           /\ turn' = [turn EXCEPT ![i] =
                 [stage |-> "finishing", source |-> source, signal |-> "live",
                  fenced |-> TRUE, answer |-> i]]
  <2>1. \A s \in Runs : turn'[s].stage \notin PreStream \cup InStream
      BY <1>2, NoRun DEF Typed, TypeOK, PreStream, InStream
  <2>2. inst'.controller = None /\ inst'.active = None
      BY <1>2, NoRun DEF Typed, TypeOK, Instances
  <2> DEFINE shown == SetAssistant(d, i, "error")
  <2>3. shown \in Databases /\ OpensNoInteraction(d, shown)
      BY SetAssistantType, AnswersOpenNothing DEF AssistantStates
  <2>4. Consume(shown, i).astatus = shown.astatus
      BY <2>3, ConsumeOpensNothing
  <2>5. Release(d, i, "retry_required").astatus = d.astatus
      BY RowsOpenNothing
  <2>6. db' = IF source = "steer" THEN Consume(shown, i) ELSE Release(d, i, "retry_required")
      BY <1>2
  <2> HIDE DEF shown
  <2>7. OpensNoInteraction(d, db')
      BY <2>3, <2>4, <2>5, <2>6 DEF OpensNoInteraction
  <2>8. OneInteraction'
      BY <2>7, StillNoInteraction DEF OneInteraction, HasInteraction
  <2> QED
      BY <2>1, <2>2, <2>8, AloneByResting
<1> QED
    BY <1>1, <1>2 DEF Launch

\* A session that is not generating has no run.
LEMMA IdleHasNoRun ==
    ASSUME Alone, NEW reason, CanDrainFrom(ProjectedStatus, reason), ~HasInteraction(db)
    PROVE  Running = {}
BY DEF Alone, RunIsGenerating, CanDrainFrom, ProjectedStatus

LEMMA DrainAlone ==
    ASSUME Typed, Alone, Drain
    PROVE  Alone'
<1>1. ASSUME NEW i \in Inputs, DrainLaunch(i) PROVE Alone'
  <2> DEFINE d == Claim(db, i)
  <2>1. d \in Databases /\ OpensNoInteraction(db, d)
      BY ClaimType, ClaimOpensNothing DEF Typed, TypeOK
  <2>2. ~HasInteraction(db) /\ Running = {}
      BY <1>1, IdleHasNoRun DEF DrainLaunch, DrainReady
  <2>3. \E source : Launch(d, i, source)
      BY <1>1 DEF DrainLaunch
  <2> HIDE DEF d
  <2> QED
      BY <2>1, <2>2, <2>3, StillNoInteraction, LaunchAlone
<1>2. CASE DrainIdle
    BY <1>2, AloneByKeeping DEF DrainIdle, RunsKept, OpensNoInteraction
<1> QED
    BY <1>1, <1>2 DEF Drain

-----------------------------------------------------------------------------
(* Admission. *)

LEMMA HandOffKeepsRuns ==
    ASSUME Typed, turn' = HandOff \/ turn' = turn
    PROVE  RunsKept
BY NoneIsNoRun DEF HandOff, RunsKept, Typed, TypeOK, Turns

LEMMA AdmissionAlone ==
    ASSUME Typed, Alone, Admission
    PROVE  Alone'
<1> USE DEF OpensNoInteraction
<1>0. db \in Databases
    BY DEF Typed, TypeOK
<1>1. ASSUME NEW u \in Inputs, NEW src \in {"send", "queue"}, Queue(u, src)
      PROVE  Alone'
  <2>1. \A s \in RowStates : Enqueue(db, u, s) \in Databases /\ Enqueue(db, u, s).astatus = db.astatus
      BY <1>0, EnqueueType, RowsOpenNothing
  <2>2. CASE Claimable(src) /\ Launch(Enqueue(db, u, "claimed"), u, src)
    <3>1. ~HasInteraction(db) /\ Running = {}
        BY <2>2, IdleHasNoRun DEF Claimable
    <3>2. "claimed" \in RowStates
        BY DEF RowStates
    <3>3. ~HasInteraction(Enqueue(db, u, "claimed"))
        BY <2>1, <3>1, <3>2 DEF HasInteraction
    <3> QED
        BY <2>1, <2>2, <3>1, <3>2, <3>3, LaunchAlone
  <2>3. CASE db' = Enqueue(db, u, "pending") /\ UNCHANGED <<inst, turn>>
    <3>1. db'.astatus = db.astatus
        BY <2>1, <2>3 DEF RowStates
    <3> QED
        BY <2>3, <3>1, AloneByKeeping DEF RunsKept
  <2> QED
      BY <1>1, <2>2, <2>3 DEF Queue
<1>2. ASSUME NEW u \in Inputs, NEW seen, AcceptVisibleSteer(u, seen) PROVE Alone'
  <2>1. RunsKept
      BY <1>2, HandOffKeepsRuns DEF AcceptVisibleSteer
  <2>2. db'.astatus = db.astatus
      BY <1>0, <1>2, MessagesOpenNothing, MaterializeType DEF AcceptVisibleSteer
  <2>3. inst'.status = inst.status /\ inst'.controller = inst.controller /\ inst'.active = inst.active
      BY <1>2 DEF AcceptVisibleSteer, Typed, TypeOK, Instances
  <2> QED
      BY <2>1, <2>2, <2>3, AloneByKeeping
<1>3. CASE SteerAccept
  <2>1. call.item \in Inputs
      BY <1>3 DEF SteerAccept, Typed, LaneKnowsItem
  <2> QED
      BY <1>2, <1>3, <2>1 DEF SteerAccept
<1>4. CASE PromoteFinish
  <2> DEFINE back == Release(db, call.item, "pending")
  <2>1. back \in Databases /\ back.astatus = db.astatus
      BY <1>0, ReleaseType, RowsOpenNothing DEF RowStates
  <2>2. call.item \in Inputs
      BY <1>4 DEF PromoteFinish, Typed, LaneKnowsItem
  <2>3. db' = Promote(back, call.item) \/ db' = Promote(Materialize(back), call.item)
      BY <1>4 DEF PromoteFinish
  <2>4. RunsKept
      BY <1>4, HandOffKeepsRuns DEF PromoteFinish
  <2> HIDE DEF back
  <2>5. db'.astatus = db.astatus
      BY <2>1, <2>2, <2>3, MessagesOpenNothing, MaterializeType
  <2> QED
      BY <1>4, <2>4, <2>5, AloneByKeeping DEF PromoteFinish
<1>5. CASE /\ \/ (\E i \in Inputs : PromoteClaim(i)) \/ PromoteBlock \/ PromoteFail
              \/ \E i \in Inputs : \/ Update(i) \/ Delete(i) \/ ResolveBlocked(i) \/ Retry(i)
                                   \/ ResumeQueue(i)
              \/ \E i, j \in Inputs : Move(i, j)
              \/ SteerDrop \/ \E u \in Inputs : SteerPrepare(u)
  <2>1. UNCHANGED <<inst, turn>>
      BY <1>5 DEF PromoteClaim, PromoteBlock, PromoteFail, Update, Delete, ResolveBlocked, Retry,
                  ResumeQueue, Move, SteerDrop, SteerPrepare
  <2>2. \/ db' = db
        \/ \E i, s : \/ db' = SetState(db, i, s) \/ db' = Release(db, i, s)
                    \/ db' = DeleteRow(db, i) \/ db' \in Moves(db, i, s)
    <3>1. (\E i \in Inputs : PromoteClaim(i)) \/ PromoteBlock \/ PromoteFail
          => \E i, s : db' = SetState(db, i, s) \/ db' = Release(db, i, s)
        BY DEF PromoteClaim, PromoteBlock, PromoteFail
    <3>2. ASSUME NEW i \in Inputs, \/ Update(i) \/ Delete(i) \/ ResolveBlocked(i) \/ Retry(i)
                                   \/ ResumeQueue(i)
          PROVE  db' = db \/ db' = SetState(db, i, "pending") \/ db' = DeleteRow(db, i)
        BY <3>2 DEF Update, Delete, ResolveBlocked, Retry, ResumeQueue
    <3> QED
        BY <1>5, <3>1, <3>2 DEF Move, SteerDrop, SteerPrepare
  <2>3. db'.astatus = db.astatus
      BY <1>0, <2>2, RowsOpenNothing, DeleteRowOpensNothing, MovesOpenNothing
  <2> QED
      BY <2>1, <2>3, AloneByKeeping DEF RunsKept
<1> QED
    BY <1>1, <1>2, <1>3, <1>4, <1>5 DEF Admission, SteerText

-----------------------------------------------------------------------------
(* The turn. *)

LEMMA RunningStage ==
    ASSUME NEW r \in Runs, TurnStep(r)
    PROVE  r \in Running
BY DEF TurnStep, TurnBlock, TurnUserFact, TurnReserve, TurnRegister, ProviderStart, StreamEnd,
       AbortedPreStream, FailedPreStream, Running, PreStream, InStream

\* A run that prepares is not the active generation.
LEMMA TurnWriteAlone ==
    ASSUME Typed, Alone, NEW r \in Runs, TurnUserFact(r) \/ TurnReserve(r)
    PROVE  Alone'
<1>1. r \in Running /\ turn[r].stage \notin InStream
    BY DEF TurnUserFact, TurnReserve, Running, PreStream, InStream
<1>2. inst' = inst /\ inst.active = None
    BY <1>1, TheRun DEF Alone, ControllerOwnership, TurnUserFact, TurnReserve
<1>3. PICK s \in {"factual", "reserved"}, f \in BOOLEAN :
          turn' = [turn EXCEPT ![r].stage = s] \/ turn' = [turn EXCEPT ![r].stage = s, ![r].fenced = f]
    BY DEF TurnUserFact, TurnReserve
<1>4. turn'[r].stage = s /\ \A q \in Runs \ {r} : turn'[q] = turn[q]
    BY <1>3 DEF Typed, TypeOK, Turns
<1>5. Running' = {r} /\ \A q \in Runs : turn'[q].stage \notin InStream
    BY <1>1, <1>4, TheRun DEF Running, PreStream, InStream
<1>6. OpensNoInteraction(db, db')
  <2> DEFINE answer == WriteAssistant(db, r)
  <2>1. CASE TurnUserFact(r)
    <3>1. AppendUserFact(db, r).astatus = db.astatus
        BY DEF AppendUserFact, WriteUserMessage, Typed, TypeOK, Databases
    <3> QED
        BY <2>1, <3>1 DEF TurnUserFact, OpensNoInteraction
  <2>2. CASE TurnReserve(r)
    <3>1. answer \in Databases /\ OpensNoInteraction(db, answer)
        BY WriteAssistantType, AnswersOpenNothing DEF Typed, TypeOK, AssistantStates
    <3>2. Consume(answer, r).astatus = answer.astatus
        BY <3>1, ConsumeOpensNothing
    <3>3. db' = db \/ db' = answer \/ db' = Consume(answer, r)
        BY <2>2 DEF TurnReserve
    <3> HIDE DEF answer
    <3> QED
        BY <3>1, <3>2, <3>3 DEF OpensNoInteraction
  <2> QED
      BY <2>1, <2>2
<1>7. ~HasInteraction(db')
    BY <1>1, <1>6, TheRun, StillNoInteraction
<1> QED
    BY <1>1, <1>2, <1>5, <1>7, TheRun
    DEF Alone, RunIsGenerating, InteractionRests, OneInteraction, HasInteraction, ControllerOwnership

LEMMA TurnStreamAlone ==
    ASSUME Typed, Alone, NEW r \in Runs, TurnRegister(r) \/ ProviderStart(r)
    PROVE  Alone'
<1>1. r \in Running
    BY DEF TurnRegister, ProviderStart, Running, PreStream, InStream
<1>2. turn'[r].stage \in InStream /\ \A q \in Runs \ {r} : turn'[q] = turn[q]
    BY DEF TurnRegister, ProviderStart, InStream, Typed, TypeOK, Turns
<1>3. Running' = {r} /\ \A q \in Runs \ {r} : turn'[q].stage \notin InStream
    BY <1>1, <1>2, TheRun DEF Running
<1>4. inst'.status = inst.status /\ inst'.active = r /\ inst'.controller = r
  <2>1. CASE TurnRegister(r)
      BY <2>1 DEF TurnRegister, Typed, TypeOK, Instances
  <2>2. CASE ProviderStart(r)
      BY <2>2, NoneIsNoRun DEF ProviderStart, InStream, Alone, ControllerOwnership
  <2> QED
      BY <2>1, <2>2
<1>5. db'.astatus = db.astatus
    BY ConsumeOpensNothing DEF TurnRegister, ProviderStart, Typed, TypeOK
<1>6. ~HasInteraction(db')
    BY <1>1, <1>5, TheRun DEF HasInteraction
<1> QED
    BY <1>1, <1>2, <1>3, <1>4, <1>6, TheRun
    DEF Alone, RunIsGenerating, InteractionRests, OneInteraction, HasInteraction, ControllerOwnership

\* The end of a run, which may leave its own answer paused.
LEMMA EndAlone ==
    ASSUME Typed, Alone, NEW r \in Running, NEW status, turn' = Ended(r), inst' = Cleared(r, status),
           \A a \in Inputs : db'.astatus[a] = "paused" => a = turn[r].answer
    PROVE  Alone'
<1>1. r \in Runs
    BY DEF Running
<1>2. \A s \in Runs : turn'[s].stage \notin PreStream \cup InStream
    BY <1>1, TheRun DEF Ended, NoTurn, PreStream, InStream, Typed, TypeOK, Turns
<1>3. inst'.controller = None /\ inst'.active = None
    BY TheRun DEF Cleared, Typed, TypeOK, Instances
<1> QED
    BY <1>2, <1>3, AloneByResting DEF OneInteraction

LEMMA SetAssistantOpens ==
    ASSUME NEW d \in Databases, NEW i, NEW s \in AssistantStates
    PROVE  \A a \in Inputs \ {i} : SetAssistant(d, i, s).astatus[a] = d.astatus[a]
BY DEF SetAssistant, Databases

LEMMA StreamEndAlone ==
    ASSUME Typed, Alone, NEW r \in Runs, NEW result \in Results, StreamEnd(r, result)
    PROVE  Alone'
<1> DEFINE answered == SetAssistant(db, turn[r].answer, AnswerStatus[result])
<1>1. r \in Running
    BY RunningStage DEF StreamEnd, Running
<1>2. \A a \in Inputs : db.astatus[a] # "paused"
    BY <1>1, TheRun DEF HasInteraction
<1>3. answered \in Databases /\ \A a \in Inputs : answered.astatus[a] = "paused" => a = turn[r].answer
  <2>1. AnswerStatus[result] \in AssistantStates
      BY DEF Results, AnswerStatus, AssistantStates
  <2> QED
      BY <1>2, <2>1, SetAssistantType, SetAssistantOpens DEF Typed, TypeOK
<1>4. Consume(answered, r).astatus = answered.astatus
    BY <1>3, ConsumeOpensNothing
<1>5. Undone(r, result) => \A a \in Inputs : Release(Rollback(db, r), r, "retry_required").astatus[a] # "paused"
  <2>1. SUFFICES ASSUME Undone(r, result)
                 PROVE  \A a \in Inputs : Release(Rollback(db, r), r, "retry_required").astatus[a] # "paused"
      OBVIOUS
  <2>2. Rollback(db, r) \in Databases /\ OpensNoInteraction(db, Rollback(db, r))
      BY <2>1, LaunchedRuns, RollbackType, RollbackOpensNothing DEF Undone, Unsettled, Typed, TypeOK
  <2> QED
      BY <1>2, <2>2, RowsOpenNothing DEF OpensNoInteraction
<1>6. db' = IF Undone(r, result) THEN Release(Rollback(db, r), r, "retry_required")
            ELSE IF Unsettled(r) THEN Consume(answered, r)
            ELSE answered
    BY DEF StreamEnd
<1> HIDE DEF answered
<1>7. \A a \in Inputs : db'.astatus[a] = "paused" => a = turn[r].answer
    BY <1>3, <1>4, <1>5, <1>6
<1> QED
    BY <1>1, <1>7, EndAlone DEF StreamEnd

\* The end of a run that opens nothing.
LEMMA EndQuietly ==
    ASSUME Typed, Alone, NEW r \in Running, NEW status, turn' = Ended(r), inst' = Cleared(r, status),
           OpensNoInteraction(db, db')
    PROVE  Alone'
<1>1. \A a \in Inputs : db'.astatus[a] # "paused"
    BY TheRun DEF OpensNoInteraction, HasInteraction
<1> QED
    BY <1>1, EndAlone

LEMMA AbortedPreStreamAlone ==
    ASSUME Typed, ResumedSkipsPreparation, Alone, NEW r \in Runs, NEW late \in BOOLEAN,
           AbortedPreStream(r, late)
    PROVE  Alone'
<1> DEFINE t == turn[r]
           handoff == t.signal = "handoff"
           written ==
             CASE late /\ t.stage = "preparing" /\ db.msgs[r] = {} -> AppendUserFact(db, r)
               [] late /\ t.stage = "factual" /\ t.source # "steer" /\ ~handoff ->
                      WriteAssistant(db, r)
               [] OTHER -> db
           settled ==
             IF ~Unsettled(r) THEN written
             ELSE IF Exists(written, r) \/ t.source = "steer" THEN Consume(written, r)
             ELSE Release(written, r, "retry_required")
<1>1. r \in Running
    BY DEF AbortedPreStream, Running
<1>2. written \in Databases /\ OpensNoInteraction(db, written)
  <2>1. AppendUserFact(db, r).astatus = db.astatus
      BY DEF AppendUserFact, WriteUserMessage, Typed, TypeOK, Databases
  <2>2. t.stage = "preparing" => AppendUserFact(db, r) \in Databases
      BY LaunchedRuns, AppendUserFactType DEF ResumedSkipsPreparation, InStream, Typed, TypeOK
  <2>3. WriteAssistant(db, r) \in Databases /\ OpensNoInteraction(db, WriteAssistant(db, r))
      BY WriteAssistantType, AnswersOpenNothing DEF Typed, TypeOK, AssistantStates
  <2> QED
      BY <2>1, <2>2, <2>3 DEF OpensNoInteraction, Typed, TypeOK
<1>3. db' = IF r = Resumed
            THEN SetAssistant(db, t.answer, IF handoff THEN "sent" ELSE "error")
            ELSE IF handoff THEN DeleteAssistant(settled, r)
            ELSE SetAssistant(settled, r, "error")
    BY DEF AbortedPreStream
<1> HIDE DEF written
<1>4. settled \in Databases /\ OpensNoInteraction(db, settled)
  <2>1. Consume(written, r) \in Databases /\ Consume(written, r).astatus = written.astatus
      BY <1>2, ConsumeType, ConsumeOpensNothing
  <2>2. /\ Release(written, r, "retry_required") \in Databases
        /\ Release(written, r, "retry_required").astatus = written.astatus
      BY <1>2, ReleaseType, RowsOpenNothing DEF RowStates
  <2> QED
      BY <1>2, <2>1, <2>2 DEF OpensNoInteraction
<1> HIDE DEF settled
<1>5. OpensNoInteraction(db, db')
  <2>1. \A s \in {"sent", "error"} : OpensNoInteraction(db, SetAssistant(db, t.answer, s))
      BY AnswersOpenNothing DEF Typed, TypeOK, AssistantStates
  <2>2. /\ OpensNoInteraction(settled, DeleteAssistant(settled, r))
        /\ OpensNoInteraction(settled, SetAssistant(settled, r, "error"))
      BY <1>4, AnswersOpenNothing DEF AssistantStates
  <2> QED
      BY <1>3, <1>4, <2>1, <2>2 DEF OpensNoInteraction
<1> QED
    BY <1>1, <1>5, EndQuietly DEF AbortedPreStream

LEMMA FailedPreStreamAlone ==
    ASSUME Typed, Alone, NEW r \in Runs, FailedPreStream(r)
    PROVE  Alone'
<1> DEFINE t == turn[r]
           shown == SetAssistant(db, t.answer, "error")
           kept == IF t.stage = "preparing" THEN db ELSE Rollback(db, r)
<1>1. r \in Running
    BY DEF FailedPreStream, Running
<1>2. shown \in Databases /\ OpensNoInteraction(db, shown)
    BY SetAssistantType, AnswersOpenNothing DEF Typed, TypeOK, AssistantStates
<1>3. Unsettled(r) => kept \in Databases /\ OpensNoInteraction(db, kept)
    BY LaunchedRuns, RollbackType, RollbackOpensNothing
    DEF Unsettled, OpensNoInteraction, Typed, TypeOK
<1>4. db' = IF Unsettled(r) /\ t.source # "steer" THEN Release(kept, r, "retry_required")
            ELSE IF Unsettled(r) THEN Consume(shown, r)
            ELSE shown
    BY DEF FailedPreStream
<1> HIDE DEF shown, kept
<1>5. OpensNoInteraction(db, db')
    BY <1>2, <1>3, <1>4, ConsumeOpensNothing, RowsOpenNothing DEF OpensNoInteraction
<1> QED
    BY <1>1, <1>5, EndQuietly DEF FailedPreStream

LEMMA TurnStepAlone ==
    ASSUME Typed, ResumedSkipsPreparation, Alone, NEW r \in Runs, TurnStep(r)
    PROVE  Alone'
<1>1. CASE TurnBlock(r)
  <2>1. db'.astatus = db.astatus
      BY <1>1, RowsOpenNothing DEF TurnBlock, Typed, TypeOK
  <2> QED
      BY <1>1, <2>1, RunningStage, EndQuietly DEF TurnBlock, TurnStep, OpensNoInteraction
<1> QED
    BY <1>1, TurnWriteAlone, TurnStreamAlone, StreamEndAlone, AbortedPreStreamAlone,
       FailedPreStreamAlone
    DEF TurnStep

-----------------------------------------------------------------------------
(* The rest. *)

LEMMA FinalizeAlone ==
    ASSUME Typed, Alone, NEW i \in Inputs, Finalize(i)
    PROVE  Alone'
<1>1. turn[i].stage = "finishing" /\ turn' = [turn EXCEPT ![i] = NoTurn] /\ UNCHANGED <<db, inst>>
    BY DEF Finalize
<1>2. \A r \in Runs : \/ turn'[r].stage = turn[r].stage
                       \/ {turn[r].stage, turn'[r].stage} \cap (PreStream \cup InStream) = {}
    BY <1>1 DEF NoTurn, PreStream, InStream, Typed, TypeOK
<1>3. Running' = Running /\ \A r \in Runs : turn'[r].stage \in InStream <=> turn[r].stage \in InStream
    BY <1>2 DEF Running
<1> QED
    BY <1>1, <1>3
    DEF Alone, RunIsGenerating, InteractionRests, OneInteraction, HasInteraction, ControllerOwnership,
        Running

LEMMA CancelAlone ==
    ASSUME Typed, Alone, Cancel
    PROVE  Alone'
<1>1. RunsKept
    BY DEF Cancel, Stopped, RunsKept, Typed, TypeOK, Turns
<1>2. CASE UNCHANGED <<db, inst>>
    BY <1>1, <1>2, AloneByKeeping DEF OpensNoInteraction
<1>3. CASE inst.active = None /\ inst' = [inst EXCEPT !.controller = None] /\ UNCHANGED db
  <2>1. inst'.controller = None /\ inst'.active = None /\ inst'.status = inst.status
      BY <1>3 DEF Typed, TypeOK, Instances
  <2>2. \A r \in Runs : turn[r].stage \notin InStream
      BY <1>3, NoneIsNoRun DEF Alone, ControllerOwnership
  <2> QED
      BY <1>1, <1>3, <2>1, <2>2, SameRunning
      DEF Alone, RunIsGenerating, InteractionRests, OneInteraction, HasInteraction,
          ControllerOwnership, RunsKept
<1>4. CASE /\ inst.active = None /\ inst.controller = None /\ HasInteraction(db)
           /\ db' = [db EXCEPT !.astatus = [i \in Inputs |->
                        IF db.astatus[i] = "paused" THEN "error" ELSE db.astatus[i]]]
           /\ inst' = [inst EXCEPT !.status = "idle"]
  <2>1. \A r \in Runs : turn'[r].stage \notin PreStream \cup InStream
      BY <1>1, <1>4 DEF Alone, InteractionRests, Running, RunsKept
  <2>2. inst'.controller = None /\ inst'.active = None
      BY <1>4 DEF Typed, TypeOK, Instances
  <2>3. OneInteraction'
      BY <1>4 DEF OneInteraction, Typed, TypeOK, Databases
  <2> QED
      BY <2>1, <2>2, <2>3, AloneByResting
<1> QED
    BY <1>2, <1>3, <1>4 DEF Cancel

LEMMA RespondAlone ==
    ASSUME Typed, Alone, NEW a \in Inputs, Respond(a)
    PROVE  Alone'
<1>1. Running = {} /\ \A b \in Inputs \ {a} : db.astatus[b] # "paused"
    BY DEF Respond, Alone, InteractionRests, OneInteraction, HasInteraction
<1>2. turn'[Resumed].stage \in PreStream
    BY NoneIsNoRun DEF Respond, PreStream, Typed, TypeOK
<1>3. \A s \in Runs \ {Resumed} : turn'[s].stage \notin PreStream \cup InStream
    BY <1>1, NoRun DEF Respond, Typed, TypeOK
<1>4. inst'.status = "generating" /\ inst'.controller = Resumed /\ inst'.active = None
    BY <1>1, NoRun DEF Respond, Typed, TypeOK, Instances
<1>5. ~HasInteraction(db')
    BY <1>1 DEF Respond, HasInteraction, Typed, TypeOK, Databases
<1> QED
    BY <1>2, <1>3, <1>4, <1>5, NoneIsNoRun, AloneByStarting

LEMMA CrashAlone ==
    ASSUME Typed, Alone, Restart \/ \E r \in Runs : RestartMidRollback(r)
    PROVE  Alone'
<1>1. \E d \in Databases : OpensNoInteraction(db, d) /\ CrashWith(d)
  <2>1. CASE Restart
      BY <2>1 DEF Restart, OpensNoInteraction, Typed, TypeOK
  <2>2. CASE \E r \in Runs : RestartMidRollback(r)
      BY <2>2, LaunchedRuns, RollbackType, RollbackOpensNothing
      DEF RestartMidRollback, Undone, Unsettled, Typed, TypeOK
  <2> QED
      BY <2>1, <2>2
<1>2. PICK d \in Databases : OpensNoInteraction(db, d) /\ CrashWith(d)
    BY <1>1
<1>3. \A r \in Runs : turn'[r].stage \notin PreStream \cup InStream
    BY <1>2 DEF CrashWith, NoTurn, PreStream, InStream
<1>4. inst'.controller = None /\ inst'.active = None
    BY <1>2 DEF CrashWith, IdleInstance
<1>5. OneInteraction'
    BY <1>2, RecoverOpensNothing DEF CrashWith, OpensNoInteraction, Alone, OneInteraction
<1> QED
    BY <1>3, <1>4, <1>5, AloneByResting

LEMMA AloneStep ==
    ASSUME Typed, ResumedSkipsPreparation, Alone, [Next]_vars
    PROVE  Alone'
<1>1. CASE UNCHANGED vars \/ NextIfReady
    BY <1>1, AloneByKeeping DEF vars, NextIfReady, RunsKept, OpensNoInteraction
<1> QED
    BY <1>1, AdmissionAlone, DrainAlone, TurnStepAlone, FinalizeAlone, CancelAlone, RespondAlone,
       CrashAlone
    DEF Next

-----------------------------------------------------------------------------

\* For any number of submissions, whatever the user, the provider and a crash do: the
\* lease belongs to one launched turn, at most one run is under way, the published
\* controller and active generation are its own, and it keeps the session generating.
THEOREM OwnershipHolds == Spec => []OwnershipInvariant
<1> DEFINE Inv == Typed /\ ResumedSkipsPreparation /\ LeaseOwnership /\ Alone
<1>1. Init => Inv
  <2>1. Init => LeaseOwnership /\ ResumedSkipsPreparation
      BY NoneIsNoRun DEF Init, RestedPump, NoTurn, LeaseOwnership, ResumedSkipsPreparation
  <2>2. ASSUME Init PROVE Alone
    <3>1. Running = {}
        BY <2>2 DEF Init, NoTurn, Running, PreStream, InStream
    <3>2. ~HasInteraction(db)
        BY <2>2 DEF Init, EmptyDatabase, HasInteraction
    <3> QED
        BY <2>2, <3>1, <3>2
        DEF Init, IdleInstance, NoTurn, InStream, Alone, RunIsGenerating, InteractionRests,
            OneInteraction, HasInteraction, ControllerOwnership
  <2> QED
      BY <2>1, <2>2, InitType
<1>2. Inv /\ [Next]_vars => Inv'
    BY NextType, LeaseStep, AloneStep
<1>3. Inv => OwnershipInvariant
    BY DEF Typed, Alone, OwnershipInvariant
<1> HIDE DEF Inv
<1> QED
    BY <1>1, <1>2, <1>3, PTL DEF Spec

\* A set whose members are all the same has at most one.
LEMMA AtMostOneMember ==
    ASSUME NEW S, \A r, s \in S : r = s
    PROVE  Cardinality(S) <= 1
<1>1. CASE S = {}
    BY <1>1, FS_EmptySet
<1>2. CASE S # {}
  <2>1. PICK r \in S : S = {r}
      BY <1>2
  <2> QED
      BY <2>1, FS_Singleton
<1> QED
    BY <1>1, <1>2

\* A session never runs two turns at once, however many inputs wait, whoever launches
\* or resumes them, and over a crash.
THEOREM OneRunAtATime == Spec => []AtMostOneRun
<1>1. OwnershipInvariant => AtMostOneRun
    BY AtMostOneMember DEF OwnershipInvariant, AtMostOneRun
<1> QED
    BY <1>1, OwnershipHolds, PTL

\* Stop and a steer message reach the run under way or none: the abort controller and
\* the active generation never point at a run that is over.
THEOREM ControllerOwned == Spec => []ControllerOwnership
<1>1. OwnershipInvariant => ControllerOwnership
    BY DEF OwnershipInvariant
<1> QED
    BY <1>1, OwnershipHolds, PTL
=============================================================================
