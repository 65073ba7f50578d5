--------------------------- MODULE PendingInputStore ---------------------------
(***************************************************************************)
(* The durable half of a session's waiting lane: the pending-input rows    *)
(* and the transcript messages they are tied to, as pure operators over    *)
(* one database value d.  Every operator is one SQLite transaction of the  *)
(* code (SessionPendingInputs, SessionPendingInputStore,                   *)
(* SessionTranscript), so a caller's action applies it in one step.        *)
(*                                                                         *)
(* A submission u \in Inputs names three things at once: the row that      *)
(* submission created, the user message that carries its text, and the     *)
(* assistant message that answers its row.  No input ever owns two live    *)
(* ones of a kind.  Submissions are numbered in the order they arrive,     *)
(* which is the order of created_at.                                       *)
(***************************************************************************)
EXTENDS Integers, FiniteSets

CONSTANTS
    N,          \* how many submissions an instance explores
    MaxActive   \* MAX_ACTIVE_PENDING_INPUTS

ASSUME StoreAssumption == N \in Nat \ {0} /\ MaxActive \in Nat \ {0}

Inputs == 1 .. N

RowStates == {"none", "pending", "claimed", "blocked", "retry_required", "consumed"}
MessageStates == {"none", "pending", "sent", "error"}
Receipts == {"none", "unread", "read"}
AssistantStates == {"none", "pending", "paused", "sent", "error"}

(***************************************************************************)
(* order is queue_order (0 is null), msgs is message_ids_json.  seq and    *)
(* aseq are the order_seq of the user and the assistant message, 0 when    *)
(* the message does not exist; only their relative order matters, so tail  *)
(* stands for MAX(order_seq) and may count a deleted message.              *)
(***************************************************************************)
Databases ==
    [mode    : [Inputs -> {"queue", "steer"}],
     state   : [Inputs -> RowStates],
     order   : [Inputs -> Nat],
     msgs    : [Inputs -> SUBSET Inputs],
     seq     : [Inputs -> Nat],
     status  : [Inputs -> MessageStates],
     receipt : [Inputs -> Receipts],
     aseq    : [Inputs -> Nat],
     astatus : [Inputs -> AssistantStates],
     tail    : Nat]

EmptyDatabase ==
    [mode    |-> [i \in Inputs |-> "queue"],
     state   |-> [i \in Inputs |-> "none"],
     order   |-> [i \in Inputs |-> 0],
     msgs    |-> [i \in Inputs |-> {}],
     seq     |-> [i \in Inputs |-> 0],
     status  |-> [i \in Inputs |-> "none"],
     receipt |-> [i \in Inputs |-> "none"],
     aseq    |-> [i \in Inputs |-> 0],
     astatus |-> [i \in Inputs |-> "none"],
     tail    |-> 0]

-----------------------------------------------------------------------------
(* What the store is asked. *)

\* A slip: claimed rows are taken for waiting ones, and can be edited.
WaitingStatesWithClaimed == {"pending", "blocked", "retry_required", "claimed"}

WaitingStates == {"pending", "blocked", "retry_required"}
ActiveStates == WaitingStates \cup {"claimed"}

QueueRows(d) == {i \in Inputs : d.mode[i] = "queue" /\ d.state[i] \in ActiveStates}
WaitingQueue(d) == {i \in QueueRows(d) : d.state[i] \in WaitingStates}
WaitingSteer(d) == {i \in Inputs : d.mode[i] = "steer" /\ d.state[i] \in {"pending", "blocked"}}

IsFull(d) == Cardinality(QueueRows(d)) >= MaxActive
HasBlocking(d) == \E i \in Inputs : d.state[i] = "blocked"
HasClaimed(d) == \E i \in Inputs : d.state[i] = "claimed"
HasRetryRequired(d) == \E i \in QueueRows(d) : d.state[i] = "retry_required"
HasInteraction(d) == \E i \in Inputs : d.astatus[i] = "paused"

\* The waiting queue row that stands first, whatever its state.
QueueHead(d) == {i \in WaitingQueue(d) : \A j \in WaitingQueue(d) : d.order[i] <= d.order[j]}

\* A slip: the first executable row, whatever stands ahead of it.
NextQueueSkipping(d) ==
    LET P == {i \in WaitingQueue(d) : d.state[i] = "pending"}
    IN  {i \in P : \A j \in P : d.order[i] <= d.order[j]}

\* getNextPendingQueueInput, getNextPendingSteerInput: at most one row, and none
\* when the row that stands first is not executable.
NextQueue(d) == {i \in QueueHead(d) : d.state[i] = "pending"}
NextSteer(d) ==
    {i \in WaitingSteer(d) : d.state[i] = "pending" /\ \A j \in WaitingSteer(d) : i <= j}
NextInput(d) == IF NextSteer(d) # {} THEN NextSteer(d) ELSE NextQueue(d)

IsOpenSteer(d, i) == i \in Inputs /\ d.mode[i] = "steer" /\ d.state[i] = "pending"
Exists(d, u) == d.seq[u] > 0
IsUnread(d, u) == Exists(d, u) /\ d.status[u] = "pending" /\ d.receipt[u] = "unread"

-----------------------------------------------------------------------------
(* Rows. *)

\* A queue row takes MAX(queue_order) + 1; Resequence keeps the orders dense.
Enqueue(d, u, state) ==
    [d EXCEPT !.mode[u] = "queue",
              !.state[u] = state,
              !.order[u] = Cardinality(QueueRows(d)) + 1,
              !.msgs[u] = {}]

Resequence(d) ==
    [d EXCEPT !.order = [i \in Inputs |->
        IF i \in QueueRows(d)
        THEN Cardinality({j \in QueueRows(d) : d.order[j] <= d.order[i]})
        ELSE 0]]

\* A slip: the rows left behind keep their orders.
DeleteInPlace(d, i) == [d EXCEPT !.state[i] = "none", !.msgs[i] = {}]

DeleteRow(d, i) == Resequence([d EXCEPT !.state[i] = "none", !.msgs[i] = {}])

SetState(d, i, state) == [d EXCEPT !.state[i] = state]

\* A slip: the link is dropped and the row stays claimed.
ReleaseLinkOnly(d, i, state) == [d EXCEPT !.msgs[i] = {}]

\* Releasing a claimed queue row forgets the message it was linked to.
Release(d, i, state) == [d EXCEPT !.state[i] = state, !.msgs[i] = {}]

\* Row i takes the place of row j.  The waiting rows are permuted among the
\* slots they hold: claimed rows do not move, and the other waiting rows keep
\* their relative order.
Moves(d, i, j) ==
    LET W == WaitingQueue(d)
        Slots == {d.order[w] : w \in W}
    IN  {[d EXCEPT !.order = [k \in Inputs |-> IF k \in W THEN o[k] ELSE d.order[k]]] :
            o \in {p \in [W -> Slots] :
                    /\ p[i] = d.order[j]
                    /\ {p[w] : w \in W} = Slots
                    /\ \A a, b \in W \ {i} : p[a] < p[b] <=> d.order[a] < d.order[b]}}

-----------------------------------------------------------------------------
(* Rows and the messages they promise. *)

WriteUserMessage(d, u, status, receipt) ==
    [d EXCEPT !.tail = d.tail + 1,
              !.seq[u] = d.tail + 1,
              !.status[u] = status,
              !.receipt[u] = receipt]

WriteAssistant(d, i) ==
    [d EXCEPT !.tail = d.tail + 1, !.aseq[i] = d.tail + 1, !.astatus[i] = "pending"]

SetAssistant(d, i, status) ==
    IF d.aseq[i] = 0 THEN d ELSE [d EXCEPT !.astatus[i] = status]

DeleteAssistant(d, i) == [d EXCEPT !.aseq[i] = 0, !.astatus[i] = "none"]

\* createClaimedQueueUserMessage: the claimed row's text becomes a sent fact.
AppendUserFact(d, i) ==
    [WriteUserMessage(d, i, "sent", "none") EXCEPT !.msgs[i] = {i}]

\* A slip: the interrupted row's message is left to the turn.
MaterializeLater(d) == d

\* materializePreStreamSource: before a steer message is written, the claimed
\* queue row it interrupts gets its user message.
Unmaterialized(d) == {c \in QueueRows(d) : d.state[c] = "claimed" /\ d.msgs[c] = {}}
Materialize(d) ==
    IF Unmaterialized(d) = {} THEN d
    ELSE AppendUserFact(d, CHOOSE c \in Unmaterialized(d) : TRUE)

\* acceptSteerMessage: a visible pending message, in the open steer row if
\* there is one, else in a row of its own.
AcceptSteer(d, u, open) ==
    LET w == WriteUserMessage(d, u, "pending", "unread")
    IN  IF IsOpenSteer(d, open)
        THEN [w EXCEPT !.msgs[open] = d.msgs[open] \cup {u}]
        ELSE [w EXCEPT !.mode[u] = "steer",
                       !.state[u] = "pending",
                       !.order[u] = 0,
                       !.msgs[u] = {u}]

\* promoteQueuedInputToSteerMessage: the row keeps its identity and created_at.
Promote(d, i) ==
    Resequence([WriteUserMessage(d, i, "pending", "unread") EXCEPT
                   !.mode[i] = "steer", !.msgs[i] = d.msgs[i] \cup {i}])

\* claimSteerInput reserves the answer and marks every message read; it throws
\* when a linked message is missing or is not an unread one.
CanClaimSteer(d, i) == d.msgs[i] # {} /\ \A u \in d.msgs[i] : IsUnread(d, u)
ClaimSteer(d, i) ==
    LET w == WriteAssistant(d, i)
    IN  [w EXCEPT !.state[i] = "claimed",
                  !.receipt = [u \in Inputs |->
                      IF u \in d.msgs[i] THEN "read" ELSE d.receipt[u]]]

Claim(d, i) == IF d.mode[i] = "steer" THEN ClaimSteer(d, i) ELSE SetState(d, i, "claimed")
CanClaim(d, i) == d.mode[i] = "steer" => CanClaimSteer(d, i)

SetMessages(d, S, status) ==
    [d EXCEPT !.status = [u \in Inputs |-> IF u \in S THEN status ELSE d.status[u]]]

\* A slip: the steer row is consumed and its messages stay pending.
ConsumeRowOnly(d, i) ==
    IF d.mode[i] = "steer" THEN SetState(d, i, "consumed") ELSE DeleteRow(d, i)

\* consumeQueuedInput deletes the row; consumeSteerInput keeps it and settles
\* its messages.
Consume(d, i) ==
    IF d.mode[i] = "steer"
    THEN SetState(SetMessages(d, d.msgs[i], "sent"), i, "consumed")
    ELSE DeleteRow(d, i)

\* deleteFromOrderSeq: everything from the turn's user message on goes.
Rollback(d, i) ==
    IF ~Exists(d, i) THEN d
    ELSE LET from == d.seq[i]
             gone(s) == s > 0 /\ s >= from
         IN  [d EXCEPT
                !.seq = [u \in Inputs |-> IF gone(d.seq[u]) THEN 0 ELSE d.seq[u]],
                !.status = [u \in Inputs |-> IF gone(d.seq[u]) THEN "none" ELSE d.status[u]],
                !.receipt = [u \in Inputs |-> IF gone(d.seq[u]) THEN "none" ELSE d.receipt[u]],
                !.aseq = [u \in Inputs |-> IF gone(d.aseq[u]) THEN 0 ELSE d.aseq[u]],
                !.astatus = [u \in Inputs |-> IF gone(d.aseq[u]) THEN "none" ELSE d.astatus[u]],
                !.tail = from - 1]

-----------------------------------------------------------------------------
(* recoverInputsAfterRestart and recoverPendingMessages. *)

\* A slip: a claim counts as started whether or not its message was written.
HasFactOnceClaimed(d, i) == d.state[i] = "claimed"

HasFact(d, i) == \E u \in d.msgs[i] : Exists(d, u)
SteerRows(d, state) == {i \in Inputs : d.mode[i] = "steer" /\ d.state[i] = state}

\* settleSteerMessages and failPendingSteerMessages throw on any other message,
\* and the throw abandons the whole recovery.
Recoverable(d) ==
    /\ \A i \in SteerRows(d, "claimed") :
          \A u \in d.msgs[i] : Exists(d, u) /\ d.status[u] = "pending"
    /\ \A i \in SteerRows(d, "pending") : \A u \in d.msgs[i] : IsUnread(d, u)

Recover(d) ==
    LET Answered == {i \in QueueRows(d) : d.state[i] = "claimed" /\ HasFact(d, i)}
        Unanswered == {i \in QueueRows(d) : d.state[i] = "claimed" /\ ~HasFact(d, i)}
        Settled == SteerRows(d, "claimed")
        Failed == SteerRows(d, "pending")
        linked(S) == UNION {d.msgs[i] : i \in S}
    IN  Resequence([d EXCEPT
            !.state = [i \in Inputs |->
                CASE i \in Answered -> "none"
                  [] i \in Unanswered -> "pending"
                  [] i \in Settled \cup Failed -> "consumed"
                  [] OTHER -> d.state[i]],
            !.msgs = [i \in Inputs |-> IF i \in Answered \cup Unanswered THEN {} ELSE d.msgs[i]],
            !.status = [u \in Inputs |->
                IF u \in linked(Settled) THEN "sent"
                ELSE IF u \in linked(Failed) THEN "error" ELSE d.status[u]],
            !.astatus = [i \in Inputs |->
                IF d.astatus[i] = "pending" THEN "error" ELSE d.astatus[i]]])

\* A slip: the claims a restart gives back are not held.
HeldByRestartWaitingOnly(d) ==
    {i \in QueueRows(d) : d.state[i] \in {"pending", "blocked"}}

\* The queue rows a restart holds until the user acts.
HeldByRestart(d) ==
    {i \in QueueRows(d) : d.state[i] \in {"pending", "blocked"}
                            \/ (d.state[i] = "claimed" /\ ~HasFact(d, i))}
=============================================================================
