------------------------- MODULE PendingInputProperties -------------------------
(***************************************************************************)
(* What a session's waiting lane promises, over the state of PendingInputs.*)
(***************************************************************************)
EXTENDS PendingInputs

\* Runs that own the session: launched or resumed and not yet settled.
Running == {r \in Runs : turn[r].stage \in PreStream \cup InStream}

-----------------------------------------------------------------------------
(* Ownership. *)

\* A session never runs two turns at once: not two launched ones, and no launched
\* one beside the run that resumes a paused message.
AtMostOneRun == Cardinality(Running) <= 1

\* The lease is held for exactly one launched turn, from its launch to its
\* finally block, and by nobody else.
LeaseOwnership ==
    /\ pump.lease = "turn" <=> pump.launched # None
    /\ \A i \in Inputs : turn[i].stage # "none" <=> pump.launched = i

\* The abort controller and the active generation the instance publishes belong to
\* the run under way, so Stop and a steer message never reach a finished one.
ControllerOwnership ==
    /\ inst.controller # None => inst.controller \in Running
    /\ inst.active # None =>
          /\ inst.active = inst.controller
          /\ turn[inst.active].stage \in InStream
    /\ \A r \in Runs : turn[r].stage \in InStream => inst.active = r

\* Why a second run never starts: a run keeps the session generating, an interaction
\* outlives the run that asked for it, one is open at a time, a waiting admission call
\* knows the row it works on, and a resumed run has no input of its own to prepare.
RunIsGenerating == Running # {} => inst.status = "generating"
InteractionRests == HasInteraction(db) => Running = {}
OneInteraction ==
    \A a, b \in Inputs : db.astatus[a] = "paused" /\ db.astatus[b] = "paused" => a = b
LaneKnowsItem == call.lane # "free" => call.item \in Inputs
ResumedSkipsPreparation == turn[Resumed].stage \in {"none", "reserved"} \cup InStream

\* The ownership facts together: no step of any actor leaves them.
OwnershipInvariant ==
    /\ TypeOK
    /\ LaneKnowsItem
    /\ ResumedSkipsPreparation
    /\ LeaseOwnership
    /\ \A r, s \in Running : r = s
    /\ RunIsGenerating
    /\ InteractionRests
    /\ OneInteraction
    /\ ControllerOwnership

\* The in-memory fence on a claim and the durable row tell the same story: until
\* the claim is settled the row stays claimed whatever the user does meanwhile,
\* and a run that goes on after settling it has no row left.
FenceMatchesRow ==
    \A i \in Inputs :
        /\ turn[i].stage # "none" /\ ~turn[i].fenced => db.state[i] = "claimed"
        /\ i \in Running /\ turn[i].fenced => db.state[i] = "none"

\* Two rows are claimed at once only while one is being prepared for promotion,
\* so the code that looks for the one claimed row of a session finds it.
ClaimsAccounted ==
    \A i \in Inputs : db.state[i] = "claimed" =>
        \/ pump.launched = i /\ ~turn[i].fenced
        \/ call.lane = "promote" /\ call.item = i

-----------------------------------------------------------------------------
(* The queue and the transcript. *)

\* Queue rows, claimed ones included, hold the slots 1..n with none shared or
\* skipped, whatever sequence of edits, moves, promotions and recoveries led here.
QueueOrderDense ==
    {db.order[i] : i \in QueueRows(db)} = 1 .. Cardinality(QueueRows(db))

\* A row's receipt follows its messages: unread while a steer row waits, read and
\* with an answer reserved once it is claimed, settled when it is consumed.
ReceiptsFollowRows ==
    \A i \in Inputs :
        /\ IsOpenSteer(db, i) => CanClaimSteer(db, i)
        /\ i \in SteerRows(db, "claimed") =>
              /\ db.msgs[i] # {}
              /\ \A u \in db.msgs[i] : db.status[u] = "pending" /\ db.receipt[u] = "read"
        /\ i \in SteerRows(db, "consumed") =>
              \A u \in db.msgs[i] : db.status[u] \in {"sent", "error"}

\* A steer message stands in the transcript after the text of the queued turn it
\* interrupted, even when that turn had not written its own message yet.
HandoffBoundary ==
    \A i \in Inputs :
        /\ turn[i].signal = "handoff" /\ turn[i].stage \in PreStream
        /\ turn[i].source # "steer"
        => /\ Exists(db, i)
           /\ \A u \in Inputs : IsUnread(db, u) => db.seq[u] > db.seq[i]

\* The answer under way stands below every message it answers and above every steer
\* message that is still unread: a steer message is answered by a new assistant
\* message below it, never by one written above.
SteerBetweenAnswers ==
    /\ \A i \in SteerRows(db, "claimed") : \A u \in db.msgs[i] : db.seq[u] < db.aseq[i]
    /\ \A r \in Running : \A u \in Inputs :
          turn[r].answer # None /\ IsUnread(db, u) => db.aseq[turn[r].answer] < db.seq[u]

\* Nothing the user submitted is lost: until he deletes it, it waits in a row or
\* stands in the transcript.
NoInputLost ==
    \A u \in hist.accepted \ hist.withdrawn :
        \/ Exists(db, u)
        \/ db.state[u] \in ActiveStates

\* An input the provider may have seen does not wait where the pump would start it
\* again by itself: its row is held, needs a Retry, or is gone.
NoSilentReplay ==
    \A i \in hist.unapproved \cap QueueRows(db) :
        db.state[i] = "pending" => i \in pump.held

\* A crash at any moment leaves a database the next start can reconcile.
AlwaysRecoverable == Recoverable(db)

\* An accepted steer message is never deleted or demoted.
SteerFactsSurvive ==
    \A i \in Inputs : db.mode[i] = "steer" /\ db.state[i] \in ActiveStates =>
        \A u \in db.msgs[i] : Exists(db, u)

\* A submission nobody has made yet has left no trace.
Unsubmitted(i) ==
    /\ db.state[i] = "none" /\ turn[i].stage = "none"
    /\ i \notin pump.held \cup hist.unapproved

Promoting(i) == call.lane = "promote" /\ call.item = i

\* Why the fence and the row agree: each claim has one owner, a launched turn or the
\* promotion that took the row without the lease; a turn is fenced exactly from the
\* write that settles its claim; and a row keeps the lane its turn was launched from.
ClaimStanding(i) ==
    /\ turn[i].stage # "none" /\ ~turn[i].fenced =>
          /\ db.state[i] = "claimed"
          /\ turn[i].source = "steer" <=> db.mode[i] = "steer"
    /\ turn[i].stage # "none" => turn[i].source # "resume"
    /\ i \in Running /\ turn[i].fenced => db.state[i] = "none"
    /\ turn[i].stage \in {"preparing", "factual"} => ~turn[i].fenced
    /\ turn[i].stage = "preparing" => turn[i].source # "steer"
    /\ turn[i].stage = "finishing" => turn[i].fenced
    /\ db.state[i] = "claimed" => (pump.launched = i /\ ~turn[i].fenced) \/ Promoting(i)
    /\ Promoting(i) => db.state[i] = "claimed" /\ db.mode[i] = "queue" /\ i \notin Running
    /\ db.state[i] \in {"blocked", "retry_required"} => db.mode[i] = "queue"
    /\ i > hist.submitted => Unsubmitted(i)

\* Why nothing is replayed: the provider has seen a waiting row only if the row is held,
\* and a claimed one only if its run streams now or it was held when it was claimed.
ReplayStanding(i) ==
    /\ i \in pump.held => db.mode[i] = "queue"
    /\ i \in hist.unapproved \cap QueueRows(db) =>
          /\ db.state[i] \in {"pending", "blocked"} => i \in pump.held
          /\ db.state[i] = "claimed" =>
                turn[i].stage = "streaming" \/ (Promoting(i) /\ i \in pump.held)

\* A steer whose attachments are being prepared keeps the gate shut and its place.
SteerCallKept ==
    call.lane = "steer" => call.gate = "steer" /\ call.item = hist.submitted + 1

\* Claims, fences and holds together: no step of any actor leaves them.
ClaimInvariant ==
    /\ SteerCallKept
    /\ \A i \in Inputs : ClaimStanding(i) /\ ReplayStanding(i)

\* Places in the transcript grow, and an unread message is in a steer row that waits.
Placed(d) ==
    \A u \in Inputs :
        /\ d.seq[u] <= d.tail
        /\ IsUnread(d, u) => \E j \in Inputs : IsOpenSteer(d, j) /\ u \in d.msgs[j]

\* A queue row that waits, or is being promoted, is linked to no message.
EmptyLink(i) == i \in WaitingQueue(db) \/ Promoting(i) => db.msgs[i] = {}

\* Steer messages are part of the instance, sent as such or promoted from the queue.
Steering == "steer" \in Sources \/ "steerFiles" \in Sources \/ "promote" \in Events

\* A provider error may roll a turn back, or steer messages may arrive, but not both.
NoSteerRolledBack == "streamError" \in Events => ~Steering

\* The text of a queued turn: it is written from the stage "factual" on, or by the handoff
\* that came before; until a handoff no message is unread and its own is the last one.
TextStanding(i) ==
    LET t == turn[i]
    IN  t.source # "steer" =>
        /\ t.stage \in {"factual", "reserved"} \cup InStream => Exists(db, i)
        /\ t.stage \in PreStream /\ ~t.fenced =>
              (t.stage = "preparing" /\ t.signal # "handoff") \/ db.msgs[i] # {}
        /\ t.stage \in PreStream /\ t.signal = "live" =>
              /\ inst.controller = i
              /\ \A u \in Inputs : ~IsUnread(db, u)
              /\ t.stage = "preparing" => db.msgs[i] = {}
              /\ t.stage # "preparing" => \A u \in Inputs \ {i} : db.seq[u] < db.seq[i]
        /\ t.stage \in PreStream /\ t.signal = "handoff" =>
              Exists(db, i) /\ \A u \in Inputs : IsUnread(db, u) => db.seq[u] > db.seq[i]
        /\ ~Steering /\ t.stage \in {"factual", "reserved"} \cup InStream =>
              \A u \in Inputs \ {i} : db.seq[u] < db.seq[i]

\* Why a steer message stands below the text of the turn it interrupts.
BoundaryInvariant == Placed(db) /\ \A i \in Inputs : EmptyLink(i) /\ TextStanding(i)

\* What is known of message u while its steer row is in state s.
ReceiptFits(d, s, u) ==
    /\ s = "pending" => d.status[u] = "pending" /\ d.receipt[u] = "unread"
    /\ s = "claimed" => d.status[u] = "pending" /\ d.receipt[u] = "read"
    /\ s = "consumed" => d.status[u] \in {"sent", "error"}

\* A steer row carries its own message, and merged ones, of the n submissions so far,
\* that have no row; two rows share none.
SteerStanding(d, n, i) ==
    /\ d.state[i] \in {"pending", "claimed", "consumed"}
    /\ i \in d.msgs[i]
    /\ \A u \in d.msgs[i] : /\ Exists(d, u) /\ u <= n /\ ReceiptFits(d, d.state[i], u)
                            /\ u # i => d.state[u] = "none"
    /\ \A j \in Inputs \ {i} : d.mode[j] = "steer" => d.msgs[i] \cap d.msgs[j] = {}

SteerRowsStand(d, n) == \A i \in Inputs : d.mode[i] = "steer" => SteerStanding(d, n, i)

\* A queue row is linked to no message but its own.
LinksOwn(d) == \A i \in QueueRows(d) : d.msgs[i] \subseteq {i}

\* Each submission of S waits in a row or stands in the transcript.
Present(d, S) == \A u \in S : Exists(d, u) \/ d.state[u] \in ActiveStates

\* Why no message is lost and every receipt fits its row.
TranscriptInvariant ==
    /\ SteerRowsStand(db, hist.submitted)
    /\ LinksOwn(db)
    /\ Present(db, hist.accepted \ hist.withdrawn)

-----------------------------------------------------------------------------
(* The pump. *)

\* A row that needs Retry fences the rows behind it: the pump starts none of them.
RetryFence ==
    [][\A i, j \in Inputs :
          turn[i].stage = "none" /\ turn'[i].stage # "none" /\ turn'[i].source # "steer"
          /\ db.state[j] = "retry_required" => i # j /\ db.order[j] > db'.order[i]]_vars

\* Nothing is at work: no lease, no continuation, no call, no run.
Quiet ==
    /\ pump.lease = "free" /\ ~pump.next
    /\ call = NoCall
    /\ Running = {}

\* A session that rests idle has nothing the pump could start: no wakeup was lost.
NoStrandedInput ==
    Quiet /\ inst.status = "idle" /\ ~HasInteraction(db) /\ ~HasBlocking(db)
        => \A i \in NextInput(db) : db.mode[i] = "queue" /\ i \in pump.held
-----------------------------------------------------------------------------
(* Against the contract. *)

\* The row that carries message u: its own, or the steer row it was merged into.
Carries(i, u) == db.mode[i] = "steer" /\ db.state[i] # "none" /\ u \in db.msgs[i]
Carriers(u) == {i \in Inputs : Carries(i, u)}
Carrier(u) == IF Carriers(u) = {} THEN u ELSE CHOOSE i \in Carriers(u) : TRUE

\* Row i is being answered until its answer is final: while its turn runs, while
\* the answer is paused, and while the run that resumes it runs.
Answering(i) ==
    \/ i \in Running
    \/ db.astatus[i] = "paused"
    \/ Resumed \in Running /\ turn[Resumed].answer = i

RowPhase(i) ==
    CASE Answering(i) -> "running"
      [] ~Answering(i) /\ db.state[i] \in {"pending", "claimed"} ->
            IF db.mode[i] = "queue" /\ i \in pump.held THEN "parked" ELSE "waiting"
      [] ~Answering(i) /\ db.state[i] \in {"blocked", "retry_required"} -> "parked"
      [] OTHER -> "answered"

PhaseOf(u) ==
    CASE u \notin hist.accepted -> "absent"
      [] u \in hist.accepted \cap hist.withdrawn -> "withdrawn"
      [] OTHER -> RowPhase(Carrier(u))

Phase == [u \in Inputs |-> PhaseOf(u)]

Contract == INSTANCE PendingInputContract WITH phase <- Phase

\* Rows, leases, claims and transcript together keep the promise of the contract.
MeetsContract == Contract!Spec

\* A steer row carries submitted messages only, and none that has a row of its own.
CarriersStand(n) ==
    \A i, u \in Inputs : Carries(i, u) => u <= n /\ (u # i => db.state[u] = "none")

\* The answer of row i waits for the user, or is being resumed.
Resumable(i) ==
    \/ db.astatus[i] = "paused"
    \/ turn[Resumed].stage # "none" /\ turn[Resumed].answer = i

\* A launched turn answers its own row, in a message it has reserved before it streams;
\* a row whose answer is paused or resumed is settled.
AnswerStanding(i) ==
    /\ i > hist.submitted => db.aseq[i] = 0
    /\ turn[i].stage # "none" => turn[i].answer = i
    /\ turn[i].stage \in {"reserved"} \cup InStream => db.aseq[i] > 0
    /\ turn[i].stage = "factual" /\ turn[i].source = "steer" => db.aseq[i] > 0
    /\ Resumable(i) => db.state[i] \in {"none", "consumed"} /\ db.aseq[i] > 0

\* Why a step of the lane is a step of the contract: each message has one carrier, and a
\* row is answered in one place.
PhaseInvariant ==
    /\ hist.accepted \cup hist.withdrawn \subseteq 1 .. hist.submitted
    /\ CarriersStand(hist.submitted)
    /\ turn[Resumed].stage # "none" => turn[Resumed].answer \in Inputs
    /\ \A i \in Inputs : AnswerStanding(i)

-----------------------------------------------------------------------------
(* The order of the answers. *)

AnswersPlaced(d) == \A i \in Inputs : d.aseq[i] <= d.tail

\* The answer of a claimed steer row stands below the messages it answers.
AnsweredBelow(d) == \A i \in SteerRows(d, "claimed") : \A u \in d.msgs[i] : d.seq[u] < d.aseq[i]

\* Why a steer message is answered below itself: one steer row is open at a time, so that a
\* claim leaves no unread message behind, and a new one goes below every answer there is.
SteerOrderInvariant ==
    /\ AnswersPlaced(db)
    /\ AnsweredBelow(db)
    /\ \A i \in Inputs : IsOpenSteer(db, i) => inst.openSteer = i
    /\ \A a, u \in Inputs : Answering(a) /\ IsUnread(db, u) => db.aseq[a] < db.seq[u]

-----------------------------------------------------------------------------
(* Who wakes the pump. *)

\* Nothing changes the head of the queue at a moment when the wakeup may be dropped.
HeadUndisturbed == Events \cap {"promote", "move", "delete"} = {}

\* The row the pump could start now, if it is asked.
Startable == {i \in NextInput(db) : db.mode[i] = "queue" => i \notin pump.held}

CouldStart ==
    /\ inst.status = "idle" /\ ~HasInteraction(db) /\ ~HasBlocking(db)
    /\ Startable # {}

\* It will be asked: by a drain, or after a turn whose row is settled or that has kept a wakeup.
WakeupComes ==
    \/ pump.lease = "drain"
    \/ pump.next
    \/ /\ pump.lease = "turn"
       /\ pump.deferred # "none" \/ db.state[pump.launched] \in {"none", "consumed"}

\* A claimed queue row stands ahead of the rows that wait, or the first of them is held: so
\* no row can start when the claim is given back for Retry.
HeadTaken(d, held) ==
    \A i \in QueueRows(d) : \A h \in QueueHead(d) :
        d.state[i] = "claimed" => d.order[i] < d.order[h] \/ h \in held

\* No steer row is open beside a queued turn that was stopped before the provider.
StoppedAlone ==
    \A i \in Inputs :
        turn[i].stage \in PreStream /\ turn[i].source # "steer" /\ turn[i].signal = "stopped"
            => \A j \in Inputs : ~IsOpenSteer(db, j)

\* An open steer row can be claimed, or a rollback deleted its message and left the error.
SteerClaimable ==
    \A i \in Inputs : IsOpenSteer(db, i) =>
        \/ CanClaimSteer(db, i)
        \/ inst.status = "error" /\ Running = {} /\ ~HasInteraction(db)

\* Why no wakeup is lost: whatever could start is on its way to be started.
WakeupInvariant ==
    /\ CouldStart => WakeupComes
    /\ HeadTaken(db, pump.held)
    /\ StoppedAlone

-----------------------------------------------------------------------------
(* Progress. *)

\* Message u rests because of the user: an answer, a decision about an attachment or
\* an error, or an approval of its row or of a row ahead of it, is his to give.
UserMustAct(u) ==
    \/ HasInteraction(db) \/ HasBlocking(db) \/ inst.status = "error"
    \/ /\ u \in QueueRows(db)
       /\ \E j \in WaitingQueue(db) :
             /\ db.order[j] <= db.order[u]
             /\ j \in pump.held \/ db.state[j] = "retry_required"

\* Every accepted message is answered in the end, unless it rests for the user or he
\* withdraws it.
EveryInputAnswered ==
    \A u \in Inputs :
        (u \in hist.accepted) ~>
            (u \in hist.withdrawn \/ RowPhase(Carrier(u)) = "answered" \/ UserMustAct(u))
=============================================================================
