----------------------------- MODULE PendingInputs -----------------------------
(***************************************************************************)
(* One session's waiting lane while the program runs: the admission calls  *)
(* a user makes, the pump that claims the next input and starts its turn,  *)
(* the turn itself between its awaits, Stop, a paused tool interaction and *)
(* its answer, and a crash with the recovery that follows.                 *)
(*                                                                         *)
(* JavaScript runs to completion between two awaits, so one action is one  *)
(* such stretch.  What a stretch leaves to a continuation is state:        *)
(* pump.lease = "drain" is a drain waiting for the session state,          *)
(* pump.next a scheduleNextIfReady that does, a turn's stage is the await  *)
(* the turn is at.                                                         *)
(***************************************************************************)
EXTENDS PendingInputStore

CONSTANTS
    Sources,    \* the kinds of submission an instance explores
    Events      \* the things outside the normal course it explores

AllSources == {"send", "queue", "steer", "steerFiles"}
AllEvents == {"edit", "move", "delete", "promote", "block", "retry", "pause", "cancel",
              "streamError", "prepFail", "initFail", "restart"}

ASSUME EventsAssumption == Sources \subseteq AllSources /\ Events \subseteq AllEvents

VARIABLES
    db,     \* the rows and messages, which survive a crash
    inst,   \* the session's DeepChatAgentInstance
    pump,   \* the PendingInputPump and its lease on the session
    turn,   \* the turns the pump launched, and the one resumed run
    call,   \* the admission calls that are waiting for an attachment
    hist    \* history: what was submitted, withdrawn, and sent to the provider

vars == <<db, inst, pump, turn, call, hist>>

None == 0
Resumed == N + 1            \* the run that continues a paused assistant message
Runs == 1 .. N + 1

Stages == {"none", "preparing", "factual", "reserved", "registered", "streaming", "finishing"}
PreStream == {"preparing", "factual", "reserved"}
InStream == {"registered", "streaming"}
Statuses == {"idle", "generating", "error"}
Wakes == {"none", "completed", "enqueue"}   \* "manual" drains exactly as "enqueue" does

NoTurn == [stage |-> "none", source |-> "queue", signal |-> "live", fenced |-> FALSE, answer |-> None]

Turns == [stage : Stages, source : {"send", "queue", "steer", "resume"},
          signal : {"live", "stopped", "handoff"}, fenced : BOOLEAN, answer : Inputs \cup {None}]

Instances == [status : Statuses, controller : Runs \cup {None}, active : Runs \cup {None},
              openSteer : Inputs \cup {None}]

Pumps == [lease : {"free", "drain", "turn"}, launched : Inputs \cup {None}, wake : Wakes,
          again : BOOLEAN, deferred : Wakes, next : BOOLEAN,
          held : SUBSET Inputs, resumed : SUBSET Inputs]

Calls == [gate : {"free", "steer", "drain"}, lane : {"free", "steer", "promote"},
          item : Inputs \cup {None}, seen : Statuses]

Histories == [submitted : 0 .. N, accepted : SUBSET Inputs, withdrawn : SUBSET Inputs,
              unapproved : SUBSET Inputs]

TypeOK ==
    /\ db \in Databases
    /\ inst \in Instances
    /\ pump \in Pumps
    /\ turn \in [Runs -> Turns]
    /\ call \in Calls
    /\ hist \in Histories

IdleInstance == [status |-> "idle", controller |-> None, active |-> None, openSteer |-> None]

RestedPump(held) ==
    [lease |-> "free", launched |-> None, wake |-> "none", again |-> FALSE, deferred |-> "none",
     next |-> FALSE, held |-> held, resumed |-> {}]

NoCall == [gate |-> "free", lane |-> "free", item |-> None, seen |-> "idle"]

Init ==
    /\ db = EmptyDatabase
    /\ inst = IdleInstance
    /\ pump = RestedPump({})
    /\ turn = [r \in Runs |-> NoTurn]
    /\ call = NoCall
    /\ hist = [submitted |-> 0, accepted |-> {}, withdrawn |-> {}, unapproved |-> {}]

-----------------------------------------------------------------------------
(* Gates and wakeups. *)

\* The status callers read: a paused interaction shows as generating.
ProjectedStatus == IF HasInteraction(db) THEN "generating" ELSE inst.status

CanDrainFrom(status, reason) == status = "idle" \/ (reason # "completed" /\ status = "error")

\* A slip: a wakeup that finds the lease taken is always dropped.
NeverDefer(p, t, status, reason) == FALSE

\* A wakeup that finds the lease taken is kept only when the launched turn has
\* settled its claim and the status allows a drain; otherwise it is dropped.
ShouldDefer(p, t, status, reason) ==
    p.launched # None /\ t[p.launched].fenced /\ CanDrainFrom(status, reason)

\* schedule: take the lease for a drain, defer the wakeup, or drop it.
Schedule(p, t, status, reason) ==
    IF p.lease = "free" THEN [p EXCEPT !.lease = "drain", !.wake = reason, !.again = FALSE]
    ELSE IF ShouldDefer(p, t, status, reason)
         THEN [p EXCEPT !.deferred = IF p.deferred = "enqueue" THEN "enqueue" ELSE reason]
         ELSE p

\* A caller that awaits its drain and schedules again when nothing started.
Request(p, t, status) ==
    IF p.lease = "free" THEN [Schedule(p, t, status, "enqueue") EXCEPT !.again = TRUE]
    ELSE Schedule(p, t, status, "enqueue")

\* A slip: the launched drain is not cleared with the lease.
GiveBackLeaseOnly(p, t, status) ==
    LET freed == [p EXCEPT !.lease = "free", !.wake = "none", !.again = FALSE,
                           !.deferred = "none"]
    IN  IF p.deferred = "none" THEN freed ELSE Schedule(freed, t, status, p.deferred)

\* The lease is given back, and the deferred wakeup, if any, runs.
GiveBack(p, t, status) ==
    LET freed == [p EXCEPT !.lease = "free", !.launched = None, !.wake = "none",
                           !.again = FALSE, !.deferred = "none"]
    IN  IF p.deferred = "none" THEN freed ELSE Schedule(freed, t, status, p.deferred)

Unhold(p, i) == [p EXCEPT !.held = @ \ {i}, !.resumed = @ \ {i}]

GateFree == call.gate = "free"
LaneFree == call.lane = "free"

\* While a gated call awaits the drain it took the lease for, the gate is shut.
GateAwaits(p) == IF pump.lease = "free" /\ p.lease = "drain" THEN "drain" ELSE "free"

Approve(S) == [hist EXCEPT !.unapproved = @ \ S]

-----------------------------------------------------------------------------
(* Starting a turn. *)

\* launch: the pump holds the lease for claimed row i, the turn runs to its first
\* await.  Initialisation may throw before the turn owns anything.
Launch(d, i, source) ==
    /\ pump' = [pump EXCEPT !.lease = "turn", !.launched = i, !.wake = "none", !.again = FALSE]
    /\ \/ /\ db' = d
          /\ inst' = [status |-> "generating", controller |-> i, active |-> None,
                      openSteer |-> IF source = "steer" /\ inst.openSteer = i
                                    THEN None ELSE inst.openSteer]
          /\ turn' = [turn EXCEPT ![i] =
                [stage |-> IF source = "steer" THEN "factual" ELSE "preparing",
                 source |-> source, signal |-> "live", fenced |-> FALSE, answer |-> i]]
       \/ /\ "initFail" \in Events
          /\ db' = IF source = "steer" THEN Consume(SetAssistant(d, i, "error"), i)
                   ELSE Release(d, i, "retry_required")
          /\ inst' = [inst EXCEPT !.openSteer =
                IF source = "steer" /\ inst.openSteer = i THEN None ELSE @]
          /\ turn' = [turn EXCEPT ![i] =
                [stage |-> "finishing", source |-> source, signal |-> "live",
                 fenced |-> TRUE, answer |-> i]]

\* drain, after the session state is read.
DrainReady ==
    /\ CanDrainFrom(ProjectedStatus, pump.wake)
    /\ ~HasInteraction(db) /\ ~HasBlocking(db) /\ ~HasClaimed(db)

Drainable == {i \in NextInput(db) : (db.mode[i] = "queue" => i \notin pump.held) /\ CanClaim(db, i)}

DrainLaunch(i) ==
    /\ pump.lease = "drain" /\ DrainReady
    /\ i \in Drainable
    /\ Launch(Claim(db, i), i, IF db.mode[i] = "steer" THEN "steer" ELSE "queue")
    /\ call' = [call EXCEPT !.gate = IF @ = "drain" THEN "free" ELSE @]
    /\ UNCHANGED hist

DrainIdle ==
    /\ pump.lease = "drain"
    /\ ~(DrainReady /\ Drainable # {})
    /\ LET back == GiveBack(pump, turn, inst.status)
       IN  pump' = IF pump.again THEN Schedule(back, turn, inst.status, "enqueue") ELSE back
    /\ call' = [call EXCEPT !.gate = IF @ = "drain" THEN "free" ELSE @]
    /\ UNCHANGED <<db, inst, turn, hist>>

-----------------------------------------------------------------------------
(* Admission. *)

Submit(u) == [hist EXCEPT !.submitted = u, !.accepted = @ \cup {u}]

\* A slip: neither the status nor the lease is looked at.
ClaimableUnowned(src) ==
    /\ ~HasInteraction(db) /\ ~HasRetryRequired(db) /\ ~HasBlocking(db) /\ ~HasClaimed(db)
    /\ IF src = "send" THEN NextInput(db) \ pump.held = {} ELSE NextInput(db) = {}

\* queue: a message the session can take at once is stored already claimed and
\* started in the same stretch; any other waits and wakes the pump.
Claimable(src) ==
    /\ CanDrainFrom(ProjectedStatus, "enqueue") /\ ~HasInteraction(db)
    /\ pump.lease = "free"
    /\ ~HasRetryRequired(db) /\ ~HasBlocking(db) /\ ~HasClaimed(db)
    /\ IF src = "send" THEN NextInput(db) \ pump.held = {} ELSE NextInput(db) = {}

Queue(u, src) ==
    /\ GateFree
    /\ u = hist.submitted + 1 /\ src \in Sources
    /\ ~IsFull(db)
    /\ hist' = Submit(u)
    /\ \/ /\ Claimable(src)
          /\ Launch(Enqueue(db, u, "claimed"), u, src)
          /\ UNCHANGED call
       \/ /\ ~Claimable(src)
          /\ db' = Enqueue(db, u, "pending")
          /\ pump' = Schedule(pump, turn, inst.status, "enqueue")
          /\ UNCHANGED <<inst, turn, call>>

\* acceptVisibleSteerInput: the message joins the open steer row or opens one.
OpenAfter(u) == IF IsOpenSteer(db, inst.openSteer) THEN inst.openSteer ELSE u

CanHandOff == inst.controller # None /\ turn[inst.controller].signal # "stopped"

HandOff == [turn EXCEPT ![inst.controller].signal = "handoff"]

\* Accept the steer message u, with the session status its caller read earlier.
\* A streaming run is left to notice it; a run that has not reached the provider
\* is aborted so that it hands over; otherwise the pump is asked to start it.
AcceptVisibleSteer(u, seen) ==
    /\ hist' = Submit(u)
    /\ inst' = [inst EXCEPT !.openSteer = OpenAfter(u)]
    /\ \/ /\ inst.active # None
          /\ db' = AcceptSteer(db, u, inst.openSteer)
          /\ call' = NoCall
          /\ UNCHANGED <<pump, turn>>
       \/ /\ inst.active = None /\ CanHandOff
          /\ db' = AcceptSteer(Materialize(db), u, inst.openSteer)
          /\ turn' = HandOff
          /\ call' = NoCall
          /\ UNCHANGED pump
       \/ /\ inst.active = None /\ ~CanHandOff
          /\ IsOpenSteer(db, inst.openSteer)
          /\ db' = AcceptSteer(db, u, inst.openSteer)
          /\ pump' = Schedule(pump, turn, inst.status, "enqueue")
          /\ call' = NoCall
          /\ UNCHANGED turn
       \/ /\ inst.active = None /\ ~CanHandOff
          /\ ~IsOpenSteer(db, inst.openSteer)
          /\ CanDrainFrom(seen, "enqueue") /\ ~HasInteraction(db) /\ pump.lease = "free"
          /\ db' = AcceptSteer(db, u, inst.openSteer)
          /\ pump' = Request(pump, turn, inst.status)
          /\ call' = [NoCall EXCEPT !.gate = GateAwaits(pump')]
          /\ UNCHANGED turn

SteerText(u) ==
    /\ GateFree /\ LaneFree
    /\ u = hist.submitted + 1 /\ "steer" \in Sources
    /\ ~HasInteraction(db)
    /\ AcceptVisibleSteer(u, ProjectedStatus)

\* A steer with attachments reads the status, prepares them, then is accepted,
\* refused or aborted.
SteerPrepare(u) ==
    /\ GateFree /\ LaneFree
    /\ u = hist.submitted + 1 /\ "steerFiles" \in Sources
    /\ ~HasInteraction(db)
    /\ call' = [gate |-> "steer", lane |-> "steer", item |-> u, seen |-> ProjectedStatus]
    /\ UNCHANGED <<db, inst, pump, turn, hist>>

SteerAccept ==
    /\ call.lane = "steer"
    /\ AcceptVisibleSteer(call.item, call.seen)

SteerDrop ==
    /\ call.lane = "steer"
    /\ call' = NoCall
    /\ UNCHANGED <<db, inst, pump, turn, hist>>

\* steerPendingInput: claim the row without the lease while its attachments are
\* prepared, then block it, give it up for retry, or promote it.
PromoteClaim(i) ==
    /\ "promote" \in Events /\ LaneFree
    /\ ~HasInteraction(db) /\ ~HasBlocking(db)
    /\ db.mode[i] = "queue" /\ db.state[i] = "pending"
    /\ db' = SetState(db, i, "claimed")
    /\ call' = [call EXCEPT !.lane = "promote", !.item = i]
    /\ UNCHANGED <<inst, pump, turn, hist>>

EndPromotion == [call EXCEPT !.lane = "free", !.item = None]

PromoteBlock ==
    /\ "block" \in Events /\ call.lane = "promote"
    /\ db' = SetState(db, call.item, "blocked")
    /\ call' = EndPromotion
    /\ UNCHANGED <<inst, pump, turn, hist>>

PromoteFail ==
    /\ "prepFail" \in Events /\ call.lane = "promote"
    /\ db' = Release(db, call.item, "retry_required")
    /\ call' = EndPromotion
    /\ UNCHANGED <<inst, pump, turn, hist>>

PromoteFinish ==
    /\ call.lane = "promote"
    /\ LET i == call.item
           back == Release(db, i, "pending")
       IN  /\ hist' = Approve({i})
           /\ \/ /\ inst.active # None
                 /\ db' = Promote(back, i)
                 /\ pump' = Unhold(pump, i)
                 /\ UNCHANGED turn
              \/ /\ inst.active = None /\ CanHandOff
                 /\ db' = Promote(Materialize(back), i)
                 /\ turn' = HandOff
                 /\ pump' = Unhold(pump, i)
              \/ /\ inst.active = None /\ ~CanHandOff
                 /\ db' = Promote(back, i)
                 /\ pump' = Request(Unhold(pump, i), turn, inst.status)
                 /\ UNCHANGED turn
    /\ call' = EndPromotion
    /\ UNCHANGED inst

\* updateQueuedInput: an edit makes a waiting row executable again.
Update(i) ==
    /\ "edit" \in Events
    /\ i \in WaitingQueue(db)
    /\ db' = SetState(db, i, "pending")
    /\ pump' = Schedule(pump, turn, inst.status, "enqueue")
    /\ hist' = Approve({i})
    /\ UNCHANGED <<inst, turn, call>>

\* moveQueuedInput wakes nobody.
Move(i, j) ==
    /\ "move" \in Events
    /\ {i, j} \subseteq WaitingQueue(db) /\ i # j
    /\ \A h \in QueueHead(db) : db.state[h] # "retry_required"
    /\ db' \in Moves(db, i, j)
    /\ UNCHANGED <<inst, pump, turn, call, hist>>

Delete(i) ==
    /\ "delete" \in Events
    /\ i \in WaitingQueue(db)
    /\ db' = DeleteRow(db, i)
    /\ pump' = Schedule(Unhold(pump, i), turn, inst.status, "enqueue")
    /\ hist' = [Approve({i}) EXCEPT !.withdrawn = @ \cup {i}]
    /\ UNCHANGED <<inst, turn, call>>

\* resolveBlockedPendingInput, with either answer.
ResolveBlocked(i) ==
    /\ db.state[i] = "blocked"
    /\ db' = SetState(db, i, "pending")
    /\ pump' = Schedule(pump, turn, inst.status, "enqueue")
    /\ UNCHANGED <<inst, turn, call, hist>>

Retry(i) ==
    /\ "retry" \in Events /\ GateFree
    /\ i \in QueueRows(db) /\ db.state[i] = "retry_required"
    /\ db' = SetState(db, i, "pending")
    /\ pump' = Request(pump, turn, inst.status)
    /\ call' = [call EXCEPT !.gate = GateAwaits(pump')]
    /\ hist' = Approve({i})
    /\ UNCHANGED <<inst, turn>>

\* resumePendingQueue: only a held head can be resumed, and it releases the rest.
ResumeQueue(h) ==
    /\ GateFree
    /\ ~HasBlocking(db) /\ ~HasClaimed(db) /\ ~HasInteraction(db)
    /\ CanDrainFrom(ProjectedStatus, "enqueue") /\ pump.lease = "free"
    /\ h \in NextQueue(db) /\ h \in pump.held
    /\ pump' = Schedule([pump EXCEPT !.held = @ \ WaitingQueue(db), !.resumed = @ \cup {h}],
                        turn, inst.status, "enqueue")
    /\ call' = [call EXCEPT !.gate = "drain"]
    /\ hist' = Approve(WaitingQueue(db))
    /\ UNCHANGED <<db, inst, turn>>

-----------------------------------------------------------------------------
(* The turn. *)

\* What is left of run r once its claim is settled and its controller cleared.
Ended(r) ==
    IF r = Resumed THEN [turn EXCEPT ![r] = NoTurn]
    ELSE [turn EXCEPT ![r] = [@ EXCEPT !.stage = "finishing", !.fenced = TRUE]]

\* A slip: the active generation is not cleared with the controller.
ClearedControllerOnly(r, status) ==
    [inst EXCEPT !.status = status, !.controller = IF @ = r THEN None ELSE @]

Cleared(r, status) ==
    [inst EXCEPT !.status = status,
                 !.controller = IF @ = r THEN None ELSE @,
                 !.active = IF @ = r THEN None ELSE @]

Unsettled(r) == r # Resumed /\ ~turn[r].fenced

\* The attachments of a queued input need the user.
TurnBlock(r) ==
    /\ "block" \in Events
    /\ turn[r].stage = "preparing" /\ turn[r].signal = "live"
    /\ db' = SetState(db, r, "blocked")
    /\ inst' = Cleared(r, "idle")
    /\ turn' = Ended(r)
    /\ UNCHANGED <<pump, call, hist>>

TurnUserFact(r) ==
    /\ turn[r].stage = "preparing" /\ turn[r].signal = "live"
    /\ db' = AppendUserFact(db, r)
    /\ turn' = [turn EXCEPT ![r].stage = "factual"]
    /\ UNCHANGED <<inst, pump, call, hist>>

\* A slip: the signal is not looked at before the assistant message is reserved.
TurnReserveUnchecked(r) ==
    /\ turn[r].stage = "factual"
    /\ db' = CASE turn[r].source = "steer" -> db
               [] turn[r].source = "queue" -> WriteAssistant(db, r)
               [] OTHER -> Consume(WriteAssistant(db, r), r)
    /\ turn' = [turn EXCEPT ![r].stage = "reserved", ![r].fenced = (turn[r].source = "send")]
    /\ UNCHANGED <<inst, pump, call, hist>>

\* The assistant message is reserved; a message sent directly is consumed here,
\* a steer claim reserved its answer when it was claimed.
TurnReserve(r) ==
    /\ turn[r].stage = "factual" /\ turn[r].signal = "live"
    /\ db' = CASE turn[r].source = "steer" -> db
               [] turn[r].source = "queue" -> WriteAssistant(db, r)
               [] OTHER -> Consume(WriteAssistant(db, r), r)
    /\ turn' = [turn EXCEPT ![r].stage = "reserved", ![r].fenced = (turn[r].source = "send")]
    /\ UNCHANGED <<inst, pump, call, hist>>

\* registerRun: the last look at the signal and the registration are one stretch.
TurnRegister(r) ==
    /\ turn[r].stage = "reserved" /\ turn[r].signal = "live"
    /\ inst' = [inst EXCEPT !.active = r, !.controller = r]
    /\ turn' = [turn EXCEPT ![r].stage = "registered"]
    /\ UNCHANGED <<db, pump, call, hist>>

\* onBeforeProviderStream: an input resumed after a restart is consumed before
\* the provider sees it.
ProviderStart(r) ==
    /\ turn[r].stage = "registered" /\ turn[r].signal = "live"
    /\ LET early == Unsettled(r) /\ turn[r].source = "queue" /\ r \in pump.resumed
       IN  /\ db' = IF early THEN Consume(db, r) ELSE db
           /\ turn' = [turn EXCEPT ![r].stage = "streaming", ![r].fenced = (@ \/ early)]
    /\ hist' = [hist EXCEPT !.unapproved = @ \cup ({r} \ {Resumed})]
    /\ UNCHANGED <<inst, pump, call>>

Results == {"completed", "paused", "aborted", "error", "thrown"}
AnswerStatus ==
    [completed |-> "sent", paused |-> "paused", aborted |-> "error", error |-> "error",
     thrown |-> "error"]
StatusAfter ==
    [completed |-> "idle", paused |-> "generating", aborted |-> "idle", error |-> "error",
     thrown |-> "error"]

\* Whether the stream of run r may end so.  "thrown" is an error the run had
\* already committed to its journal when it was thrown.
CanEnd(r, result) ==
    /\ result = "completed" => turn[r].signal = "live"
    /\ result = "aborted" => turn[r].signal # "live"
    /\ result = "paused" => "pause" \in Events /\ turn[r].stage = "streaming"
    /\ result \in {"error", "thrown"} => "streamError" \in Events

Undone(r, result) == Unsettled(r) /\ turn[r].source = "queue" /\ result = "error"

\* The run returns: the claim is consumed, or the turn is rolled back and its
\* input left for Retry; then the status and, for a resumed run, the wakeup.
StreamEnd(r, result) ==
    /\ turn[r].stage \in InStream
    /\ CanEnd(r, result)
    /\ LET answered == SetAssistant(db, turn[r].answer, AnswerStatus[result])
       IN  db' = IF Undone(r, result) THEN Release(Rollback(db, r), r, "retry_required")
                 ELSE IF Unsettled(r) THEN Consume(answered, r)
                 ELSE answered
    /\ inst' = Cleared(r, StatusAfter[result])
    /\ turn' = Ended(r)
    /\ pump' = IF r = Resumed /\ result \in {"completed", "aborted"}
               THEN Schedule(pump, turn', inst'.status, "completed") ELSE pump
    /\ UNCHANGED <<call, hist>>

\* A turn that notices, before the provider, that its signal is aborted.  The
\* abort may be noticed only after the next synchronous write (late): the user
\* fact while preparing, the assistant message after that (a handoff deletes it).
AbortedPreStream(r, late) ==
    /\ turn[r].stage \in PreStream /\ turn[r].signal # "live"
    /\ LET t == turn[r]
           handoff == t.signal = "handoff"
           written ==
             CASE late /\ t.stage = "preparing" /\ db.msgs[r] = {} -> AppendUserFact(db, r)
               [] late /\ t.stage = "factual" /\ t.source # "steer" /\ ~handoff ->
                      WriteAssistant(db, r)
               [] OTHER -> db
           settled ==
             IF ~Unsettled(r) THEN written
             ELSE IF Exists(written, r) \/ t.source = "steer" THEN Consume(written, r)
             ELSE Release(written, r, "retry_required")
       IN  db' = IF r = Resumed
                 THEN SetAssistant(db, t.answer, IF handoff THEN "sent" ELSE "error")
                 ELSE IF handoff THEN DeleteAssistant(settled, r)
                 ELSE SetAssistant(settled, r, "error")
    /\ inst' = Cleared(r, "idle")
    /\ turn' = Ended(r)
    /\ pump' = IF r = Resumed THEN Schedule(pump, turn', "idle", "completed") ELSE pump
    /\ UNCHANGED <<call, hist>>

\* A slip: the failure is rolled back although a steer message already arrived.
FailedPreStreamUnchecked(r) ==
    /\ "prepFail" \in Events
    /\ turn[r].stage \in PreStream
    /\ LET t == turn[r]
           shown == SetAssistant(db, t.answer, "error")
       IN  db' = IF Unsettled(r) /\ t.source # "steer"
                 THEN Release(Rollback(db, r), r, "retry_required")
                 ELSE IF Unsettled(r) THEN Consume(shown, r)
                 ELSE shown
    /\ inst' = Cleared(r, "error")
    /\ turn' = Ended(r)
    /\ UNCHANGED <<pump, call, hist>>

\* A failure before the provider: what the turn wrote is rolled back and its
\* input left for Retry; a steer message, a message sent directly and a resumed
\* answer show the error instead.
FailedPreStream(r) ==
    /\ "prepFail" \in Events
    /\ turn[r].stage \in PreStream /\ turn[r].signal = "live"
    /\ LET t == turn[r]
           shown == SetAssistant(db, t.answer, "error")
       IN  db' = IF Unsettled(r) /\ t.source # "steer"
                 THEN Release(IF t.stage = "preparing" THEN db ELSE Rollback(db, r), r, "retry_required")
                 ELSE IF Unsettled(r) THEN Consume(shown, r)
                 ELSE shown
    /\ inst' = Cleared(r, "error")
    /\ turn' = Ended(r)
    /\ UNCHANGED <<pump, call, hist>>

\* A slip: the finally block gives the lease back and looks for nothing next.
FinalizeAndStop(i) ==
    /\ pump.launched = i /\ turn[i].stage = "finishing"
    /\ turn' = [turn EXCEPT ![i] = NoTurn]
    /\ LET back == GiveBack(pump, turn', inst.status)
       IN  pump' = [back EXCEPT
                      !.resumed = IF db.state[i] \in {"none", "consumed"} THEN @ \ {i} ELSE @]
    /\ UNCHANGED <<db, inst, call, hist>>

\* launch's finally: the lease is given back, a deferred wakeup runs, and
\* scheduleNextIfReady begins unless the input itself is waiting again.
Finalize(i) ==
    /\ pump.launched = i /\ turn[i].stage = "finishing"
    /\ turn' = [turn EXCEPT ![i] = NoTurn]
    /\ LET back == GiveBack(pump, turn', inst.status)
           again == db.state[i] \in {"pending", "retry_required"}
       IN  pump' = [back EXCEPT
                      !.next = pump.next \/ (~again /\ NextInput(db) # {}),
                      !.resumed = IF db.state[i] \in {"none", "consumed"} THEN @ \ {i} ELSE @]
    /\ UNCHANGED <<db, inst, call, hist>>

NextIfReady ==
    /\ pump.next
    /\ LET p == [pump EXCEPT !.next = FALSE]
       IN  pump' = IF ProjectedStatus = "idle" /\ ~HasInteraction(db)
                   THEN Schedule(p, turn, inst.status, "completed") ELSE p
    /\ UNCHANGED <<db, inst, turn, call, hist>>

-----------------------------------------------------------------------------
(* Stop, the answer to an interaction, and a crash. *)

Stopped(r) ==
    [turn EXCEPT ![r].signal = IF turn[r].signal = "live" THEN "stopped" ELSE turn[r].signal]

\* cancel: an owner of the work is told to stop and settles itself; a session
\* that only waits for an interaction is settled here.
Cancel ==
    /\ "cancel" \in Events
    /\ \/ /\ inst.active # None
          /\ turn' = Stopped(inst.active)
          /\ UNCHANGED <<db, inst, pump>>
       \/ /\ inst.active = None /\ inst.controller # None
          /\ turn' = Stopped(inst.controller)
          /\ inst' = [inst EXCEPT !.controller = None]
          /\ UNCHANGED <<db, pump>>
       \/ /\ inst.active = None /\ inst.controller = None
          /\ HasInteraction(db)
          /\ db' = [db EXCEPT !.astatus = [i \in Inputs |->
                        IF db.astatus[i] = "paused" THEN "error" ELSE db.astatus[i]]]
          /\ inst' = [inst EXCEPT !.status = "idle"]
          /\ pump' = Schedule(pump, turn, "idle", "completed")
          /\ UNCHANGED turn
    /\ UNCHANGED <<call, hist>>

\* The last interaction of a paused message is answered and its run resumed.
Respond(a) ==
    /\ db.astatus[a] = "paused"
    /\ turn[Resumed].stage = "none"
    /\ db' = [db EXCEPT !.astatus[a] = "pending"]
    /\ inst' = [inst EXCEPT !.status = "generating", !.controller = Resumed]
    /\ turn' = [turn EXCEPT ![Resumed] =
          [stage |-> "reserved", source |-> "resume", signal |-> "live", fenced |-> FALSE,
           answer |-> a]]
    /\ UNCHANGED <<pump, call, hist>>

\* The process dies with database d and the next one reconciles it at startup.
CrashWith(d) ==
    /\ "restart" \in Events
    /\ Recoverable(d)
    /\ db' = Recover(d)
    /\ inst' = IdleInstance
    /\ pump' = RestedPump(HeldByRestart(d))
    /\ turn' = [r \in Runs |-> NoTurn]
    /\ call' = NoCall
    /\ UNCHANGED hist

Restart == CrashWith(db)

\* The rollback and the release that follows it are two transactions.
RestartMidRollback(r) ==
    /\ turn[r].stage \in InStream
    /\ CanEnd(r, "error") /\ Undone(r, "error")
    /\ CrashWith(Rollback(db, r))

-----------------------------------------------------------------------------
Admission ==
    \/ \E u \in Inputs : SteerText(u) \/ SteerPrepare(u)
                           \/ \E src \in {"send", "queue"} : Queue(u, src)
    \/ SteerAccept \/ SteerDrop
    \/ \E i \in Inputs : PromoteClaim(i)
    \/ PromoteBlock \/ PromoteFail \/ PromoteFinish
    \/ \E i \in Inputs : Update(i) \/ Delete(i) \/ ResolveBlocked(i) \/ Retry(i) \/ ResumeQueue(i)
    \/ \E i, j \in Inputs : Move(i, j)

Drain == DrainIdle \/ \E i \in Inputs : DrainLaunch(i)

TurnStep(r) ==
    \/ TurnBlock(r) \/ TurnUserFact(r) \/ TurnReserve(r) \/ TurnRegister(r) \/ ProviderStart(r)
    \/ \E result \in Results : StreamEnd(r, result)
    \/ \E late \in BOOLEAN : AbortedPreStream(r, late)
    \/ FailedPreStream(r)

Next ==
    \/ Admission
    \/ Drain \/ NextIfReady
    \/ \E r \in Runs : TurnStep(r)
    \/ \E i \in Inputs : Finalize(i)
    \/ Cancel
    \/ \E a \in Inputs : Respond(a)
    \/ Restart \/ \E r \in Runs : RestartMidRollback(r)

Spec == Init /\ [][Next]_vars

(***************************************************************************)
(* The event loop runs every continuation, so a drain, a scheduleNextIf-   *)
(* Ready, a finally block and a turn's next stretch are each taken in the  *)
(* end; attachments are prepared and a provider stream ends.  Nobody is    *)
(* obliged to call the session, to stop it or to answer it.                *)
(***************************************************************************)
Fairness ==
    /\ WF_vars(Drain)
    /\ WF_vars(NextIfReady)
    /\ WF_vars(SteerAccept \/ SteerDrop)
    /\ WF_vars(PromoteBlock \/ PromoteFail \/ PromoteFinish)
    /\ \A r \in Runs : WF_vars(TurnStep(r))
    /\ \A i \in Inputs : WF_vars(Finalize(i))

FairSpec == Spec /\ Fairness
=============================================================================
