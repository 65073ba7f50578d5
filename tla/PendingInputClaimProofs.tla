------------------------ MODULE PendingInputClaimProofs ------------------------
(***************************************************************************)
(* The in-memory fence on a claim, the claimed row and its owner agree in  *)
(* every state, and an input the provider may have seen never waits where  *)
(* the pump would start it again, for any number of submissions.           *)
(*                                                                         *)
(* A row's claim has one owner: the turn launched from it until that turn  *)
(* is fenced, or the promotion that took the row without the lease.  The   *)
(* argument is per row: a step of any actor writes one row, or none, or is *)
(* a recovery, and what it leaves in that row follows from the stage of    *)
(* the actor that wrote it.                                                *)
(***************************************************************************)
EXTENDS PendingInputRunProofs

-----------------------------------------------------------------------------
(* Which row a transaction writes. *)

\* The rows are left alone.
RowsKept(d, e) == e.mode = d.mode /\ e.state = d.state

\* Row i, and no other, is put in state s and lane m.
RowWritten(d, e, i, s, m) ==
    \A j \in Inputs : /\ e.state[j] = IF j = i THEN s ELSE d.state[j]
                      /\ e.mode[j] = IF j = i THEN m ELSE d.mode[j]

LEMMA RowsOf ==
    ASSUME NEW d \in Databases, NEW i \in Inputs, NEW s
    PROVE  /\ RowWritten(d, Enqueue(d, i, s), i, s, "queue")
           /\ RowWritten(d, SetState(d, i, s), i, s, d.mode[i])
           /\ RowWritten(d, Release(d, i, s), i, s, d.mode[i])
BY DEF RowWritten, Enqueue, SetState, Release, Databases

LEMMA ResequenceRows ==
    ASSUME NEW d \in Databases
    PROVE  RowsKept(d, Resequence(d))
BY DEF RowsKept, Resequence, Databases

LEMMA DeleteRowRows ==
    ASSUME NEW d \in Databases, NEW i \in Inputs
    PROVE  RowWritten(d, DeleteRow(d, i), i, "none", d.mode[i])
<1> DEFINE w == [d EXCEPT !.state[i] = "none", !.msgs[i] = {}]
<1>1. w \in Databases /\ RowWritten(d, w, i, "none", d.mode[i])
    BY DEF Databases, RowStates, RowWritten
<1> HIDE DEF w
<1>2. RowsKept(w, Resequence(w))
    BY <1>1, ResequenceRows
<1> QED
    BY <1>1, <1>2 DEF DeleteRow, w, RowsKept, RowWritten

LEMMA MovesRows ==
    ASSUME NEW d \in Databases, NEW i, NEW j, NEW e \in Moves(d, i, j)
    PROVE  RowsKept(d, e)
BY DEF Moves, Databases, RowsKept

LEMMA MessagesRows ==
    ASSUME NEW d \in Databases, NEW i, NEW s, NEW r
    PROVE  /\ RowsKept(d, WriteUserMessage(d, i, s, r))
           /\ RowsKept(d, WriteAssistant(d, i))
           /\ RowsKept(d, SetAssistant(d, i, s))
           /\ RowsKept(d, DeleteAssistant(d, i))
           /\ RowsKept(d, AppendUserFact(d, i))
           /\ \A S : RowsKept(d, SetMessages(d, S, s))
           /\ RowsKept(d, Rollback(d, i))
BY DEF RowsKept, WriteUserMessage, WriteAssistant, SetAssistant, DeleteAssistant,
       AppendUserFact, SetMessages, Rollback, Databases

LEMMA MaterializeRows ==
    ASSUME NEW d \in Databases
    PROVE  RowsKept(d, Materialize(d))
BY MessagesRows DEF Materialize, RowsKept

LEMMA AcceptSteerRows ==
    ASSUME NEW d \in Databases, NEW u \in Inputs, NEW open
    PROVE  IF IsOpenSteer(d, open) THEN RowsKept(d, AcceptSteer(d, u, open))
           ELSE RowWritten(d, AcceptSteer(d, u, open), u, "pending", "steer")
BY DEF AcceptSteer, WriteUserMessage, RowsKept, RowWritten, Databases

LEMMA PromoteRows ==
    ASSUME NEW d \in Databases, NEW i \in Inputs
    PROVE  RowWritten(d, Promote(d, i), i, d.state[i], "steer")
<1> DEFINE w == [WriteUserMessage(d, i, "pending", "unread") EXCEPT
                    !.mode[i] = "steer", !.msgs[i] = d.msgs[i] \cup {i}]
<1>1. w.mode = [d.mode EXCEPT ![i] = "steer"] /\ w.state = d.state
    BY DEF WriteUserMessage, Databases
<1>2. Resequence(w).mode = w.mode /\ Resequence(w).state = w.state
    BY DEF Resequence, WriteUserMessage, Databases
<1>3. Promote(d, i) = Resequence(w)
    BY DEF Promote
<1> HIDE DEF w
<1> QED
    BY <1>1, <1>2, <1>3 DEF RowWritten, Databases

LEMMA ClaimRows ==
    ASSUME NEW d \in Databases, NEW i \in Inputs
    PROVE  RowWritten(d, Claim(d, i), i, "claimed", d.mode[i])
BY DEF Claim, ClaimSteer, SetState, WriteAssistant, RowWritten, Databases

LEMMA ConsumeRows ==
    ASSUME NEW d \in Databases, NEW i \in Inputs
    PROVE  RowWritten(d, Consume(d, i), i,
                      IF d.mode[i] = "steer" THEN "consumed" ELSE "none", d.mode[i])
<1>1. CASE d.mode[i] = "steer"
  <2> DEFINE w == SetMessages(d, d.msgs[i], "sent")
  <2>1. w \in Databases /\ RowsKept(d, w)
      BY SetMessagesType, MessagesRows DEF MessageStates
  <2>2. RowWritten(w, SetState(w, i, "consumed"), i, "consumed", w.mode[i])
      BY <2>1, RowsOf
  <2> HIDE DEF w
  <2> QED
      BY <1>1, <2>1, <2>2 DEF Consume, w, RowsKept, RowWritten
<1>2. CASE d.mode[i] # "steer"
    BY <1>2, DeleteRowRows DEF Consume
<1> QED
    BY <1>1, <1>2

LEMMA RecoverRows ==
    ASSUME NEW d \in Databases
    PROVE  /\ Recover(d).mode = d.mode
           /\ \A i \in Inputs :
                /\ Recover(d).state[i] # "claimed"
                /\ Recover(d).state[i] \in {"none", "pending", "consumed", d.state[i]}
                /\ d.state[i] = "none" => Recover(d).state[i] = "none"
                /\ d.mode[i] = "queue" /\ Recover(d).state[i] \in {"pending", "blocked"}
                   => i \in HeldByRestart(d)
<1> DEFINE Answered == {i \in QueueRows(d) : d.state[i] = "claimed" /\ HasFact(d, i)}
           Unanswered == {i \in QueueRows(d) : d.state[i] = "claimed" /\ ~HasFact(d, i)}
           Settled == SteerRows(d, "claimed")
           Failed == SteerRows(d, "pending")
           state == [i \in Inputs |->
                        CASE i \in Answered -> "none"
                          [] i \in Unanswered -> "pending"
                          [] i \in Settled \cup Failed -> "consumed"
                          [] OTHER -> d.state[i]]
<1>1. Recover(d).mode = d.mode /\ Recover(d).state = state
    BY DEF Recover, Resequence, Databases
<1> SUFFICES ASSUME NEW i \in Inputs
             PROVE  /\ state[i] # "claimed"
                    /\ state[i] \in {"none", "pending", "consumed", d.state[i]}
                    /\ d.state[i] = "none" => state[i] = "none"
                    /\ d.mode[i] = "queue" /\ state[i] \in {"pending", "blocked"}
                       => i \in HeldByRestart(d)
    BY <1>1
<1>2. state[i] = CASE i \in Answered -> "none"
                   [] i \in Unanswered -> "pending"
                   [] i \in Settled \cup Failed -> "consumed"
                   [] OTHER -> d.state[i]
    OBVIOUS
<1>3. d.mode[i] \in {"queue", "steer"}
    BY DEF Databases
<1>4. /\ i \in Answered => d.state[i] = "claimed"
      /\ i \in Unanswered => i \in HeldByRestart(d) /\ d.state[i] = "claimed"
      /\ i \in Settled \cup Failed => d.mode[i] = "steer" /\ d.state[i] \in {"claimed", "pending"}
      /\ d.state[i] = "claimed" => i \in Answered \/ i \in Unanswered \/ i \in Settled \cup Failed
      /\ d.mode[i] = "queue" /\ d.state[i] \in {"pending", "blocked"} => i \in HeldByRestart(d)
    BY <1>3 DEF HeldByRestart, QueueRows, ActiveStates, WaitingStates, SteerRows
<1> HIDE DEF Answered, Unanswered, Settled, Failed, state
<1> QED
    BY <1>2, <1>4

-----------------------------------------------------------------------------
(* What a wakeup leaves to the pump. *)

LEMMA WakeupsKeepHolds ==
    ASSUME NEW p \in Pumps, NEW t, NEW status, NEW reason
    PROVE  /\ Schedule(p, t, status, reason).held = p.held
           /\ Request(p, t, status).held = p.held
           /\ GiveBack(p, t, status).held = p.held
BY DEF Schedule, Request, GiveBack, Pumps

LEMMA UnholdHolds ==
    ASSUME NEW p \in Pumps, NEW i
    PROVE  Unhold(p, i) \in Pumps /\ Unhold(p, i).held = p.held \ {i}
           /\ Unhold(p, i).launched = p.launched
BY UnholdType, UnholdLease DEF Unhold, Pumps

-----------------------------------------------------------------------------
(* Steps by what they do to a row. *)

Standing(i) == ClaimStanding(i) /\ ReplayStanding(i)

\* A step that leaves row i, its turn, its owner and its hold as they are.
TurnKept(i) ==
    /\ turn'[i].stage = turn[i].stage
    /\ turn'[i].fenced = turn[i].fenced
    /\ turn'[i].source = turn[i].source

StandingKept(i) ==
    /\ db'.state[i] = db.state[i] /\ db'.mode[i] = db.mode[i]
    /\ TurnKept(i)
    /\ pump'.launched = i <=> pump.launched = i
    /\ i \in pump'.held <=> i \in pump.held
    /\ (call'.lane = "promote" /\ call'.item = i) <=> Promoting(i)
    /\ i \in hist'.unapproved => i \in hist.unapproved
    /\ hist'.submitted \in {hist.submitted, hist.submitted + 1}

LEMMA StandingByKeeping ==
    ASSUME NEW i \in Inputs, hist.submitted \in Nat, Standing(i), StandingKept(i)
    PROVE  Standing(i)'
<1>1. /\ i \in Runs
      /\ (i \in Running)' <=> i \in Running
      /\ (i \in QueueRows(db))' <=> i \in QueueRows(db)
    BY NoneIsNoRun DEF StandingKept, TurnKept, Running, QueueRows
<1>2. Promoting(i)' <=> Promoting(i)
    BY DEF StandingKept, Promoting
<1>3. i > hist'.submitted => i > hist.submitted
    BY DEF StandingKept, Inputs
<1>4. (i > hist.submitted)' <=> i > hist'.submitted
    OBVIOUS
<1>5. ClaimStanding(i)'
    BY <1>1, <1>2, <1>3 DEF Standing, ClaimStanding, StandingKept, TurnKept, Unsubmitted
<1>6. ReplayStanding(i)'
    BY <1>1, <1>2 DEF Standing, ReplayStanding, StandingKept, TurnKept
<1> QED
    BY <1>5, <1>6 DEF Standing

\* With no lease and no promotion there is no claimed row; only its owner frees a row.
LEMMA RestedRows ==
    ASSUME TypeOK, LeaseOwnership, pump.lease # "turn", NEW i \in Inputs
    PROVE  turn[i].stage = "none" /\ pump.launched = None
BY NoneIsNoRun DEF LeaseOwnership

LEMMA LaunchStanding ==
    ASSUME TypeOK, TypeOK', LeaseOwnership, ClaimInvariant, pump.lease # "turn",
           NEW d \in Databases, NEW i \in Inputs, NEW source \in {"send", "queue", "steer"}, NEW m,
           Launch(d, i, source), RowWritten(db, d, i, "claimed", m), m \in {"queue", "steer"},
           source = "steer" <=> m = "steer", ~HasClaimed(db),
           i \notin pump.held, m = "queue" => i \notin hist.unapproved,
           call'.lane = call.lane, call'.item = call.item,
           hist'.unapproved = hist.unapproved, i <= hist'.submitted,
           hist'.submitted \in {hist.submitted, hist.submitted + 1}
    PROVE  \A j \in Inputs : Standing(j)'
<1> USE NoneIsNoRun
<1>1. turn \in [Runs -> Turns] /\ pump \in Pumps /\ hist.submitted \in Nat
    BY DEF TypeOK, Histories
<1>2. pump'.launched = i /\ pump'.held = pump.held
    BY <1>1 DEF Launch, Pumps
<1>3. \A j \in Inputs \ {i} : turn'[j] = turn[j]
    BY <1>1 DEF Launch
<1>4. PICK s \in {"claimed", "consumed", "none", "retry_required"} :
          /\ RowWritten(db, db', i, s, m)
          /\ turn'[i].source = source
          /\ s = "claimed" => /\ turn'[i].stage = IF source = "steer" THEN "factual" ELSE "preparing"
                              /\ ~turn'[i].fenced
          /\ s # "claimed" => turn'[i].stage = "finishing" /\ turn'[i].fenced
          /\ s = "retry_required" => m = "queue"
  <2>1. CASE /\ db' = d
             /\ turn' = [turn EXCEPT ![i] =
                   [stage |-> IF source = "steer" THEN "factual" ELSE "preparing",
                    source |-> source, signal |-> "live", fenced |-> FALSE, answer |-> i]]
      BY <1>1, <2>1
  <2>2. CASE /\ db' = IF source = "steer" THEN Consume(SetAssistant(d, i, "error"), i)
                      ELSE Release(d, i, "retry_required")
             /\ turn' = [turn EXCEPT ![i] =
                   [stage |-> "finishing", source |-> source, signal |-> "live",
                    fenced |-> TRUE, answer |-> i]]
    <3>1. turn'[i].stage = "finishing" /\ turn'[i].fenced /\ turn'[i].source = source
        BY <1>1, <2>2
    <3> DEFINE e == SetAssistant(d, i, "error")
    <3>2. e \in Databases /\ RowsKept(d, e)
        BY SetAssistantType, MessagesRows DEF AssistantStates
    <3>3. RowWritten(e, Consume(e, i), i, IF e.mode[i] = "steer" THEN "consumed" ELSE "none", e.mode[i])
        BY <3>2, ConsumeRows
    <3>4. RowWritten(d, Release(d, i, "retry_required"), i, "retry_required", d.mode[i])
        BY RowsOf
    <3>5. db' = IF source = "steer" THEN Consume(e, i) ELSE Release(d, i, "retry_required")
        BY <2>2
    <3> HIDE DEF e
    <3>6. CASE source = "steer"
      <4>1. RowWritten(db, db', i, "consumed", m)
          BY <3>2, <3>3, <3>5, <3>6 DEF RowWritten, RowsKept
      <4> QED
          BY <3>1, <4>1
    <3>7. CASE source # "steer"
      <4>1. RowWritten(db, db', i, "retry_required", m)
          BY <3>4, <3>5, <3>7 DEF RowWritten
      <4> QED
          BY <3>1, <3>7, <4>1
    <3> QED
        BY <3>6, <3>7
  <2> QED
      BY <2>1, <2>2 DEF Launch
<1>5. ASSUME NEW j \in Inputs, j # i PROVE Standing(j)'
  <2>1. pump.launched # j
      BY RestedRows
  <2>2. StandingKept(j)
      BY <1>2, <1>3, <1>4, <1>5, <2>1 DEF StandingKept, RowWritten, Promoting, TurnKept
  <2> QED
      BY <1>1, <2>2, StandingByKeeping DEF ClaimInvariant, Standing
<1>6. ClaimStanding(i)'
  <2>1. ~Promoting(i)'
      BY DEF Promoting, ClaimInvariant, ClaimStanding, HasClaimed
  <2>2. (i \in Running)' => turn'[i].stage # "finishing"
      BY DEF Running, PreStream, InStream
  <2>3. db'.state[i] \in {"claimed", "consumed", "none", "retry_required"} /\ db'.mode[i] = m
      BY <1>4 DEF RowWritten
  <2>4. ~(i > hist'.submitted)
      BY <1>1 DEF Inputs
  <2>5. db'.state[i] = "claimed" \/ db'.state[i] # "claimed"
      OBVIOUS
  <2>6. CASE db'.state[i] = "claimed"
      BY <1>2, <1>4, <2>1, <2>3, <2>4, <2>6 DEF ClaimStanding, RowWritten
  <2>7. CASE db'.state[i] # "claimed"
      BY <1>2, <1>4, <2>1, <2>2, <2>3, <2>4, <2>7 DEF ClaimStanding, RowWritten
  <2> QED
      BY <2>6, <2>7
<1>7. ReplayStanding(i)'
    BY <1>2, <1>4 DEF ReplayStanding, RowWritten, QueueRows
<1> QED
    BY <1>5, <1>6, <1>7 DEF Standing

\* A row that waits, blocked and failed ones included, has no run and no owner.
LEMMA WaitingRow ==
    ASSUME TypeOK, NEW i \in Inputs, ClaimStanding(i), db.state[i] \in WaitingStates
    PROVE  /\ i \notin Running /\ ~Promoting(i) /\ ~(i > hist.submitted)
           /\ turn[i].stage # "none" => turn[i].fenced
BY DEF ClaimStanding, WaitingStates, Unsubmitted, Running, PreStream, InStream

\* A row whose turn, if any, is over is left in a state that claims nothing.
LEMMA StandingByRewriting ==
    ASSUME TypeOK, NEW i \in Inputs, ClaimStanding(i),
           NEW s, NEW m, RowWritten(db, db', i, s, m), i \notin Running, turn[i].stage # "none" => turn[i].fenced, TurnKept(i),
           turn[i].stage \notin {"preparing", "factual"},
           s # "claimed", s \in {"blocked", "retry_required"} => m = "queue",
           ~(call'.lane = "promote" /\ call'.item = i), ~(i > hist'.submitted),
           i \in pump'.held => m = "queue",
           m = "queue" /\ s \in {"pending", "blocked"} /\ i \in hist'.unapproved => i \in pump'.held
    PROVE  Standing(i)'
<1>1. db'.state[i] = s /\ db'.mode[i] = m
    BY DEF RowWritten
<1>2. ~(i \in Running)' /\ ~Promoting(i)'
    BY NoneIsNoRun DEF Running, TurnKept, Promoting
<1>3. ClaimStanding(i)'
    BY <1>1, <1>2 DEF ClaimStanding, TurnKept
<1>4. ReplayStanding(i)'
    BY <1>1 DEF ReplayStanding, QueueRows
<1> QED
    BY <1>3, <1>4 DEF Standing

LEMMA NotRunning ==
    ASSUME NEW i \in Runs, i \notin Running
    PROVE  turn[i].stage \notin {"preparing", "factual"}
BY DEF Running, PreStream

-----------------------------------------------------------------------------
(* Admission. *)

LEMMA TurnsKeptBySignals ==
    ASSUME TypeOK, turn' = turn \/ turn' = HandOff, NEW i \in Inputs
    PROVE  TurnKept(i)
BY NoneIsNoRun DEF HandOff, TurnKept, TypeOK, Turns

\* A submission nobody made yet.
LEMMA FreshRow ==
    ASSUME TypeOK, NEW u \in Inputs, ClaimStanding(u), u = hist.submitted + 1
    PROVE  /\ Unsubmitted(u) /\ ~Promoting(u) /\ u \notin Running
           /\ hist.submitted \in Nat
<1>1. hist.submitted \in Nat /\ u > hist.submitted
    BY DEF TypeOK, Histories, Inputs
<1> QED
    BY <1>1 DEF ClaimStanding, Unsubmitted, Running, PreStream, InStream

\* What every admission proof starts from.
LEMMA AdmissionFacts ==
    ASSUME OwnershipInvariant, ClaimInvariant
    PROVE  /\ TypeOK /\ db \in Databases /\ pump \in Pumps /\ turn \in [Runs -> Turns]
           /\ call \in Calls /\ hist \in Histories /\ hist.submitted \in Nat /\ LeaseOwnership
           /\ \A i \in Inputs : /\ Standing(i) /\ ClaimStanding(i) /\ ReplayStanding(i)
                                /\ db.mode[i] \in {"queue", "steer"} /\ i \in Runs
<1>1. TypeOK /\ LeaseOwnership
    BY DEF OwnershipInvariant
<1>2. hist.submitted \in Nat /\ db \in Databases
    BY <1>1 DEF TypeOK, Histories
<1>3. \A i \in Inputs : db.mode[i] \in {"queue", "steer"}
    BY <1>2 DEF Databases
<1> QED
    BY <1>1, <1>2, <1>3, NoneIsNoRun DEF TypeOK, ClaimInvariant, Standing

LEMMA QueueStanding ==
    ASSUME OwnershipInvariant, TypeOK', ClaimInvariant,
           NEW u \in Inputs, NEW src \in {"send", "queue"}, Queue(u, src)
    PROVE  ClaimInvariant'
<1> USE AdmissionFacts
<1>1. /\ u = hist.submitted + 1 /\ hist'.submitted = u /\ hist'.unapproved = hist.unapproved
      /\ ~(u > hist'.submitted) /\ u <= hist'.submitted
    BY DEF Queue, Submit, Histories, Inputs
<1>2. Unsubmitted(u) /\ ~Promoting(u) /\ u \notin Running
    BY <1>1, FreshRow
<1>3. call' = call /\ SteerCallKept'
    BY DEF Queue, GateFree, ClaimInvariant, SteerCallKept
<1>4. CASE Claimable(src) /\ Launch(Enqueue(db, u, "claimed"), u, src)
  <2> DEFINE d == Enqueue(db, u, "claimed")
  <2>1. d \in Databases /\ RowWritten(db, d, u, "claimed", "queue")
      BY EnqueueType, RowsOf DEF RowStates
  <2>2. pump.lease # "turn" /\ ~HasClaimed(db)
      BY <1>4 DEF Claimable
  <2>3. Launch(d, u, src)
      BY <1>4
  <2> HIDE DEF d
  <2>4. \A j \in Inputs : Standing(j)'
      BY <1>1, <1>2, <1>3, <2>1, <2>2, <2>3, LaunchStanding DEF Unsubmitted
  <2> QED
      BY <1>3, <2>4 DEF ClaimInvariant, Standing
<1>5. CASE /\ db' = Enqueue(db, u, "pending")
           /\ pump' = Schedule(pump, turn, inst.status, "enqueue")
           /\ UNCHANGED <<inst, turn, call>>
  <2>1. RowWritten(db, db', u, "pending", "queue")
      BY <1>5, RowsOf
  <2>2. pump'.held = pump.held /\ pump'.launched = pump.launched
      BY <1>5, WakeupsKeepHolds, ScheduleLease
  <2>3. \A j \in Inputs : TurnKept(j)
      BY <1>5 DEF TurnKept
  <2>4. Standing(u)'
      BY <1>1, <1>2, <1>3, <2>1, <2>2, <2>3, StandingByRewriting DEF Unsubmitted, Promoting
  <2>5. \A j \in Inputs \ {u} : StandingKept(j)
      BY <1>1, <1>3, <2>1, <2>2, <2>3 DEF StandingKept, RowWritten, Promoting
  <2>6. \A j \in Inputs : Standing(j)'
      BY <2>4, <2>5, StandingByKeeping
  <2> QED
      BY <1>3, <2>6 DEF ClaimInvariant, Standing
<1> QED
    BY <1>4, <1>5 DEF Queue

LEMMA AcceptSteerStanding ==
    ASSUME OwnershipInvariant, ClaimInvariant, NEW u \in Inputs, NEW seen,
           u = hist.submitted + 1, call.lane # "promote", AcceptVisibleSteer(u, seen)
    PROVE  ClaimInvariant'
<1> USE AdmissionFacts
<1>1. /\ hist'.submitted = u /\ hist'.unapproved = hist.unapproved /\ ~(u > hist'.submitted)
    BY DEF AcceptVisibleSteer, Submit, Histories, Inputs
<1>2. Unsubmitted(u) /\ ~Promoting(u) /\ u \notin Running
    BY FreshRow
<1>3. call'.lane = "free"
    BY DEF AcceptVisibleSteer, NoCall
<1>4. turn' = turn \/ turn' = HandOff
    BY DEF AcceptVisibleSteer
<1>5. \A j \in Inputs : TurnKept(j)
    BY <1>4, TurnsKeptBySignals
<1>6. pump'.held = pump.held /\ pump'.launched = pump.launched
    BY WakeupsKeepHolds, ScheduleLease, RequestLease DEF AcceptVisibleSteer
<1>7. RowsKept(db, db') \/ RowWritten(db, db', u, "pending", "steer")
  <2>1. PICK d \in {db, Materialize(db)} : db' = AcceptSteer(d, u, inst.openSteer)
      BY DEF AcceptVisibleSteer
  <2>2. d \in Databases /\ RowsKept(db, d)
      BY MaterializeType, MaterializeRows DEF RowsKept
  <2>3. RowsKept(d, db') \/ RowWritten(d, db', u, "pending", "steer")
      BY <2>1, <2>2, AcceptSteerRows
  <2> QED
      BY <2>2, <2>3 DEF RowsKept, RowWritten
<1>8. \A j \in Inputs \ {u} : StandingKept(j)
    BY <1>1, <1>3, <1>5, <1>6, <1>7 DEF StandingKept, RowWritten, RowsKept, Promoting
<1>9. Standing(u)'
  <2>1. CASE RowsKept(db, db')
    <3>1. StandingKept(u)
        BY <1>1, <1>2, <1>3, <1>5, <1>6, <2>1 DEF StandingKept, RowsKept, Promoting
    <3> QED
        BY <3>1, StandingByKeeping
  <2>2. CASE RowWritten(db, db', u, "pending", "steer")
      BY <1>1, <1>2, <1>3, <1>5, <1>6, <2>2, StandingByRewriting DEF Unsubmitted
  <2> QED
      BY <1>7, <2>1, <2>2
<1> QED
    BY <1>3, <1>8, <1>9, StandingByKeeping DEF ClaimInvariant, Standing, SteerCallKept

LEMMA SteerCallStanding ==
    ASSUME OwnershipInvariant, ClaimInvariant,
           \/ \E u \in Inputs : SteerText(u) \/ SteerPrepare(u)
           \/ SteerAccept \/ SteerDrop
    PROVE  ClaimInvariant'
<1> USE AdmissionFacts
<1>1. ASSUME NEW u \in Inputs, SteerText(u) PROVE ClaimInvariant'
    BY <1>1, AcceptSteerStanding DEF SteerText, LaneFree
<1>2. ASSUME NEW u \in Inputs, SteerPrepare(u) PROVE ClaimInvariant'
  <2>1. /\ call'.lane = "steer" /\ call'.gate = "steer" /\ call'.item = hist.submitted + 1
        /\ call.lane = "free" /\ UNCHANGED <<db, pump, turn, hist>>
      BY <1>2 DEF SteerPrepare, LaneFree
  <2>2. \A j \in Inputs : StandingKept(j)
      BY <2>1 DEF StandingKept, TurnKept, Promoting
  <2> QED
      BY <2>1, <2>2, StandingByKeeping DEF ClaimInvariant, Standing, SteerCallKept
<1>3. CASE SteerAccept
  <2>1. call.item \in Inputs /\ call.item = hist.submitted + 1 /\ call.lane # "promote"
      BY <1>3 DEF SteerAccept, OwnershipInvariant, LaneKnowsItem, ClaimInvariant, SteerCallKept
  <2> QED
      BY <1>3, <2>1, AcceptSteerStanding DEF SteerAccept
<1>4. CASE SteerDrop
  <2>1. /\ call'.lane = "free" /\ call.lane = "steer" /\ UNCHANGED <<db, pump, turn, hist>>
      BY <1>4 DEF SteerDrop, NoCall
  <2>2. \A j \in Inputs : StandingKept(j)
      BY <2>1 DEF StandingKept, TurnKept, Promoting
  <2> QED
      BY <2>1, <2>2, StandingByKeeping DEF ClaimInvariant, Standing, SteerCallKept
<1> QED
    BY <1>1, <1>2, <1>3, <1>4

LEMMA PromoteStanding ==
    ASSUME OwnershipInvariant, ClaimInvariant,
           (\E i \in Inputs : PromoteClaim(i)) \/ PromoteBlock \/ PromoteFail \/ PromoteFinish
    PROVE  ClaimInvariant'
<1> USE AdmissionFacts
<1>1. ASSUME NEW i \in Inputs, PromoteClaim(i) PROVE ClaimInvariant'
  <2>1. RowWritten(db, db', i, "claimed", "queue")
      BY <1>1, RowsOf DEF PromoteClaim
  <2>2. /\ call.lane = "free" /\ call'.lane = "promote" /\ call'.item = i
        /\ UNCHANGED <<pump, turn, hist>> /\ db.state[i] = "pending" /\ db.mode[i] = "queue"
      BY <1>1 DEF PromoteClaim, LaneFree, Calls
  <2>3. i \notin Running /\ ~(i > hist.submitted) /\ (turn[i].stage # "none" => turn[i].fenced)
      BY <2>2, WaitingRow DEF WaitingStates
  <2>4. ClaimStanding(i)'
      BY <2>1, <2>2, <2>3, NotRunning
      DEF ClaimStanding, RowWritten, Promoting, Running
  <2>5. i \in hist.unapproved => i \in pump.held
      BY <2>2 DEF ReplayStanding, QueueRows, ActiveStates, WaitingStates
  <2>6. ReplayStanding(i)'
      BY <2>1, <2>2, <2>5 DEF ReplayStanding, RowWritten, Promoting, QueueRows
  <2>7. \A j \in Inputs \ {i} : StandingKept(j)
      BY <2>1, <2>2 DEF StandingKept, RowWritten, TurnKept, Promoting
  <2> QED
      BY <2>2, <2>4, <2>6, <2>7, StandingByKeeping DEF ClaimInvariant, Standing, SteerCallKept
<1>2. ASSUME call.lane = "promote", call' = EndPromotion, \A j \in Inputs : TurnKept(j),
             hist'.submitted = hist.submitted, pump'.launched = pump.launched,
             NEW s \in {"pending", "blocked", "retry_required"}, NEW m \in {"queue", "steer"},
             RowWritten(db, db', call.item, s, m), s # "pending" => m = "queue",
             m = "queue" => pump'.held = pump.held /\ hist' = hist,
             m = "steer" => /\ pump'.held = pump.held \ {call.item}
                            /\ hist'.unapproved = hist.unapproved \ {call.item}
      PROVE  ClaimInvariant'
  <2>0. PICK i \in Inputs : i = call.item
      BY <1>2 DEF OwnershipInvariant, LaneKnowsItem
  <2>1. Promoting(i) /\ call'.lane = "free"
      BY <1>2, <2>0 DEF Promoting, EndPromotion, Calls
  <2>2. /\ db.state[i] = "claimed" /\ i \notin Running /\ ~(i > hist.submitted)
      BY <2>1 DEF ClaimStanding, Unsubmitted
  <2>3. turn[i].stage # "none" => turn[i].fenced
      BY <2>1, <2>2 DEF TypeOK, Turns, Stages, Running, PreStream, InStream, ClaimStanding
  <2>4. m = "queue" /\ s = "blocked" /\ i \in hist.unapproved => i \in pump.held
      BY <2>1, <2>2 DEF ReplayStanding, QueueRows, ActiveStates, ClaimStanding, Running, InStream
  <2>5. m = "queue" /\ s = "pending" /\ i \in hist.unapproved => i \in pump.held
      BY <2>1, <2>2 DEF ReplayStanding, QueueRows, ActiveStates, ClaimStanding, Running, InStream
  <2>6. Standing(i)'
      BY <1>2, <2>0, <2>1, <2>2, <2>3, <2>4, <2>5, StandingByRewriting, NotRunning
  <2>7. \A j \in Inputs \ {i} : StandingKept(j)
      BY <1>2, <2>0, <2>1 DEF StandingKept, RowWritten, Promoting
  <2> QED
      BY <2>1, <2>6, <2>7, StandingByKeeping DEF ClaimInvariant, Standing, SteerCallKept
<1>3. CASE PromoteBlock
  <2>1. call.item \in Inputs /\ db.mode[call.item] = "queue"
      BY <1>3 DEF PromoteBlock, OwnershipInvariant, LaneKnowsItem, ClaimStanding, Promoting
  <2>2. RowWritten(db, db', call.item, "blocked", "queue")
      BY <1>3, <2>1, RowsOf DEF PromoteBlock
  <2> QED
      BY <1>2, <1>3, <2>2 DEF PromoteBlock, TurnKept
<1>4. CASE PromoteFail
  <2>1. call.item \in Inputs /\ db.mode[call.item] = "queue"
      BY <1>4 DEF PromoteFail, OwnershipInvariant, LaneKnowsItem, ClaimStanding, Promoting
  <2>2. RowWritten(db, db', call.item, "retry_required", "queue")
      BY <1>4, <2>1, RowsOf DEF PromoteFail
  <2> QED
      BY <1>2, <1>4, <2>2 DEF PromoteFail, TurnKept
<1>5. CASE PromoteFinish
  <2>0. PICK i \in Inputs : i = call.item
      BY <1>5 DEF PromoteFinish, OwnershipInvariant, LaneKnowsItem
  <2> DEFINE back == Release(db, i, "pending")
  <2>1. i = call.item /\ call.lane = "promote"
      BY <1>5, <2>0 DEF PromoteFinish
  <2>2. back \in Databases /\ RowWritten(db, back, i, "pending", db.mode[i])
      BY <2>1, ReleaseType, RowsOf DEF RowStates
  <2>3. PICK d \in {back, Materialize(back)} : db' = Promote(d, i)
      BY <1>5, <2>1 DEF PromoteFinish
  <2>4. d \in Databases /\ RowWritten(db, d, i, "pending", db.mode[i])
      BY <2>2, MaterializeType, MaterializeRows DEF RowsKept, RowWritten
  <2>5. RowWritten(db, db', i, "pending", "steer")
      BY <2>1, <2>3, <2>4, PromoteRows DEF RowWritten
  <2>6. turn' = turn \/ turn' = HandOff
      BY <1>5 DEF PromoteFinish
  <2>7. Unhold(pump, i) \in Pumps /\ Unhold(pump, i).held = pump.held \ {i}
            /\ Unhold(pump, i).launched = pump.launched
      BY UnholdHolds
  <2>8. pump' = Unhold(pump, i) \/ pump' = Request(Unhold(pump, i), turn, inst.status)
      BY <1>5, <2>1 DEF PromoteFinish
  <2>9. pump'.held = pump.held \ {i} /\ pump'.launched = pump.launched
      BY <2>7, <2>8, WakeupsKeepHolds, RequestLease
  <2>10. call' = EndPromotion /\ hist' = Approve({i})
      BY <1>5, <2>1 DEF PromoteFinish
  <2>11. hist'.submitted = hist.submitted /\ hist'.unapproved = hist.unapproved \ {i}
      BY <2>10 DEF Approve, Histories
  <2>12. \A j \in Inputs : TurnKept(j)
      BY <2>6, TurnsKeptBySignals
  <2> QED
      BY <1>2, <2>1, <2>5, <2>9, <2>10, <2>11, <2>12
<1> QED
    BY <1>1, <1>3, <1>4, <1>5

\* An edit, a deletion, a decision or a Retry: one waiting row is rewritten.
LEMMA EditStanding ==
    ASSUME OwnershipInvariant, ClaimInvariant, NEW i \in Inputs,
           Update(i) \/ Delete(i) \/ ResolveBlocked(i) \/ Retry(i)
    PROVE  ClaimInvariant'
<1> USE AdmissionFacts
<1>1. db.state[i] \in WaitingStates
    BY DEF Update, Delete, ResolveBlocked, Retry, WaitingQueue, WaitingStates
<1>2. i \notin Running /\ ~Promoting(i) /\ ~(i > hist.submitted)
      /\ (turn[i].stage # "none" => turn[i].fenced)
    BY <1>1, WaitingRow
<1>3. \A j \in Inputs : TurnKept(j)
    BY DEF Update, Delete, ResolveBlocked, Retry, TurnKept
<1>4. call'.lane = call.lane /\ call'.item = call.item /\ (call.gate = "steer" => call' = call)
    BY DEF Update, Delete, ResolveBlocked, Retry, Calls, GateFree
<1>5. hist'.submitted = hist.submitted /\ SteerCallKept'
    BY <1>4
    DEF Update, Delete, ResolveBlocked, Retry, Approve, Histories, ClaimInvariant, SteerCallKept
<1>6. Unhold(pump, i) \in Pumps /\ Unhold(pump, i).held = pump.held \ {i}
          /\ Unhold(pump, i).launched = pump.launched
    BY UnholdHolds
<1>7. pump'.launched = pump.launched /\ pump'.held \in {pump.held, pump.held \ {i}}
    BY <1>6, WakeupsKeepHolds, ScheduleLease, RequestLease DEF Update, Delete, ResolveBlocked, Retry
<1>8. hist'.unapproved \in {hist.unapproved, hist.unapproved \ {i}}
    BY DEF Update, Delete, ResolveBlocked, Retry, Approve, Histories
<1>9. \/ RowWritten(db, db', i, "none", db.mode[i])
      \/ /\ RowWritten(db, db', i, "pending", db.mode[i])
         /\ i \notin hist'.unapproved \/ (db.state[i] = "blocked" /\ pump'.held = pump.held)
  <2>1. CASE Delete(i)
      BY <2>1, DeleteRowRows DEF Delete
  <2>2. CASE Update(i) \/ Retry(i)
      BY <2>2, RowsOf DEF Update, Retry, Approve, Histories
  <2>3. CASE ResolveBlocked(i)
      BY <2>3, RowsOf, WakeupsKeepHolds DEF ResolveBlocked
  <2> QED
      BY <2>1, <2>2, <2>3
<1>10. Standing(i)'
  <2>1. i \in pump'.held => db.mode[i] = "queue"
      BY <1>7 DEF ReplayStanding
  <2>2. CASE RowWritten(db, db', i, "none", db.mode[i])
      BY <1>2, <1>3, <1>4, <1>5, <2>1, <2>2, StandingByRewriting, NotRunning DEF Promoting
  <2>3. CASE /\ RowWritten(db, db', i, "pending", db.mode[i])
             /\ i \notin hist'.unapproved \/ (db.state[i] = "blocked" /\ pump'.held = pump.held)
    <3>1. db.mode[i] = "queue" /\ i \in hist'.unapproved => i \in pump'.held
        BY <1>8, <2>3 DEF ReplayStanding, QueueRows, ActiveStates, WaitingStates
    <3> QED
        BY <1>2, <1>3, <1>4, <1>5, <2>1, <2>3, <3>1, StandingByRewriting, NotRunning DEF Promoting
  <2> QED
      BY <1>9, <2>2, <2>3
<1>11. \A j \in Inputs \ {i} : StandingKept(j)
    BY <1>3, <1>4, <1>5, <1>7, <1>8, <1>9 DEF StandingKept, RowWritten, Promoting
<1> QED
    BY <1>5, <1>10, <1>11, StandingByKeeping DEF ClaimInvariant, Standing

LEMMA ResumeQueueStanding ==
    ASSUME OwnershipInvariant, ClaimInvariant, NEW h \in Inputs, ResumeQueue(h)
    PROVE  ClaimInvariant'
<1> USE AdmissionFacts
<1> DEFINE p == [pump EXCEPT !.held = @ \ WaitingQueue(db), !.resumed = @ \cup {h}]
<1>1. p \in Pumps /\ p.held = pump.held \ WaitingQueue(db) /\ p.launched = pump.launched
    BY DEF Pumps
<1>2. pump' = Schedule(p, turn, inst.status, "enqueue")
    BY DEF ResumeQueue
<1> HIDE DEF p
<1>3. pump'.held = pump.held \ WaitingQueue(db) /\ pump'.launched = pump.launched
    BY <1>1, <1>2, WakeupsKeepHolds, ScheduleLease
<1>4. hist'.unapproved = hist.unapproved \ WaitingQueue(db) /\ hist'.submitted = hist.submitted
    BY DEF ResumeQueue, Approve, Histories
<1>5. UNCHANGED <<db, turn>> /\ call'.lane = call.lane /\ call'.item = call.item /\ call.gate = "free"
    BY DEF ResumeQueue, GateFree, Calls
<1>6. \A j \in Inputs : db.state[j] # "claimed"
    BY DEF ResumeQueue, HasClaimed
<1>7. ASSUME NEW j \in Inputs PROVE Standing(j)'
  <2>1. ClaimStanding(j)'
      BY <1>3, <1>4, <1>5 DEF ClaimStanding, Unsubmitted, Promoting, Running
  <2>2. ReplayStanding(j)'
      BY <1>3, <1>4, <1>5, <1>6
      DEF ReplayStanding, QueueRows, WaitingQueue, WaitingStates
  <2> QED
      BY <2>1, <2>2 DEF Standing
<1> QED
    BY <1>5, <1>7 DEF ClaimInvariant, Standing, SteerCallKept

LEMMA MoveStanding ==
    ASSUME OwnershipInvariant, ClaimInvariant, NEW i \in Inputs, NEW j \in Inputs, Move(i, j)
    PROVE  ClaimInvariant'
<1> USE AdmissionFacts
<1>1. RowsKept(db, db') /\ UNCHANGED <<pump, turn, call, hist>>
    BY MovesRows DEF Move
<1>2. \A k \in Inputs : StandingKept(k)
    BY <1>1 DEF StandingKept, RowsKept, TurnKept, Promoting
<1> QED
    BY <1>1, <1>2, StandingByKeeping DEF ClaimInvariant, Standing, SteerCallKept

LEMMA AdmissionStanding ==
    ASSUME OwnershipInvariant, TypeOK', ClaimInvariant, Admission
    PROVE  ClaimInvariant'
BY QueueStanding, SteerCallStanding, PromoteStanding, EditStanding, ResumeQueueStanding, MoveStanding
DEF Admission

-----------------------------------------------------------------------------
(* The pump's own steps. *)

LEMMA DrainStanding ==
    ASSUME OwnershipInvariant, TypeOK', ClaimInvariant, Drain
    PROVE  ClaimInvariant'
<1> USE AdmissionFacts
<1>1. call'.lane = call.lane /\ call'.item = call.item /\ (call.gate = "steer" => call'.gate = "steer")
    BY DEF Drain, DrainIdle, DrainLaunch, Calls
<1>2. hist' = hist
    BY DEF Drain, DrainIdle, DrainLaunch
<1>3. SteerCallKept'
    BY <1>1, <1>2 DEF ClaimInvariant, SteerCallKept
<1>4. ASSUME NEW i \in Inputs, DrainLaunch(i) PROVE \A j \in Inputs : Standing(j)'
  <2> DEFINE d == Claim(db, i)
             source == IF db.mode[i] = "steer" THEN "steer" ELSE "queue"
  <2>1. d \in Databases /\ RowWritten(db, d, i, "claimed", db.mode[i])
      BY ClaimType, ClaimRows
  <2>2. Launch(d, i, source)
      BY <1>4 DEF DrainLaunch
  <2>3. source \in {"send", "queue", "steer"} /\ (source = "steer" <=> db.mode[i] = "steer")
      OBVIOUS
  <2>4. /\ pump.lease # "turn" /\ ~HasClaimed(db)
        /\ db.mode[i] = "queue" => i \notin pump.held
        /\ i \in NextInput(db)
      BY <1>4 DEF DrainLaunch, DrainReady, Drainable
  <2>5. db.state[i] = "pending"
      BY <2>4 DEF NextInput, NextSteer, NextQueue
  <2>6. i \notin pump.held /\ (db.mode[i] = "queue" => i \notin hist.unapproved)
      BY <2>4, <2>5 DEF ReplayStanding, QueueRows, ActiveStates, WaitingStates
  <2>7. i <= hist'.submitted
      BY <1>2, <2>5 DEF ClaimStanding, Unsubmitted, Inputs
  <2>8. /\ hist'.unapproved = hist.unapproved
        /\ hist'.submitted \in {hist.submitted, hist.submitted + 1}
        /\ db.mode[i] \in {"queue", "steer"}
      BY <1>2
  <2> HIDE DEF d, source
  <2> QED
      BY <1>1, <2>1, <2>2, <2>3, <2>4, <2>6, <2>7, <2>8, LaunchStanding
<1>5. CASE DrainIdle
  <2> DEFINE back == GiveBack(pump, turn, inst.status)
  <2>1. back \in Pumps /\ back.held = pump.held /\ back.launched = None
      BY GiveBackType, GiveBackLease, WakeupsKeepHolds
  <2>2. pump' = IF pump.again THEN Schedule(back, turn, inst.status, "enqueue") ELSE back
      BY <1>5 DEF DrainIdle
  <2>3. pump.launched = None /\ UNCHANGED <<db, turn>>
      BY <1>5 DEF DrainIdle, LeaseOwnership
  <2> HIDE DEF back
  <2>4. pump'.held = pump.held /\ pump'.launched = pump.launched
      BY <2>1, <2>2, <2>3, WakeupsKeepHolds, ScheduleLease
  <2>5. \A j \in Inputs : StandingKept(j)
      BY <1>1, <1>2, <2>3, <2>4 DEF StandingKept, TurnKept, Promoting
  <2> QED
      BY <1>3, <2>5, StandingByKeeping DEF ClaimInvariant, Standing
<1> QED
    BY <1>3, <1>4, <1>5 DEF Drain, ClaimInvariant, Standing

LEMMA NextIfReadyStanding ==
    ASSUME OwnershipInvariant, ClaimInvariant, NextIfReady
    PROVE  ClaimInvariant'
<1> USE AdmissionFacts
<1> DEFINE p == [pump EXCEPT !.next = FALSE]
<1>1. p \in Pumps /\ p.held = pump.held /\ p.launched = pump.launched
    BY DEF Pumps
<1>2. pump' = Schedule(p, turn, inst.status, "completed") \/ pump' = p
    BY DEF NextIfReady
<1> HIDE DEF p
<1>3. pump'.held = pump.held /\ pump'.launched = pump.launched
    BY <1>1, <1>2, WakeupsKeepHolds, ScheduleLease
<1>4. UNCHANGED <<db, turn, call, hist>>
    BY DEF NextIfReady
<1>5. \A j \in Inputs : StandingKept(j)
    BY <1>3, <1>4 DEF StandingKept, TurnKept, Promoting
<1> QED
    BY <1>4, <1>5, StandingByKeeping DEF ClaimInvariant, Standing, SteerCallKept

\* The finally block of a launched turn: its claim is settled already.
LEMMA FinalizeStanding ==
    ASSUME OwnershipInvariant, ClaimInvariant, NEW i \in Inputs, Finalize(i)
    PROVE  ClaimInvariant'
<1> USE AdmissionFacts
<1> DEFINE back == GiveBack(pump, turn', inst.status)
<1>1. back \in Pumps /\ back.held = pump.held /\ back.launched = None
    BY GiveBackType, GiveBackLease, WakeupsKeepHolds
<1>2. \E b, R : pump' = [back EXCEPT !.next = b, !.resumed = R]
    BY DEF Finalize
<1> HIDE DEF back
<1>3. pump'.held = pump.held /\ pump'.launched = None
    BY <1>1, <1>2 DEF Pumps
<1>4. /\ pump.launched = i /\ turn[i].stage = "finishing" /\ UNCHANGED <<db, call, hist>>
      /\ turn'[i] = NoTurn /\ \A j \in Inputs \ {i} : turn'[j] = turn[j]
    BY DEF Finalize
<1>5. Standing(i)'
  <2>1. turn[i].fenced
      BY <1>4 DEF ClaimStanding
  <2>2. ~(i \in Running)' /\ i \notin Running
      BY <1>4 DEF Running, NoTurn, PreStream, InStream
  <2>3. ClaimStanding(i)'
      BY <1>3, <1>4, <2>1, <2>2 DEF ClaimStanding, NoTurn, Promoting, Unsubmitted
  <2>4. ReplayStanding(i)'
      BY <1>3, <1>4 DEF ReplayStanding, NoTurn, Promoting, QueueRows
  <2> QED
      BY <2>3, <2>4 DEF Standing
<1>6. \A j \in Inputs \ {i} : StandingKept(j)
    BY <1>3, <1>4, NoneIsNoRun DEF StandingKept, TurnKept, Promoting
<1> QED
    BY <1>4, <1>5, <1>6, StandingByKeeping DEF ClaimInvariant, Standing, SteerCallKept

-----------------------------------------------------------------------------
(* The turn. *)

\* The run that resumes a paused answer has no row.
LEMMA ResumedStanding ==
    ASSUME OwnershipInvariant, ClaimInvariant, TurnStep(Resumed)
    PROVE  ClaimInvariant'
<1> USE AdmissionFacts
<1>1. turn[Resumed].stage \notin {"preparing", "factual"} /\ ~Unsettled(Resumed)
    BY DEF OwnershipInvariant, ResumedSkipsPreparation, InStream, Unsettled
<1>2. call' = call /\ hist'.submitted = hist.submitted
      /\ \A j \in Inputs : j \in hist'.unapproved <=> j \in hist.unapproved
    BY NoneIsNoRun
    DEF TurnStep, TurnBlock, TurnUserFact, TurnReserve, TurnRegister, ProviderStart, StreamEnd,
        AbortedPreStream, FailedPreStream, Histories
<1>3. \A j \in Inputs : turn'[j] = turn[j]
    BY NoneIsNoRun
    DEF TurnStep, TurnBlock, TurnUserFact, TurnReserve, TurnRegister, ProviderStart, StreamEnd,
        AbortedPreStream, FailedPreStream, Ended
<1>4. pump'.held = pump.held /\ pump'.launched = pump.launched
    BY WakeupsKeepHolds, ScheduleLease
    DEF TurnStep, TurnBlock, TurnUserFact, TurnReserve, TurnRegister, ProviderStart, StreamEnd,
        AbortedPreStream, FailedPreStream
<1>5. RowsKept(db, db')
  <2>0. \A i, s : RowsKept(db, SetAssistant(db, i, s))
    <3> TAKE i, s
    <3> QED
        BY MessagesRows
  <2>1. RowsKept(db, db) /\ \A i, s : RowsKept(db, SetAssistant(db, i, s))
      BY <2>0 DEF RowsKept
  <2>2. CASE TurnRegister(Resumed) \/ ProviderStart(Resumed)
      BY <1>1, <2>1, <2>2 DEF TurnRegister, ProviderStart
  <2>3. ASSUME NEW result \in Results, StreamEnd(Resumed, result) PROVE RowsKept(db, db')
      BY <1>1, <2>1, <2>3 DEF StreamEnd, Undone
  <2>4. ASSUME NEW late \in BOOLEAN, AbortedPreStream(Resumed, late) PROVE RowsKept(db, db')
    <3>1. PICK x, y : db' = SetAssistant(db, x, y)
        BY <2>4 DEF AbortedPreStream
    <3> QED
        BY <2>1, <3>1
  <2>5. CASE FailedPreStream(Resumed)
      BY <1>1, <2>1, <2>5 DEF FailedPreStream
  <2>6. ~TurnBlock(Resumed) /\ ~TurnUserFact(Resumed) /\ ~TurnReserve(Resumed)
      BY <1>1 DEF TurnBlock, TurnUserFact, TurnReserve
  <2> QED
      BY <2>2, <2>3, <2>4, <2>5, <2>6 DEF TurnStep
<1>6. \A j \in Inputs : StandingKept(j)
    BY <1>2, <1>3, <1>4, <1>5 DEF StandingKept, TurnKept, RowsKept, Promoting
<1> QED
    BY <1>2, <1>6, StandingByKeeping DEF ClaimInvariant, Standing, SteerCallKept

\* A run ends: an unfenced one has rewritten its row, a fenced one has no row.
LEMMA EndStanding ==
    ASSUME OwnershipInvariant, ClaimInvariant, NEW r \in Inputs, r \in Running, turn' = Ended(r),
           pump'.held = pump.held, pump'.launched = pump.launched, call' = call, hist' = hist,
           NEW s \in {"none", "consumed", "blocked", "retry_required"},
           IF Unsettled(r) THEN RowWritten(db, db', r, s, db.mode[r]) ELSE RowsKept(db, db'),
           s \in {"blocked", "retry_required"} => turn[r].source # "steer",
           s = "blocked" => turn[r].stage = "preparing"
    PROVE  ClaimInvariant'
<1> USE AdmissionFacts
<1>1. /\ turn'[r].stage = "finishing" /\ turn'[r].fenced /\ turn'[r].source = turn[r].source
      /\ \A j \in Inputs \ {r} : turn'[j] = turn[j]
    BY NoneIsNoRun DEF Ended, Turns
<1>2. turn[r].stage \in PreStream \cup InStream /\ turn[r].source # "resume"
    BY DEF Running, PreStream, InStream, ClaimStanding
<1>3. turn[r].fenced \in BOOLEAN
    BY DEF Turns
<1>4. \A j \in Inputs \ {r} : StandingKept(j)
    BY <1>1 DEF StandingKept, TurnKept, RowWritten, RowsKept, Promoting
<1>5. ~(r \in Running)' /\ ~(r > hist.submitted) /\ ~Promoting(r)
    BY <1>1, <1>2 DEF Running, PreStream, InStream, ClaimStanding, Unsubmitted
<1>6. CASE Unsettled(r)
  <2>1. ~turn[r].fenced /\ db'.state[r] = s /\ db'.mode[r] = db.mode[r]
      BY <1>6 DEF Unsettled, RowWritten
  <2>2. turn[r].source # "steer" => db.mode[r] = "queue"
      BY <1>2, <2>1 DEF ClaimStanding, PreStream, InStream
  <2>3. s = "blocked" /\ db.mode[r] = "queue" => r \notin hist.unapproved
      BY <1>2, <1>5, <2>1 DEF ReplayStanding, QueueRows, ActiveStates, ClaimStanding
  <2>4. ClaimStanding(r)'
      BY <1>1, <1>2, <1>5, <2>1, <2>2 DEF ClaimStanding, Promoting
  <2>5. ReplayStanding(r)'
      BY <1>1, <1>5, <2>1, <2>2, <2>3 DEF ReplayStanding, QueueRows
  <2> QED
      BY <1>4, <2>4, <2>5, StandingByKeeping DEF ClaimInvariant, Standing, SteerCallKept
<1>7. CASE ~Unsettled(r)
  <2>1. turn[r].fenced /\ db.state[r] = "none" /\ db'.state[r] = "none" /\ db'.mode[r] = db.mode[r]
      BY <1>3, <1>7, NoneIsNoRun DEF Unsettled, RowsKept, ClaimStanding
  <2>2. ClaimStanding(r)'
      BY <1>1, <1>2, <1>5, <2>1 DEF ClaimStanding, Promoting
  <2>3. ReplayStanding(r)'
      BY <1>1, <1>5, <2>1 DEF ReplayStanding, QueueRows
  <2> QED
      BY <1>4, <2>2, <2>3, StandingByKeeping DEF ClaimInvariant, Standing, SteerCallKept
<1> QED
    BY <1>6, <1>7

\* A run goes on: it keeps its claim and its fence, or settles the claim and is fenced.
LEMMA GoOnStanding ==
    ASSUME OwnershipInvariant, ClaimInvariant, NEW r \in Inputs, r \in Running,
           turn'[r].stage \in {"factual", "reserved", "registered", "streaming"},
           turn'[r].source = turn[r].source, \A j \in Inputs \ {r} : turn'[j] = turn[j],
           \/ RowsKept(db, db') /\ turn'[r].fenced = turn[r].fenced
           \/ RowWritten(db, db', r, "none", db.mode[r]) /\ turn'[r].fenced = TRUE,
           turn'[r].stage = "factual" => ~turn'[r].fenced,
           UNCHANGED <<pump, call>>, hist'.submitted = hist.submitted,
           IF turn'[r].stage = "streaming" THEN hist'.unapproved = hist.unapproved \cup {r}
           ELSE turn[r].stage # "streaming" /\ hist'.unapproved = hist.unapproved
    PROVE  ClaimInvariant'
<1> USE AdmissionFacts
<1>1. /\ turn[r].stage \in PreStream \cup InStream /\ turn[r].fenced \in BOOLEAN
      /\ turn[r].source # "resume"
    BY DEF Running, PreStream, InStream, Turns, ClaimStanding
<1>2. \A j \in Inputs \ {r} : StandingKept(j)
    BY DEF StandingKept, TurnKept, RowWritten, RowsKept, Promoting
<1>3. (r \in Running)' /\ ~(r > hist.submitted) /\ ~Promoting(r) /\ ~Promoting(r)'
    BY <1>1 DEF Running, PreStream, InStream, ClaimStanding, Unsubmitted, Promoting
<1>4. CASE RowsKept(db, db') /\ turn'[r].fenced = turn[r].fenced
  <2>1. db'.state[r] = db.state[r] /\ db'.mode[r] = db.mode[r]
      BY <1>4 DEF RowsKept
  <2>2. ClaimStanding(r)'
      BY <1>1, <1>3, <1>4, <2>1 DEF ClaimStanding, PreStream, InStream
  <2>3. r \in QueueRows(db) => r \in QueueRows(db)' /\ db'.state[r] = db.state[r]
      BY <2>1 DEF QueueRows
  <2>4. r \in QueueRows(db)' => r \in QueueRows(db)
      BY <2>1 DEF QueueRows
  <2>5. r \in hist.unapproved \cap QueueRows(db) /\ db.state[r] \in {"pending", "blocked", "claimed"}
        => turn[r].stage = "streaming"
      BY <1>1, <1>3 DEF ReplayStanding, ClaimStanding, PreStream, InStream
  <2>6. db.state[r] \in {"claimed", "none"}
      BY <1>1 DEF ClaimStanding, PreStream, InStream
  <2>7. ReplayStanding(r)'
      BY <1>3, <1>4, <2>1, <2>4, <2>5, <2>6 DEF ReplayStanding
  <2> QED
      BY <1>2, <2>2, <2>7, StandingByKeeping DEF ClaimInvariant, Standing, SteerCallKept
<1>5. CASE RowWritten(db, db', r, "none", db.mode[r]) /\ turn'[r].fenced = TRUE
  <2>1. db'.state[r] = "none" /\ db'.mode[r] = db.mode[r]
      BY <1>5 DEF RowWritten
  <2>2. ClaimStanding(r)'
      BY <1>1, <1>3, <1>5, <2>1 DEF ClaimStanding
  <2>3. ReplayStanding(r)'
      BY <1>3, <2>1 DEF ReplayStanding, QueueRows
  <2> QED
      BY <1>2, <2>2, <2>3, StandingByKeeping DEF ClaimInvariant, Standing, SteerCallKept
<1> QED
    BY <1>4, <1>5

LEMMA TurnStepStanding ==
    ASSUME OwnershipInvariant, ClaimInvariant, NEW r \in Runs, TurnStep(r)
    PROVE  ClaimInvariant'
<1> USE AdmissionFacts
<1>1. CASE r = Resumed
    BY <1>1, ResumedStanding
<1> SUFFICES ASSUME r # Resumed PROVE ClaimInvariant'
    BY <1>1
<1>2. r \in Inputs /\ r \in Running
    BY LaunchedRuns, RunningStage
<1>3. Unsettled(r) <=> ~turn[r].fenced
    BY DEF Unsettled
<1>4. turn[r].stage # "none" /\ (turn[r].source # "steer" /\ ~turn[r].fenced => db.mode[r] = "queue")
    BY <1>2 DEF Running, PreStream, InStream, ClaimStanding
<1>5. turn[r].stage \in {"preparing", "factual"} => ~turn[r].fenced
    BY <1>2 DEF ClaimStanding
<1>6. CASE TurnBlock(r)
  <2>1. RowWritten(db, db', r, "blocked", db.mode[r])
      BY <1>2, <1>6, RowsOf DEF TurnBlock
  <2>2. turn[r].source # "steer"
      BY <1>2, <1>6 DEF TurnBlock, ClaimStanding
  <2> QED
      BY <1>2, <1>3, <1>5, <1>6, <2>1, <2>2, EndStanding DEF TurnBlock
<1>7. CASE TurnUserFact(r)
  <2>1. RowsKept(db, db')
      BY <1>7, MessagesRows DEF TurnUserFact
  <2>2. /\ turn'[r].stage = "factual" /\ turn'[r].source = turn[r].source
        /\ turn'[r].fenced = turn[r].fenced /\ \A j \in Inputs \ {r} : turn'[j] = turn[j]
        /\ turn[r].stage = "preparing" /\ UNCHANGED <<pump, call, hist>>
      BY <1>2, <1>7 DEF TurnUserFact, Turns
  <2> QED
      BY <1>2, <1>5, <2>1, <2>2, GoOnStanding
<1>8. CASE TurnReserve(r)
  <2>1. /\ turn'[r].stage = "reserved" /\ turn'[r].source = turn[r].source
        /\ turn'[r].fenced = (turn[r].source = "send") /\ \A j \in Inputs \ {r} : turn'[j] = turn[j]
        /\ turn[r].stage = "factual" /\ UNCHANGED <<pump, call, hist>>
      BY <1>2, <1>8 DEF TurnReserve, Turns
  <2>2. turn[r].source \in {"send", "queue", "steer", "resume"}
      BY DEF Turns
  <2>3. CASE turn[r].source # "send" /\ turn[r].source # "resume"
    <3>1. RowsKept(db, db')
        BY <1>8, <2>2, <2>3, MessagesRows DEF TurnReserve, RowsKept
    <3>2. turn[r].fenced \in BOOLEAN
        BY DEF Turns
    <3>3. turn[r].fenced = FALSE /\ turn'[r].fenced = FALSE
        BY <1>5, <2>1, <2>3, <3>2
    <3> QED
        BY <1>2, <2>1, <2>3, <3>1, <3>3, GoOnStanding
  <2>4. CASE turn[r].source = "send"
    <3> DEFINE e == WriteAssistant(db, r)
    <3>1. e \in Databases /\ RowsKept(db, e)
        BY WriteAssistantType, MessagesRows
    <3>2. RowWritten(e, Consume(e, r), r, IF e.mode[r] = "steer" THEN "consumed" ELSE "none", e.mode[r])
        BY <1>2, <3>1, ConsumeRows
    <3>3. db' = Consume(e, r)
        BY <1>8, <2>4 DEF TurnReserve
    <3>4. db.mode[r] = "queue"
        BY <1>4, <1>5, <2>1, <2>4
    <3> HIDE DEF e
    <3>5. RowWritten(db, db', r, "none", db.mode[r])
        BY <3>1, <3>2, <3>3, <3>4 DEF RowWritten, RowsKept
    <3> QED
        BY <1>2, <2>1, <2>4, <3>5, GoOnStanding
  <2>5. turn[r].source # "resume"
      BY <1>2, <1>4 DEF ClaimStanding
  <2> QED
      BY <2>2, <2>3, <2>4, <2>5
<1>9. CASE TurnRegister(r)
  <2>1. /\ turn'[r].stage = "registered" /\ turn'[r].source = turn[r].source
        /\ turn'[r].fenced = turn[r].fenced /\ \A j \in Inputs \ {r} : turn'[j] = turn[j]
        /\ turn[r].stage = "reserved" /\ UNCHANGED <<db, pump, call, hist>>
      BY <1>2, <1>9 DEF TurnRegister, Turns
  <2> QED
      BY <1>2, <2>1, GoOnStanding DEF RowsKept
<1>10. CASE ProviderStart(r)
  <2> DEFINE early == Unsettled(r) /\ turn[r].source = "queue" /\ r \in pump.resumed
  <2>1. /\ turn'[r].stage = "streaming" /\ turn'[r].source = turn[r].source
        /\ turn'[r].fenced = (turn[r].fenced \/ early) /\ \A j \in Inputs \ {r} : turn'[j] = turn[j]
        /\ UNCHANGED <<pump, call>> /\ hist'.submitted = hist.submitted
        /\ hist'.unapproved = hist.unapproved \cup {r}
        /\ db' = IF early THEN Consume(db, r) ELSE db
      BY <1>2, <1>10 DEF ProviderStart, Turns, Histories
  <2>2. turn[r].fenced \in BOOLEAN
      BY DEF Turns
  <2>3. CASE early
    <3>1. db.mode[r] = "queue"
        BY <1>3, <1>4, <2>3
    <3>2. RowWritten(db, db', r, "none", db.mode[r]) /\ turn'[r].fenced = TRUE
        BY <1>2, <2>1, <2>3, <3>1, ConsumeRows
    <3> HIDE DEF early
    <3> QED
        BY <1>2, <2>1, <3>2, GoOnStanding
  <2>4. CASE ~early
    <3>1. RowsKept(db, db') /\ turn'[r].fenced = turn[r].fenced
        BY <2>1, <2>2, <2>4 DEF RowsKept
    <3> HIDE DEF early
    <3> QED
        BY <1>2, <2>1, <3>1, GoOnStanding
  <2> QED
      BY <2>3, <2>4
<1>11. ASSUME NEW result \in Results, StreamEnd(r, result) PROVE ClaimInvariant'
  <2> DEFINE answered == SetAssistant(db, turn[r].answer, AnswerStatus[result])
             undone == Rollback(db, r)
  <2>0. AnswerStatus[result] \in AssistantStates
      BY DEF Results, AnswerStatus, AssistantStates
  <2>1. answered \in Databases /\ RowsKept(db, answered)
      BY <2>0, SetAssistantType, MessagesRows
  <2>2. undone \in Databases /\ RowsKept(db, undone)
      BY <1>2, RollbackType, MessagesRows
  <2>3. /\ db' = IF Undone(r, result) THEN Release(undone, r, "retry_required")
                  ELSE IF Unsettled(r) THEN Consume(answered, r)
                  ELSE answered
        /\ turn' = Ended(r) /\ pump' = pump /\ UNCHANGED <<call, hist>>
      BY <1>11 DEF StreamEnd
  <2>4. /\ RowWritten(answered, Consume(answered, r), r,
                     IF answered.mode[r] = "steer" THEN "consumed" ELSE "none", answered.mode[r])
        /\ RowWritten(undone, Release(undone, r, "retry_required"), r, "retry_required", undone.mode[r])
      BY <1>2, <2>1, <2>2, ConsumeRows, RowsOf
  <2>5. Undone(r, result) => Unsettled(r) /\ turn[r].source = "queue"
      BY DEF Undone
  <2> HIDE DEF answered, undone
  <2>6. CASE Undone(r, result)
    <3>1. RowWritten(db, db', r, "retry_required", db.mode[r])
        BY <2>2, <2>3, <2>4, <2>6 DEF RowWritten, RowsKept
    <3> QED
        BY <1>2, <2>3, <2>5, <2>6, <3>1, EndStanding
  <2>7. CASE ~Undone(r, result) /\ Unsettled(r)
    <3>1. PICK s \in {"none", "consumed"} : RowWritten(db, db', r, s, db.mode[r])
        BY <2>1, <2>3, <2>4, <2>7 DEF RowWritten, RowsKept
    <3> QED
        BY <1>2, <2>3, <2>7, <3>1, EndStanding
  <2>8. CASE ~Undone(r, result) /\ ~Unsettled(r)
    <3>1. RowsKept(db, db')
        BY <2>1, <2>3, <2>8
    <3> QED
        BY <1>2, <2>3, <2>8, <3>1, EndStanding
  <2> QED
      BY <2>6, <2>7, <2>8
<1>12. ASSUME NEW late \in BOOLEAN, AbortedPreStream(r, late) PROVE ClaimInvariant'
  <2> DEFINE t == turn[r]
             handoff == t.signal = "handoff"
             written ==
               CASE late /\ t.stage = "preparing" /\ db.msgs[r] = {} -> AppendUserFact(db, r)
                 [] late /\ t.stage = "factual" /\ t.source # "steer" /\ ~handoff ->
                        WriteAssistant(db, r)
                 [] OTHER -> db
             settled ==
               IF ~Unsettled(r) THEN written
               ELSE IF Exists(written, r) \/ t.source = "steer" THEN Consume(written, r)
               ELSE Release(written, r, "retry_required")
  <2>1. written \in Databases /\ RowsKept(db, written)
    <3>1. /\ AppendUserFact(db, r) \in Databases /\ RowsKept(db, AppendUserFact(db, r))
          /\ WriteAssistant(db, r) \in Databases /\ RowsKept(db, WriteAssistant(db, r))
          /\ db \in Databases /\ RowsKept(db, db)
        BY <1>2, AppendUserFactType, WriteAssistantType, MessagesRows DEF RowsKept
    <3> QED
        BY <3>1, Zenon
  <2>2. db' = IF handoff THEN DeleteAssistant(settled, r) ELSE SetAssistant(settled, r, "error")
      BY <1>2, <1>12, NoneIsNoRun DEF AbortedPreStream
  <2>3. turn' = Ended(r) /\ pump' = pump /\ UNCHANGED <<call, hist>>
      BY <1>2, <1>12, NoneIsNoRun DEF AbortedPreStream
  <2> HIDE DEF written
  <2>4. /\ RowWritten(written, Consume(written, r), r,
                     IF written.mode[r] = "steer" THEN "consumed" ELSE "none", written.mode[r])
        /\ RowWritten(written, Release(written, r, "retry_required"), r, "retry_required",
                      written.mode[r])
        /\ Consume(written, r) \in Databases /\ Release(written, r, "retry_required") \in Databases
      BY <1>2, <2>1, ConsumeRows, RowsOf, ConsumeType, ReleaseType DEF RowStates
  <2>5. settled \in Databases
      BY <2>1, <2>4
  <2> HIDE DEF settled
  <2>6. RowsKept(settled, db')
      BY <2>2, <2>5, MessagesRows
  <2>7. CASE ~Unsettled(r)
    <3>1. RowsKept(db, db')
        BY <2>1, <2>6, <2>7 DEF settled, RowsKept
    <3> QED
        BY <1>2, <2>3, <2>7, <3>1, EndStanding
  <2>8. CASE Unsettled(r) /\ (Exists(written, r) \/ t.source = "steer")
    <3>1. PICK s \in {"none", "consumed"} : RowWritten(db, db', r, s, db.mode[r])
        BY <2>1, <2>4, <2>6, <2>8 DEF settled, RowWritten, RowsKept
    <3> QED
        BY <1>2, <2>3, <2>8, <3>1, EndStanding
  <2>9. CASE Unsettled(r) /\ ~(Exists(written, r) \/ t.source = "steer")
    <3>1. RowWritten(db, db', r, "retry_required", db.mode[r])
        BY <2>1, <2>4, <2>6, <2>9 DEF settled, RowWritten, RowsKept
    <3> QED
        BY <1>2, <2>3, <2>9, <3>1, EndStanding
  <2> QED
      BY <2>7, <2>8, <2>9
<1>13. CASE FailedPreStream(r)
  <2> DEFINE t == turn[r]
             shown == SetAssistant(db, t.answer, "error")
             kept == IF t.stage = "preparing" THEN db ELSE Rollback(db, r)
  <2>0. /\ Rollback(db, r) \in Databases /\ RowsKept(db, Rollback(db, r)) /\ RowsKept(db, db)
        /\ "error" \in AssistantStates
      BY <1>2, RollbackType, MessagesRows DEF RowsKept, AssistantStates
  <2>1. shown \in Databases /\ RowsKept(db, shown) /\ kept \in Databases /\ RowsKept(db, kept)
      BY <2>0, SetAssistantType, MessagesRows
  <2>2. /\ db' = IF Unsettled(r) /\ t.source # "steer" THEN Release(kept, r, "retry_required")
                  ELSE IF Unsettled(r) THEN Consume(shown, r)
                  ELSE shown
        /\ turn' = Ended(r) /\ pump' = pump /\ UNCHANGED <<call, hist>>
      BY <1>13 DEF FailedPreStream
  <2> HIDE DEF shown, kept
  <2>3. /\ RowWritten(shown, Consume(shown, r), r,
                     IF shown.mode[r] = "steer" THEN "consumed" ELSE "none", shown.mode[r])
        /\ RowWritten(kept, Release(kept, r, "retry_required"), r, "retry_required", kept.mode[r])
      BY <1>2, <2>1, ConsumeRows, RowsOf
  <2>4. CASE Unsettled(r) /\ t.source # "steer"
    <3>1. RowWritten(db, db', r, "retry_required", db.mode[r])
        BY <2>1, <2>2, <2>3, <2>4 DEF RowWritten, RowsKept
    <3> QED
        BY <1>2, <2>2, <2>4, <3>1, EndStanding
  <2>5. CASE Unsettled(r) /\ t.source = "steer"
    <3>1. PICK s \in {"none", "consumed"} : RowWritten(db, db', r, s, db.mode[r])
        BY <2>1, <2>2, <2>3, <2>5 DEF RowWritten, RowsKept
    <3> QED
        BY <1>2, <2>2, <2>5, <3>1, EndStanding
  <2>6. CASE ~Unsettled(r)
    <3>1. RowsKept(db, db')
        BY <2>1, <2>2, <2>6
    <3> QED
        BY <1>2, <2>2, <2>6, <3>1, EndStanding
  <2> QED
      BY <2>4, <2>5, <2>6
<1> QED
    BY <1>6, <1>7, <1>8, <1>9, <1>10, <1>11, <1>12, <1>13 DEF TurnStep

-----------------------------------------------------------------------------
(* Stop, the answer to an interaction, and a crash. *)

LEMMA SignalStanding ==
    ASSUME OwnershipInvariant, ClaimInvariant, Cancel \/ \E a \in Inputs : Respond(a)
    PROVE  ClaimInvariant'
<1> USE AdmissionFacts
<1>1. RowsKept(db, db') /\ UNCHANGED <<call, hist>>
    BY DEF Cancel, Respond, RowsKept, Databases
<1>2. pump'.held = pump.held /\ pump'.launched = pump.launched
    BY WakeupsKeepHolds, ScheduleLease DEF Cancel, Respond
<1>3. \A j \in Inputs : TurnKept(j)
    BY NoneIsNoRun DEF Cancel, Respond, Stopped, TurnKept, Turns
<1>4. \A j \in Inputs : StandingKept(j)
    BY <1>1, <1>2, <1>3 DEF StandingKept, RowsKept, Promoting
<1> QED
    BY <1>1, <1>4, StandingByKeeping DEF ClaimInvariant, Standing, SteerCallKept

\* The next process owns nothing, claims nothing and holds what it found waiting.
LEMMA CrashStanding ==
    ASSUME OwnershipInvariant, ClaimInvariant, NEW d \in Databases, RowsKept(db, d), CrashWith(d)
    PROVE  ClaimInvariant'
<1> USE AdmissionFacts
<1>1. /\ db' = Recover(d) /\ hist' = hist /\ call' = NoCall
      /\ pump' = RestedPump(HeldByRestart(d)) /\ turn' = [r \in Runs |-> NoTurn]
    BY DEF CrashWith
<1>2. pump'.held = HeldByRestart(d) /\ pump'.launched = None /\ call'.lane = "free"
    BY <1>1 DEF RestedPump, NoCall
<1>3. \A j \in Inputs : turn'[j] = NoTurn
    BY <1>1
<1>4. ASSUME NEW i \in Inputs PROVE Standing(i)'
  <2>1. /\ db'.mode[i] = db.mode[i] /\ db'.state[i] # "claimed"
        /\ db'.state[i] \in {"none", "pending", "consumed", db.state[i]}
        /\ db.state[i] = "none" => db'.state[i] = "none"
        /\ db'.mode[i] = "queue" /\ db'.state[i] \in {"pending", "blocked"} => i \in pump'.held
      BY <1>1, <1>2, RecoverRows DEF RowsKept
  <2>2. i \in pump'.held => db.mode[i] = "queue" /\ db.state[i] # "none"
      BY <1>2 DEF HeldByRestart, QueueRows, ActiveStates, WaitingStates, RowsKept
  <2>3. ClaimStanding(i)'
      BY <1>1, <1>2, <1>3, <2>1, <2>2
      DEF ClaimStanding, NoTurn, Promoting, Unsubmitted, Running, PreStream, InStream
  <2>4. ReplayStanding(i)'
      BY <2>1, <2>2 DEF ReplayStanding, QueueRows
  <2> QED
      BY <2>3, <2>4 DEF Standing
<1> QED
    BY <1>1, <1>2, <1>4 DEF ClaimInvariant, Standing, SteerCallKept

LEMMA ClaimStep ==
    ASSUME OwnershipInvariant, OwnershipInvariant', ClaimInvariant, [Next]_vars
    PROVE  ClaimInvariant'
<1> USE AdmissionFacts
<1>1. TypeOK'
    BY DEF OwnershipInvariant
<1>2. CASE UNCHANGED vars
  <2>1. \A j \in Inputs : StandingKept(j)
      BY <1>2 DEF vars, StandingKept, TurnKept, Promoting
  <2> QED
      BY <1>2, <2>1, StandingByKeeping DEF vars, ClaimInvariant, Standing, SteerCallKept
<1>3. CASE Restart
    BY <1>3, CrashStanding DEF Restart, RowsKept
<1>4. ASSUME NEW r \in Runs, RestartMidRollback(r) PROVE ClaimInvariant'
  <2>1. r \in Inputs
      BY <1>4, LaunchedRuns DEF RestartMidRollback, Undone, Unsettled
  <2> QED
      BY <1>4, <2>1, CrashStanding, RollbackType, MessagesRows DEF RestartMidRollback
<1> QED
    BY <1>1, <1>2, <1>3, <1>4, AdmissionStanding, DrainStanding, NextIfReadyStanding, TurnStepStanding,
       FinalizeStanding, SignalStanding
    DEF Next

LEMMA ClaimInit == Init => ClaimInvariant
BY NoneIsNoRun
DEF Init, EmptyDatabase, RestedPump, NoTurn, NoCall, ClaimInvariant, ClaimStanding, ReplayStanding,
    Unsubmitted, Promoting, SteerCallKept, Running, PreStream, InStream

\* For any number of submissions, claims, fences and holds agree in every state.
THEOREM ClaimsHold == Spec => []ClaimInvariant
<1>1. Init => ClaimInvariant
    BY ClaimInit
<1>2. OwnershipInvariant /\ OwnershipInvariant' /\ ClaimInvariant /\ [Next]_vars => ClaimInvariant'
    BY ClaimStep
<1> QED
    BY <1>1, <1>2, OwnershipHolds, PTL DEF Spec

\* Whatever the user does meanwhile, a claim the turn has not settled stays a claimed
\* row, and a run that goes on after settling its claim has no row left.
THEOREM FenceAndRowAgree == Spec => []FenceMatchesRow
<1>1. ClaimInvariant => FenceMatchesRow
    BY DEF ClaimInvariant, ClaimStanding, FenceMatchesRow
<1> QED
    BY <1>1, ClaimsHold, PTL

\* A claimed row has an owner: the launched turn that has not settled it, or the
\* promotion that prepares it.
THEOREM EveryClaimHasAnOwner == Spec => []ClaimsAccounted
<1>1. ClaimInvariant => ClaimsAccounted
    BY DEF ClaimInvariant, ClaimStanding, ClaimsAccounted, Promoting
<1> QED
    BY <1>1, ClaimsHold, PTL

\* An input the provider may have seen never waits where the pump would start it by
\* itself, over blocks, promotions, provider errors and crashes.
THEOREM NothingReplayed == Spec => []NoSilentReplay
<1>1. ClaimInvariant => NoSilentReplay
    BY DEF ClaimInvariant, ReplayStanding, NoSilentReplay, QueueRows
<1> QED
    BY <1>1, ClaimsHold, PTL

-----------------------------------------------------------------------------
(* The order of the queue, one lemma per transaction that touches it. *)

DenseOrder(d) == {d.order[i] : i \in QueueRows(d)} = 1 .. Cardinality(QueueRows(d))

\* No two queue rows share a place.
Ordered(d) == \A i, j \in QueueRows(d) : d.order[i] = d.order[j] => i = j

\* The queue is made of the same rows in the same places.
QueueKept(d, e) ==
    /\ QueueRows(e) = QueueRows(d)
    /\ \A i \in QueueRows(d) : e.order[i] = d.order[i]

LEMMA QueueRowsAreFinite ==
    ASSUME NEW d
    PROVE  IsFiniteSet(QueueRows(d)) /\ Cardinality(QueueRows(d)) \in Nat
BY QueueRowsAreInputs, InputSetsAreFinite

LEMMA DenseByKeeping ==
    ASSUME NEW d, NEW e, DenseOrder(d), QueueKept(d, e)
    PROVE  DenseOrder(e)
<1>1. {e.order[i] : i \in QueueRows(e)} = {d.order[i] : i \in QueueRows(d)}
    BY DEF QueueKept
<1> QED
    BY <1>1 DEF DenseOrder, QueueKept

\* n rows in the n places 1..n: each place is taken once.
LEMMA DenseIsOrdered ==
    ASSUME NEW d \in Databases, DenseOrder(d)
    PROVE  Ordered(d)
<1> DEFINE Q == QueueRows(d)
           n == Cardinality(Q)
           place == [i \in Q |-> d.order[i]]
<1>1. IsFiniteSet(Q) /\ n \in Nat
    BY QueueRowsAreFinite
<1>2. Cardinality(1 .. n) = n
    BY <1>1, FS_Interval
<1>3. place \in Surjection(Q, 1 .. n)
    BY DEF DenseOrder, Surjection
<1> HIDE DEF n
<1>4. place \in Injection(Q, 1 .. n)
    BY <1>1, <1>2, <1>3, FS_SurjSameCardinalityImpliesInj DEF n
<1> QED
    BY <1>4 DEF Injection, IsInjective, Ordered

\* Numbering the rows of an ordered queue leaves no gap, whatever gaps it had.
LEMMA ResequenceIsDense ==
    ASSUME NEW d \in Databases, Ordered(d)
    PROVE  DenseOrder(Resequence(d))
<1> DEFINE Q == QueueRows(d)
           n == Cardinality(Q)
           ahead(i) == {j \in Q : d.order[j] <= d.order[i]}
           place == [i \in Q |-> Cardinality(ahead(i))]
<1>1. IsFiniteSet(Q) /\ n \in Nat /\ Q \in SUBSET Inputs
    BY QueueRowsAreFinite, QueueRowsAreInputs
<1>2. \A i \in Q : d.order[i] \in Nat
    BY <1>1 DEF Databases
<1>3. \A i \in Q : IsFiniteSet(ahead(i)) /\ Cardinality(ahead(i)) \in 1 .. n
  <2> TAKE i \in Q
  <2>1. ahead(i) \in SUBSET Q /\ i \in ahead(i)
      BY <1>2
  <2>2. IsFiniteSet(ahead(i)) /\ Cardinality(ahead(i)) <= n
      BY <1>1, <2>1, FS_Subset
  <2>3. Cardinality(ahead(i)) \in Nat /\ Cardinality(ahead(i)) # 0
      BY <2>1, <2>2, FS_CardinalityType, FS_EmptySet
  <2> QED
      BY <1>1, <2>2, <2>3
<1>4. \A i, j \in Q : d.order[i] < d.order[j] => Cardinality(ahead(i)) # Cardinality(ahead(j))
  <2> SUFFICES ASSUME NEW i \in Q, NEW j \in Q, d.order[i] < d.order[j]
               PROVE  Cardinality(ahead(i)) # Cardinality(ahead(j))
      OBVIOUS
  <2>1. ahead(i) \in SUBSET ahead(j) /\ j \in ahead(j) /\ j \notin ahead(i)
      BY <1>2
  <2> HIDE DEF ahead
  <2> QED
      BY <1>3, <2>1, FS_Subset
<1>5. \A i, j \in Q : Cardinality(ahead(i)) = Cardinality(ahead(j)) => i = j
  <2> SUFFICES ASSUME NEW i \in Q, NEW j \in Q, Cardinality(ahead(i)) = Cardinality(ahead(j))
               PROVE  i = j
      OBVIOUS
  <2>1. d.order[i] = d.order[j]
    <3> HIDE DEF ahead
    <3> QED
        BY <1>2, <1>4
  <2> QED
      BY <2>1 DEF Ordered
<1>6. place \in Injection(Q, 1 .. n)
  <2> HIDE DEF ahead
  <2> QED
      BY <1>3, <1>5 DEF Injection, IsInjective
<1>7. Cardinality(1 .. n) = n /\ IsFiniteSet(1 .. n)
    BY <1>1, FS_Interval
<1>8. place \in Surjection(Q, 1 .. n)
  <2> HIDE DEF place, n
  <2> QED
      BY <1>6, <1>7, FS_Injection DEF n
<1>9. {place[i] : i \in Q} = 1 .. n
  <2> HIDE DEF place, n
  <2> QED
      BY <1>8 DEF Surjection
<1> DEFINE e == Resequence(d)
<1>10. QueueRows(e) = Q /\ \A i \in Q : e.order[i] = place[i]
  <2>1. e.mode = d.mode /\ e.state = d.state
      BY DEF Resequence, Databases
  <2>2. e.order = [i \in Inputs |-> IF i \in Q THEN Cardinality(ahead(i)) ELSE 0]
      BY DEF Resequence, Databases
  <2>3. QueueRows(e) = Q
      BY <2>1 DEF QueueRows
  <2> HIDE DEF ahead, Q, e
  <2> QED
      BY <1>1, <2>2, <2>3
<1> HIDE DEF e, place, Q, n
<1>11. {e.order[i] : i \in QueueRows(e)} = {place[i] : i \in Q}
    BY <1>10
<1> QED
    BY <1>9, <1>10, <1>11 DEF DenseOrder, e, n

\* Rows that leave the queue leave the others in their order.
LEMMA FewerAreOrdered ==
    ASSUME NEW d, NEW e, Ordered(d), QueueRows(e) \subseteq QueueRows(d),
           \A i \in QueueRows(e) : e.order[i] = d.order[i]
    PROVE  Ordered(e)
BY DEF Ordered

LEMMA EnqueueIsDense ==
    ASSUME NEW d \in Databases, DenseOrder(d), NEW u \in Inputs, u \notin QueueRows(d),
           NEW s \in ActiveStates
    PROVE  DenseOrder(Enqueue(d, u, s))
<1> DEFINE e == Enqueue(d, u, s)
           Q == QueueRows(d)
           n == Cardinality(Q)
<1>1. IsFiniteSet(Q) /\ n \in Nat
    BY QueueRowsAreFinite
<1>2. e.mode = [d.mode EXCEPT ![u] = "queue"] /\ e.state = [d.state EXCEPT ![u] = s]
      /\ e.order = [d.order EXCEPT ![u] = n + 1]
    BY DEF Enqueue, Databases
<1>3. QueueRows(e) = Q \cup {u}
  <2> HIDE DEF e
  <2> QED
      BY <1>2 DEF QueueRows, Databases
<1>4. Cardinality(Q \cup {u}) = n + 1
    BY <1>1, FS_AddElement
<1>5. e.order[u] = n + 1 /\ \A i \in Q : e.order[i] = d.order[i]
  <2> HIDE DEF e, n
  <2> QED
      BY <1>2 DEF QueueRows, Databases
<1> HIDE DEF e, Q, n
<1>6. {e.order[i] : i \in Q \cup {u}} = {d.order[i] : i \in Q} \cup {n + 1}
    BY <1>5
<1>7. {d.order[i] : i \in Q} = 1 .. n
    BY DEF DenseOrder, Q, n
<1>8. (1 .. n) \cup {n + 1} = 1 .. n + 1
    BY <1>1
<1> QED
    BY <1>3, <1>4, <1>6, <1>7, <1>8 DEF DenseOrder, e

\* A move permutes the waiting rows among the places they hold.
LEMMA MovesAreDense ==
    ASSUME NEW d \in Databases, DenseOrder(d), NEW i, NEW j, NEW e \in Moves(d, i, j)
    PROVE  DenseOrder(e)
<1> DEFINE W == WaitingQueue(d)
           Q == QueueRows(d)
           Slots == {d.order[w] : w \in W}
<1>1. W \subseteq Q /\ Q \subseteq Inputs
    BY DEF WaitingQueue, QueueRows
<1>2. PICK o \in [W -> Slots] :
          /\ e = [d EXCEPT !.order = [k \in Inputs |-> IF k \in W THEN o[k] ELSE d.order[k]]]
          /\ {o[w] : w \in W} = Slots
    BY DEF Moves
<1>3. RowsKept(d, e)
    BY MovesRows
<1>4. QueueRows(e) = Q
    BY <1>3 DEF QueueRows, RowsKept
<1>5. e.order = [k \in Inputs |-> IF k \in W THEN o[k] ELSE d.order[k]]
    BY <1>2 DEF Databases
<1> HIDE DEF W, Q
<1>6. \A k \in W : e.order[k] = o[k]
    BY <1>1, <1>5
<1>7. \A k \in Q \ W : e.order[k] = d.order[k]
    BY <1>1, <1>5
<1>8. {e.order[k] : k \in Q} = {e.order[k] : k \in W} \cup {e.order[k] : k \in Q \ W}
    BY <1>1
<1>9. {d.order[k] : k \in Q} = {d.order[k] : k \in W} \cup {d.order[k] : k \in Q \ W}
    BY <1>1
<1>10. {e.order[k] : k \in W} = Slots
    BY <1>2, <1>6
<1>11. {e.order[k] : k \in Q \ W} = {d.order[k] : k \in Q \ W}
    BY <1>7
<1>12. {e.order[k] : k \in Q} = {d.order[k] : k \in Q}
    BY <1>8, <1>9, <1>10, <1>11
<1> QED
    BY <1>4, <1>12 DEF DenseOrder, Q

LEMMA DeleteRowIsDense ==
    ASSUME NEW d \in Databases, DenseOrder(d), NEW i \in Inputs
    PROVE  DenseOrder(DeleteRow(d, i))
<1> DEFINE w == [d EXCEPT !.state[i] = "none", !.msgs[i] = {}]
<1>1. w \in Databases /\ w.order = d.order /\ w.mode = d.mode
      /\ w.state = [d.state EXCEPT ![i] = "none"]
    BY DEF Databases, RowStates
<1> HIDE DEF w
<1>2. QueueRows(w) \subseteq QueueRows(d)
    BY <1>1 DEF QueueRows, Databases, ActiveStates, WaitingStates
<1>3. Ordered(w)
    BY <1>1, <1>2, DenseIsOrdered, FewerAreOrdered
<1> QED
    BY <1>1, <1>3, ResequenceIsDense DEF DeleteRow, w

LEMMA PromoteIsDense ==
    ASSUME NEW d \in Databases, DenseOrder(d), NEW i \in Inputs
    PROVE  DenseOrder(Promote(d, i))
<1> DEFINE v == WriteUserMessage(d, i, "pending", "unread")
           w == [v EXCEPT !.mode[i] = "steer", !.msgs[i] = d.msgs[i] \cup {i}]
<1>1. v \in Databases /\ v.order = d.order /\ v.mode = d.mode /\ v.state = d.state
  <2>1. v \in Databases
      BY WriteUserMessageType DEF MessageStates, Receipts
  <2> QED
      BY <2>1 DEF WriteUserMessage, Databases
<1>2. d.msgs[i] \cup {i} \in SUBSET Inputs
    BY DEF Databases
<1> HIDE DEF v
<1>3. w \in Databases /\ w.order = d.order /\ w.mode = [d.mode EXCEPT ![i] = "steer"]
      /\ w.state = d.state
    BY <1>1, <1>2 DEF Databases
<1>4. Promote(d, i) = Resequence(w)
    BY DEF Promote, v
<1> HIDE DEF w
<1>5. QueueRows(w) \subseteq QueueRows(d)
    BY <1>3 DEF QueueRows, Databases
<1>6. Ordered(w)
    BY <1>3, <1>5, DenseIsOrdered, FewerAreOrdered
<1> QED
    BY <1>3, <1>4, <1>6, ResequenceIsDense

LEMMA MessagesKeepQueue ==
    ASSUME NEW d \in Databases
    PROVE  /\ \A i, s, r : QueueKept(d, WriteUserMessage(d, i, s, r))
           /\ \A i : QueueKept(d, WriteAssistant(d, i)) /\ QueueKept(d, DeleteAssistant(d, i))
           /\ \A i, s : QueueKept(d, SetAssistant(d, i, s)) /\ QueueKept(d, SetMessages(d, i, s))
           /\ \A i : QueueKept(d, AppendUserFact(d, i)) /\ QueueKept(d, Rollback(d, i))
           /\ QueueKept(d, Materialize(d))
<1>1. ASSUME NEW e, RowsKept(d, e), e.order = d.order PROVE QueueKept(d, e)
    BY <1>1 DEF QueueKept, QueueRows, RowsKept
<1>2. ASSUME NEW i, NEW s, NEW r
      PROVE  /\ RowsKept(d, WriteUserMessage(d, i, s, r)) /\ RowsKept(d, WriteAssistant(d, i))
             /\ RowsKept(d, SetAssistant(d, i, s)) /\ RowsKept(d, DeleteAssistant(d, i))
             /\ RowsKept(d, AppendUserFact(d, i)) /\ RowsKept(d, SetMessages(d, i, s))
             /\ RowsKept(d, Rollback(d, i))
    BY DEF RowsKept, WriteUserMessage, WriteAssistant, SetAssistant, DeleteAssistant,
           AppendUserFact, SetMessages, Rollback, Databases
<1>3. ASSUME NEW i, NEW s, NEW r
      PROVE  /\ WriteUserMessage(d, i, s, r).order = d.order
             /\ WriteAssistant(d, i).order = d.order
             /\ SetAssistant(d, i, s).order = d.order
             /\ DeleteAssistant(d, i).order = d.order
             /\ AppendUserFact(d, i).order = d.order
             /\ SetMessages(d, i, s).order = d.order
             /\ Rollback(d, i).order = d.order
    BY DEF WriteUserMessage, WriteAssistant, SetAssistant, DeleteAssistant, SetMessages, Rollback,
           AppendUserFact, Databases
<1>4. Materialize(d) = d \/ \E c : Materialize(d) = AppendUserFact(d, c)
    BY DEF Materialize
<1>5. RowsKept(d, Materialize(d)) /\ Materialize(d).order = d.order
    BY <1>2, <1>3, <1>4 DEF RowsKept
<1> QED
    BY <1>1, <1>2, <1>3, <1>5

\* A row that stays active, or a steer row, moves nothing.
LEMMA StateKeepsQueue ==
    ASSUME NEW d \in Databases, NEW i \in Inputs, NEW s,
           (d.state[i] \in ActiveStates /\ s \in ActiveStates) \/ d.mode[i] = "steer"
    PROVE  QueueKept(d, SetState(d, i, s)) /\ QueueKept(d, Release(d, i, s))
BY DEF QueueKept, QueueRows, SetState, Release, Databases

LEMMA AcceptSteerKeepsQueue ==
    ASSUME NEW d \in Databases, NEW u \in Inputs, NEW open, d.state[u] = "none"
    PROVE  QueueKept(d, AcceptSteer(d, u, open))
<1> DEFINE e == AcceptSteer(d, u, open)
<1>1. \A k \in Inputs \ {u} : /\ e.mode[k] = d.mode[k] /\ e.state[k] = d.state[k]
                              /\ e.order[k] = d.order[k]
    BY DEF AcceptSteer, WriteUserMessage, Databases
<1>2. e.state[u] = d.state[u] \/ e.mode[u] = "steer"
    BY DEF AcceptSteer, WriteUserMessage, Databases
<1> HIDE DEF e
<1>3. u \notin QueueRows(d) /\ u \notin QueueRows(e)
    BY <1>2 DEF QueueRows, ActiveStates, WaitingStates
<1>4. QueueRows(e) = QueueRows(d)
    BY <1>1, <1>3 DEF QueueRows
<1>5. \A k \in QueueRows(d) : e.order[k] = d.order[k]
    BY <1>1, <1>3 DEF QueueRows
<1> QED
    BY <1>4, <1>5 DEF QueueKept, e

LEMMA ClaimKeepsQueue ==
    ASSUME NEW d \in Databases, NEW i \in Inputs, d.state[i] = "pending"
    PROVE  QueueKept(d, Claim(d, i))
<1>1. CASE d.mode[i] # "steer"
    BY <1>1, StateKeepsQueue DEF Claim, ActiveStates, WaitingStates
<1>2. CASE d.mode[i] = "steer"
    BY <1>2 DEF Claim, ClaimSteer, WriteAssistant, QueueKept, QueueRows, Databases
<1> QED
    BY <1>1, <1>2

LEMMA ConsumeIsDense ==
    ASSUME NEW d \in Databases, DenseOrder(d), NEW i \in Inputs
    PROVE  DenseOrder(Consume(d, i))
<1>1. CASE d.mode[i] = "steer"
  <2> DEFINE w == SetMessages(d, d.msgs[i], "sent")
  <2>1. w \in Databases /\ QueueKept(d, w) /\ w.mode = d.mode
    <3>1. w \in Databases
        BY SetMessagesType DEF MessageStates
    <3>2. w.mode = d.mode
        BY DEF SetMessages, Databases
    <3> QED
        BY <3>1, <3>2, MessagesKeepQueue
  <2>2. Consume(d, i) = SetState(w, i, "consumed")
      BY <1>1 DEF Consume
  <2> HIDE DEF w
  <2> QED
      BY <1>1, <2>1, <2>2, StateKeepsQueue, DenseByKeeping
<1>2. CASE d.mode[i] # "steer"
    BY <1>2, DeleteRowIsDense DEF Consume
<1> QED
    BY <1>1, <1>2

\* A recovery rewrites the rows and then numbers what is left of the queue.
LEMMA RecoverSplit ==
    ASSUME NEW d \in Databases
    PROVE  \E e \in Databases : /\ Recover(d) = Resequence(e) /\ e.order = d.order
                              /\ e.mode = Recover(d).mode /\ e.state = Recover(d).state
<1> DEFINE Answered == {i \in QueueRows(d) : d.state[i] = "claimed" /\ HasFact(d, i)}
           Unanswered == {i \in QueueRows(d) : d.state[i] = "claimed" /\ ~HasFact(d, i)}
           Settled == SteerRows(d, "claimed")
           Failed == SteerRows(d, "pending")
           linked(S) == UNION {d.msgs[i] : i \in S}
           state == [i \in Inputs |->
                        CASE i \in Answered -> "none"
                          [] i \in Unanswered -> "pending"
                          [] i \in Settled \cup Failed -> "consumed"
                          [] OTHER -> d.state[i]]
           msgs == [i \in Inputs |-> IF i \in Answered \cup Unanswered THEN {} ELSE d.msgs[i]]
           status == [u \in Inputs |->
                        IF u \in linked(Settled) THEN "sent"
                        ELSE IF u \in linked(Failed) THEN "error" ELSE d.status[u]]
           astatus == [i \in Inputs |-> IF d.astatus[i] = "pending" THEN "error" ELSE d.astatus[i]]
<1>1. state \in [Inputs -> RowStates]
  <2>1. d.state \in [Inputs -> RowStates]
      BY DEF Databases
  <2> HIDE DEF Answered, Unanswered, Settled, Failed
  <2> QED
      BY <2>1 DEF RowStates
<1>2. msgs \in [Inputs -> SUBSET Inputs]
    BY DEF Databases
<1>3. status \in [Inputs -> MessageStates]
  <2>1. d.status \in [Inputs -> MessageStates]
      BY DEF Databases
  <2> HIDE DEF linked, Settled, Failed
  <2> QED
      BY <2>1 DEF MessageStates
<1>4. astatus \in [Inputs -> AssistantStates]
    BY DEF Databases, AssistantStates
<1> DEFINE e == [d EXCEPT !.state = state, !.msgs = msgs, !.status = status, !.astatus = astatus]
<1>5. Recover(d) = Resequence(e)
    BY DEF Recover
<1> HIDE DEF state, msgs, status, astatus
<1>6. e \in Databases /\ e.order = d.order
    BY <1>1, <1>2, <1>3, <1>4 DEF Databases
<1> HIDE DEF e
<1>7. e.mode = Recover(d).mode /\ e.state = Recover(d).state
    BY <1>5, <1>6, ResequenceRows DEF RowsKept
<1> QED
    BY <1>5, <1>6, <1>7

LEMMA RecoverIsDense ==
    ASSUME NEW d \in Databases, DenseOrder(d)
    PROVE  DenseOrder(Recover(d))
<1>1. PICK e \in Databases : /\ Recover(d) = Resequence(e) /\ e.order = d.order
                             /\ e.mode = Recover(d).mode /\ e.state = Recover(d).state
    BY RecoverSplit
<1>2. ASSUME NEW i \in QueueRows(e) PROVE i \in QueueRows(d)
  <2>1. i \in Inputs /\ d.mode[i] = "queue" /\ e.state[i] \in ActiveStates \ {"claimed"}
        /\ e.state[i] \in {"none", "pending", "consumed", d.state[i]}
        /\ (e.state[i] \in {"pending", "blocked"} => i \in HeldByRestart(d))
      BY <1>1, RecoverRows DEF QueueRows
  <2>2. HeldByRestart(d) \subseteq QueueRows(d)
      BY DEF HeldByRestart
  <2> QED
      BY <2>1, <2>2 DEF QueueRows, ActiveStates, WaitingStates
<1>3. Ordered(e)
    BY <1>1, <1>2, DenseIsOrdered, FewerAreOrdered
<1> QED
    BY <1>1, <1>3, ResequenceIsDense

-----------------------------------------------------------------------------
(* Each step keeps the order. *)

LEMMA LaunchIsDense ==
    ASSUME NEW d \in Databases, DenseOrder(d), NEW i \in Inputs, d.state[i] \in ActiveStates,
           NEW source, Launch(d, i, source)
    PROVE  DenseOrder(db')
<1>1. SetAssistant(d, i, "error") \in Databases /\ QueueKept(d, SetAssistant(d, i, "error"))
    BY SetAssistantType, MessagesKeepQueue DEF AssistantStates
<1>2. DenseOrder(Consume(SetAssistant(d, i, "error"), i))
    BY <1>1, DenseByKeeping, ConsumeIsDense
<1>3. DenseOrder(Release(d, i, "retry_required"))
    BY StateKeepsQueue, DenseByKeeping DEF ActiveStates, WaitingStates
<1> QED
    BY <1>2, <1>3 DEF Launch

LEMMA AcceptSteerIsDense ==
    ASSUME OwnershipInvariant, ClaimInvariant, DenseOrder(db), NEW u \in Inputs, NEW seen,
           u = hist.submitted + 1, AcceptVisibleSteer(u, seen)
    PROVE  DenseOrder(db')
<1> USE AdmissionFacts
<1>1. db.state[u] = "none"
    BY FreshRow DEF Unsubmitted
<1>2. PICK d \in {db, Materialize(db)} : db' = AcceptSteer(d, u, inst.openSteer)
    BY DEF AcceptVisibleSteer
<1>3. d \in Databases /\ DenseOrder(d) /\ d.state = db.state
    BY <1>2, MaterializeType, MaterializeRows, MessagesKeepQueue, DenseByKeeping DEF RowsKept
<1> QED
    BY <1>1, <1>2, <1>3, AcceptSteerKeepsQueue, DenseByKeeping

LEMMA PromotionIsDense ==
    ASSUME OwnershipInvariant, ClaimInvariant, DenseOrder(db), PromoteFinish
    PROVE  DenseOrder(db')
<1> USE AdmissionFacts
<1>1. PICK i \in Inputs : i = call.item
    BY DEF PromoteFinish, OwnershipInvariant, LaneKnowsItem
<1>2. db.state[i] = "claimed"
    BY <1>1 DEF PromoteFinish, ClaimStanding, Promoting
<1> DEFINE back == Release(db, i, "pending")
<1>3. back \in Databases /\ DenseOrder(back)
    BY <1>2, ReleaseType, StateKeepsQueue, DenseByKeeping DEF RowStates, ActiveStates, WaitingStates
<1>4. PICK d \in {back, Materialize(back)} : db' = Promote(d, i)
    BY <1>1 DEF PromoteFinish
<1> HIDE DEF back
<1>5. d \in Databases /\ DenseOrder(d)
    BY <1>3, <1>4, MaterializeType, MessagesKeepQueue, DenseByKeeping
<1> QED
    BY <1>4, <1>5, PromoteIsDense

LEMMA AdmissionIsDense ==
    ASSUME OwnershipInvariant, ClaimInvariant, DenseOrder(db), Admission
    PROVE  DenseOrder(db')
<1> USE AdmissionFacts
<1>1. ASSUME NEW u \in Inputs, NEW src, Queue(u, src) PROVE DenseOrder(db')
  <2>1. u = hist.submitted + 1
      BY <1>1 DEF Queue
  <2>2. db.state[u] = "none" /\ u \notin QueueRows(db)
      BY <2>1, FreshRow DEF Unsubmitted, QueueRows, ActiveStates, WaitingStates
  <2>3. \A s \in {"claimed", "pending"} : DenseOrder(Enqueue(db, u, s))
      BY <2>2, EnqueueIsDense DEF ActiveStates, WaitingStates
  <2>4. Enqueue(db, u, "claimed") \in Databases /\ Enqueue(db, u, "claimed").state[u] = "claimed"
    <3>1. Enqueue(db, u, "claimed") \in Databases
        BY EnqueueType DEF RowStates
    <3> QED
        BY <3>1 DEF Enqueue, Databases
  <2> QED
      BY <1>1, <2>3, <2>4, LaunchIsDense DEF Queue, ActiveStates
<1>2. ASSUME NEW u \in Inputs, SteerText(u) PROVE DenseOrder(db')
    BY <1>2, AcceptSteerIsDense DEF SteerText
<1>3. ASSUME SteerAccept PROVE DenseOrder(db')
  <2>1. PICK u \in Inputs : u = call.item
      BY <1>3 DEF SteerAccept, OwnershipInvariant, LaneKnowsItem
  <2>2. u = hist.submitted + 1 /\ AcceptVisibleSteer(u, call.seen)
      BY <1>3, <2>1 DEF SteerAccept, ClaimInvariant, SteerCallKept
  <2> QED
      BY <2>2, AcceptSteerIsDense
<1>4. ASSUME (\E u \in Inputs : SteerPrepare(u)) \/ SteerDrop \/ (\E i \in Inputs : ResumeQueue(i))
      PROVE  DenseOrder(db')
    BY <1>4 DEF SteerPrepare, SteerDrop, ResumeQueue
<1>5. ASSUME NEW i \in Inputs, NEW s \in WaitingStates \cup {"claimed"}, db.state[i] \in ActiveStates,
             db' = SetState(db, i, s) \/ db' = Release(db, i, s)
      PROVE  DenseOrder(db')
    BY <1>5, StateKeepsQueue, DenseByKeeping DEF ActiveStates
<1>6. ASSUME NEW i \in Inputs, PromoteClaim(i) \/ Update(i) \/ ResolveBlocked(i) \/ Retry(i)
      PROVE  DenseOrder(db')
  <2>1. db.state[i] \in ActiveStates
      BY <1>6 DEF PromoteClaim, Update, ResolveBlocked, Retry, WaitingQueue, WaitingStates, ActiveStates
  <2>2. PICK s \in WaitingStates \cup {"claimed"} : db' = SetState(db, i, s)
      BY <1>6 DEF PromoteClaim, Update, ResolveBlocked, Retry, WaitingStates
  <2> QED
      BY <1>5, <2>1, <2>2
<1>7. ASSUME PromoteBlock \/ PromoteFail PROVE DenseOrder(db')
  <2>1. PICK i \in Inputs : i = call.item
      BY <1>7 DEF PromoteBlock, PromoteFail, OwnershipInvariant, LaneKnowsItem
  <2>2. db.state[i] \in ActiveStates
      BY <1>7, <2>1 DEF PromoteBlock, PromoteFail, ClaimStanding, Promoting, ActiveStates
  <2>3. db' = SetState(db, i, "blocked") \/ db' = Release(db, i, "retry_required")
      BY <1>7, <2>1 DEF PromoteBlock, PromoteFail
  <2> QED
      BY <1>5, <2>2, <2>3 DEF WaitingStates
<1>8. ASSUME NEW i \in Inputs, Delete(i) PROVE DenseOrder(db')
    BY <1>8, DeleteRowIsDense DEF Delete
<1>9. ASSUME NEW i \in Inputs, NEW j \in Inputs, Move(i, j) PROVE DenseOrder(db')
    BY <1>9, MovesAreDense DEF Move
<1> QED
    BY <1>1, <1>2, <1>3, <1>4, <1>6, <1>7, <1>8, <1>9, PromotionIsDense DEF Admission

\* A turn's writes: messages, the row of its own claim, and what a settled claim leaves.
LEMMA TurnStepIsDense ==
    ASSUME OwnershipInvariant, ClaimInvariant, DenseOrder(db), NEW r \in Runs, TurnStep(r)
    PROVE  DenseOrder(db')
<1> USE AdmissionFacts
<1>1. ASSUME Unsettled(r) PROVE r \in Inputs /\ db.state[r] = "claimed"
  <2>1. r \in Inputs /\ turn[r].stage # "none"
      BY <1>1, LaunchedRuns, RunningStage DEF Unsettled, Running, PreStream, InStream
  <2> QED
      BY <1>1, <2>1 DEF Unsettled, ClaimStanding
<1>2. ASSUME turn[r].stage \in {"preparing", "factual"}
      PROVE  r # Resumed /\ r \in Inputs /\ Unsettled(r)
  <2>1. r # Resumed /\ r \in Inputs
      BY <1>2, LaunchedRuns DEF OwnershipInvariant, ResumedSkipsPreparation, InStream
  <2> QED
      BY <1>2, <2>1 DEF Unsettled, ClaimStanding
<1>3. ASSUME NEW d \in Databases, QueueKept(db, d), d.state = db.state, Unsettled(r)
      PROVE  /\ DenseOrder(d) /\ DenseOrder(Consume(d, r))
             /\ DenseOrder(Release(d, r, "retry_required")) /\ DenseOrder(SetState(d, r, "blocked"))
  <2>1. DenseOrder(d) /\ d.state[r] \in ActiveStates /\ r \in Inputs
      BY <1>1, <1>3, DenseByKeeping DEF ActiveStates
  <2> QED
      BY <2>1, <1>3, ConsumeIsDense, StateKeepsQueue, DenseByKeeping DEF ActiveStates, WaitingStates
<1>4. QueueKept(db, db)
    BY DEF QueueKept
<1>5. CASE TurnBlock(r)
    BY <1>2, <1>3, <1>4, <1>5 DEF TurnBlock
<1>6. CASE TurnUserFact(r)
    BY <1>6, MessagesKeepQueue, DenseByKeeping DEF TurnUserFact
<1>7. CASE TurnReserve(r)
  <2>1. WriteAssistant(db, r) \in Databases /\ QueueKept(db, WriteAssistant(db, r))
        /\ WriteAssistant(db, r).state = db.state
      BY WriteAssistantType, MessagesKeepQueue DEF WriteAssistant, Databases
  <2>2. db' \in {db, WriteAssistant(db, r), Consume(WriteAssistant(db, r), r)}
      BY <1>7 DEF TurnReserve
  <2>3. Unsettled(r)
      BY <1>2, <1>7 DEF TurnReserve
  <2> QED
      BY <1>3, <2>1, <2>2, <2>3
<1>8. CASE TurnRegister(r)
    BY <1>8 DEF TurnRegister
<1>9. CASE ProviderStart(r)
  <2>1. db' = db \/ (Unsettled(r) /\ db' = Consume(db, r))
      BY <1>9 DEF ProviderStart
  <2> QED
      BY <1>3, <1>4, <2>1
<1>10. ASSUME NEW result \in Results, StreamEnd(r, result) PROVE DenseOrder(db')
  <2> DEFINE answered == SetAssistant(db, turn[r].answer, AnswerStatus[result])
  <2>0. AnswerStatus[result] \in AssistantStates
      BY DEF Results, AnswerStatus, AssistantStates
  <2>1. answered \in Databases /\ QueueKept(db, answered) /\ answered.state = db.state
    <3>1. answered.state = db.state
        BY DEF SetAssistant, Databases
    <3> QED
        BY <2>0, <3>1, SetAssistantType, MessagesKeepQueue
  <2>2. db' = IF Undone(r, result) THEN Release(Rollback(db, r), r, "retry_required")
              ELSE IF Unsettled(r) THEN Consume(answered, r) ELSE answered
      BY <1>10 DEF StreamEnd
  <2> HIDE DEF answered
  <2>3. CASE Undone(r, result)
    <3>1. Unsettled(r)
        BY <2>3 DEF Undone
    <3>2. Rollback(db, r) \in Databases /\ QueueKept(db, Rollback(db, r))
          /\ Rollback(db, r).state = db.state
        BY <1>1, <3>1, RollbackType, MessagesKeepQueue, MessagesRows DEF RowsKept
    <3> QED
        BY <1>3, <2>2, <2>3, <3>1, <3>2
  <2>4. CASE ~Undone(r, result) /\ Unsettled(r)
      BY <1>3, <2>1, <2>2, <2>4
  <2>5. CASE ~Undone(r, result) /\ ~Unsettled(r)
      BY <2>1, <2>2, <2>5, DenseByKeeping
  <2> QED
      BY <2>3, <2>4, <2>5
<1>11. ASSUME NEW late \in BOOLEAN, AbortedPreStream(r, late) PROVE DenseOrder(db')
  <2> DEFINE t == turn[r]
             handoff == t.signal = "handoff"
             written ==
               CASE late /\ t.stage = "preparing" /\ db.msgs[r] = {} -> AppendUserFact(db, r)
                 [] late /\ t.stage = "factual" /\ t.source # "steer" /\ ~handoff ->
                        WriteAssistant(db, r)
                 [] OTHER -> db
             settled ==
               IF ~Unsettled(r) THEN written
               ELSE IF Exists(written, r) \/ t.source = "steer" THEN Consume(written, r)
               ELSE Release(written, r, "retry_required")
  <2>1. db' = IF r = Resumed THEN SetAssistant(db, t.answer, IF handoff THEN "sent" ELSE "error")
              ELSE IF handoff THEN DeleteAssistant(settled, r)
              ELSE SetAssistant(settled, r, "error")
      BY <1>11 DEF AbortedPreStream
  <2>2. CASE r = Resumed
      BY <2>1, <2>2, MessagesKeepQueue, DenseByKeeping
  <2>3. CASE r # Resumed
    <3>1. r \in Inputs
        BY <2>3, LaunchedRuns
    <3>2. written \in {db, AppendUserFact(db, r), WriteAssistant(db, r)}
        OBVIOUS
    <3>3. \A d \in {db, AppendUserFact(db, r), WriteAssistant(db, r)} :
              d \in Databases /\ QueueKept(db, d) /\ d.state = db.state
      <4>1. /\ AppendUserFact(db, r).state = db.state
            /\ WriteAssistant(db, r).state = db.state
          BY DEF AppendUserFact, WriteUserMessage, WriteAssistant, Databases
      <4> QED
          BY <1>4, <3>1, <4>1, AppendUserFactType, WriteAssistantType, MessagesKeepQueue
    <3> HIDE DEF written
    <3>4. written \in Databases /\ QueueKept(db, written) /\ written.state = db.state
        BY <3>2, <3>3
    <3>5. CASE Unsettled(r)
      <4>1. DenseOrder(Consume(written, r)) /\ DenseOrder(Release(written, r, "retry_required"))
          BY <1>3, <3>4, <3>5
      <4>2. Consume(written, r) \in Databases /\ Release(written, r, "retry_required") \in Databases
          BY <3>4, ConsumeType, ReleaseType DEF RowStates
      <4>3. settled \in Databases /\ DenseOrder(settled)
          BY <3>5, <4>1, <4>2
      <4> HIDE DEF settled
      <4> QED
          BY <2>1, <2>3, <4>3, MessagesKeepQueue, DenseByKeeping
    <3>6. CASE ~Unsettled(r)
      <4>1. settled = written /\ DenseOrder(written)
          BY <3>4, <3>6, DenseByKeeping
      <4> HIDE DEF settled
      <4> QED
          BY <2>1, <2>3, <3>4, <4>1, MessagesKeepQueue, DenseByKeeping
    <3> QED
        BY <3>5, <3>6
  <2> QED
      BY <2>2, <2>3
<1>12. CASE FailedPreStream(r)
  <2> DEFINE t == turn[r]
             shown == SetAssistant(db, t.answer, "error")
             kept == IF t.stage = "preparing" THEN db ELSE Rollback(db, r)
  <2>1. shown \in Databases /\ QueueKept(db, shown) /\ shown.state = db.state
    <3>1. shown.state = db.state
        BY DEF SetAssistant, Databases
    <3>2. shown \in Databases
        BY SetAssistantType DEF AssistantStates
    <3> QED
        BY <3>1, <3>2, MessagesKeepQueue
  <2>2. db' = IF Unsettled(r) /\ t.source # "steer" THEN Release(kept, r, "retry_required")
              ELSE IF Unsettled(r) THEN Consume(shown, r)
              ELSE shown
      BY <1>12 DEF FailedPreStream
  <2>3. Unsettled(r) => kept \in Databases /\ QueueKept(db, kept) /\ kept.state = db.state
      BY <1>1, <1>4, RollbackType, MessagesKeepQueue, MessagesRows DEF RowsKept
  <2> HIDE DEF shown, kept
  <2>4. CASE Unsettled(r)
    <3>1. DenseOrder(Release(kept, r, "retry_required")) /\ DenseOrder(Consume(shown, r))
        BY <1>3, <2>1, <2>3, <2>4
    <3> QED
        BY <2>2, <2>4, <3>1
  <2>5. CASE ~Unsettled(r)
      BY <2>1, <2>2, <2>5, DenseByKeeping
  <2> QED
      BY <2>4, <2>5
<1> QED
    BY <1>5, <1>6, <1>7, <1>8, <1>9, <1>10, <1>11, <1>12 DEF TurnStep

LEMMA QueueOrderStep ==
    ASSUME OwnershipInvariant, ClaimInvariant, DenseOrder(db), [Next]_vars
    PROVE  DenseOrder(db')
<1> USE AdmissionFacts
<1>1. CASE UNCHANGED vars
    BY <1>1 DEF vars
<1>2. ASSUME NEW i \in Inputs, DrainLaunch(i) PROVE DenseOrder(db')
  <2>1. db.state[i] = "pending"
      BY <1>2 DEF DrainLaunch, Drainable, NextInput, NextSteer, NextQueue
  <2>2. Claim(db, i) \in Databases /\ DenseOrder(Claim(db, i)) /\ Claim(db, i).state[i] = "claimed"
      BY <2>1, ClaimType, ClaimKeepsQueue, DenseByKeeping, ClaimRows DEF RowWritten
  <2> QED
      BY <1>2, <2>2, LaunchIsDense DEF DrainLaunch, ActiveStates
<1>3. CASE DrainIdle \/ NextIfReady \/ \E i \in Inputs : Finalize(i)
    BY <1>3 DEF DrainIdle, NextIfReady, Finalize
<1>4. ASSUME NEW e, RowsKept(db, e), e.order = db.order PROVE DenseOrder(e)
    BY <1>4 DEF DenseOrder, QueueRows, RowsKept
<1>5. CASE Cancel \/ \E a \in Inputs : Respond(a)
  <2>1. RowsKept(db, db') /\ db'.order = db.order
      BY <1>5 DEF Cancel, Respond, RowsKept, Databases
  <2> QED
      BY <1>4, <2>1
<1>6. CASE Restart
    BY <1>6, RecoverIsDense DEF Restart, CrashWith
<1>7. ASSUME NEW r \in Runs, RestartMidRollback(r) PROVE DenseOrder(db')
  <2>1. r \in Inputs
      BY <1>7, LaunchedRuns DEF RestartMidRollback, Undone, Unsettled
  <2> QED
      BY <1>7, <2>1, RollbackType, MessagesKeepQueue, DenseByKeeping, RecoverIsDense
      DEF RestartMidRollback, CrashWith
<1> QED
    BY <1>1, <1>2, <1>3, <1>5, <1>6, <1>7, AdmissionIsDense, TurnStepIsDense DEF Next, Drain

LEMMA QueueOrderInit == Init => DenseOrder(db)
<1> SUFFICES ASSUME Init PROVE DenseOrder(db)
    OBVIOUS
<1>1. QueueRows(db) = {}
    BY DEF Init, EmptyDatabase, QueueRows, ActiveStates, WaitingStates
<1>2. Cardinality({}) = 0 /\ 1 .. 0 = {}
    BY FS_EmptySet
<1> QED
    BY <1>1, <1>2 DEF DenseOrder

\* The queue rows of a session hold the places 1..n with none shared or skipped, for any
\* number of submissions: nothing a user, a turn or a recovery does leaves a gap.
THEOREM QueueStaysDense == Spec => []QueueOrderDense
<1>1. QueueOrderDense <=> DenseOrder(db)
    BY DEF QueueOrderDense, DenseOrder
<1>2. Init => DenseOrder(db)
    BY QueueOrderInit
<1>3. OwnershipInvariant /\ ClaimInvariant /\ DenseOrder(db) /\ [Next]_vars => DenseOrder(db)'
    BY QueueOrderStep
<1> QED
    BY <1>1, <1>2, <1>3, OwnershipHolds, ClaimsHold, PTL DEF Spec

-----------------------------------------------------------------------------
(* A row that needs Retry fences the rows behind it. *)

Fence == \A i, j \in Inputs :
            turn[i].stage = "none" /\ turn'[i].stage # "none" /\ turn'[i].source # "steer"
            /\ db.state[j] = "retry_required" => i # j /\ db.order[j] > db'.order[i]

\* A step that launches nothing passes no row by.
NothingLaunched == \A i \in Inputs : turn[i].stage = "none" => turn'[i].stage = "none"

LEMMA LaunchedAlone ==
    ASSUME TypeOK, NEW d, NEW i \in Inputs, NEW source, Launch(d, i, source)
    PROVE  /\ turn'[i].source = source
           /\ \A k \in Inputs \ {i} : turn'[k] = turn[k]
           /\ source # "steer" => db'.order = d.order \/ db' = Release(d, i, "retry_required")
BY NoneIsNoRun DEF Launch, TypeOK

LEMMA SignalsLaunchNothing ==
    ASSUME TypeOK, turn' = turn \/ turn' = HandOff \/ turn' = [r \in Runs |-> NoTurn]
    PROVE  NothingLaunched
BY NoneIsNoRun DEF HandOff, NoTurn, NothingLaunched, TypeOK, Turns

LEMMA StagesLaunchNothing ==
    ASSUME TypeOK, NEW r \in Runs, turn[r].stage # "none", \A k \in Runs \ {r} : turn'[k] = turn[k]
    PROVE  NothingLaunched
BY NoneIsNoRun DEF NothingLaunched

\* A queue row is launched only when no row needs Retry, or from the head of the queue.
LEMMA QueueKeepsFence ==
    ASSUME OwnershipInvariant, ClaimInvariant, NEW u \in Inputs, NEW src, Queue(u, src)
    PROVE  Fence
<1> USE AdmissionFacts
<1>1. CASE Claimable(src) /\ Launch(Enqueue(db, u, "claimed"), u, src)
  <2>1. \A j \in Inputs : db.state[j] # "retry_required"
      BY <1>1 DEF Claimable, HasRetryRequired, QueueRows, ActiveStates, WaitingStates, ClaimStanding
  <2> QED
      BY <2>1 DEF Fence
<1>2. CASE ~Claimable(src)
    BY <1>2 DEF Queue, Fence
<1> QED
    BY <1>1, <1>2 DEF Queue

LEMMA DrainKeepsFence ==
    ASSUME OwnershipInvariant, ClaimInvariant, DenseOrder(db), NEW i \in Inputs, DrainLaunch(i)
    PROVE  Fence
<1> USE AdmissionFacts
<1> DEFINE source == IF db.mode[i] = "steer" THEN "steer" ELSE "queue"
           d == Claim(db, i)
<1>1. /\ turn'[i].source = source
      /\ \A k \in Inputs \ {i} : turn'[k] = turn[k]
      /\ source # "steer" => db'.order = d.order \/ db' = Release(d, i, "retry_required")
    BY LaunchedAlone DEF DrainLaunch
<1> SUFFICES ASSUME NEW j \in Inputs, source # "steer", db.state[j] = "retry_required"
             PROVE  i # j /\ db.order[j] > db'.order[i]
    BY <1>1 DEF Fence
<1>2. db.mode[i] = "queue" /\ d = SetState(db, i, "claimed")
    BY DEF Claim
<1>3. db'.order[i] = db.order[i]
    BY <1>1, <1>2, ZenonT(40) DEF SetState, Release, Databases
<1>4. i \in QueueHead(db) /\ db.state[i] = "pending"
    BY <1>2 DEF DrainLaunch, Drainable, NextInput, NextSteer, WaitingSteer, NextQueue
<1>5. j \in WaitingQueue(db)
    BY DEF ClaimStanding, WaitingQueue, QueueRows, WaitingStates, ActiveStates
<1>6. db.order[i] <= db.order[j] /\ i # j /\ db.order[i] # db.order[j]
    BY <1>4, <1>5, DenseIsOrdered DEF QueueHead, WaitingQueue, Ordered
<1>7. db.order[i] \in Nat /\ db.order[j] \in Nat
    BY DEF Databases
<1> QED
    BY <1>3, <1>6, <1>7

LEMMA FenceStep ==
    ASSUME OwnershipInvariant, ClaimInvariant, DenseOrder(db), [Next]_vars
    PROVE  Fence
<1> USE AdmissionFacts
<1>1. NothingLaunched => Fence
    BY DEF NothingLaunched, Fence
<1>2. ASSUME NEW r \in Runs, TurnStep(r) PROVE NothingLaunched
  <2>1. turn[r].stage # "none"
      BY <1>2, RunningStage DEF Running, PreStream, InStream
  <2>2. \A k \in Runs \ {r} : turn'[k] = turn[k]
      BY <1>2 DEF TurnStep, TurnBlock, TurnUserFact, TurnReserve, TurnRegister, ProviderStart,
                  StreamEnd, AbortedPreStream, FailedPreStream, Ended
  <2> QED
      BY <2>1, <2>2, StagesLaunchNothing
<1>3. ASSUME NEW i \in Inputs, Finalize(i) PROVE NothingLaunched
    BY <1>3, StagesLaunchNothing DEF Finalize
<1>4. CASE Cancel
  <2>1. turn' = turn \/ turn' = Stopped(inst.active) \/ turn' = Stopped(inst.controller)
      BY <1>4 DEF Cancel
  <2>2. \A r : turn' = Stopped(r) => NothingLaunched
      BY NoneIsNoRun DEF Stopped, NothingLaunched, TypeOK, Turns
  <2> QED
      BY <1>1, <2>1, <2>2, SignalsLaunchNothing
<1>5. ASSUME NEW a \in Inputs, Respond(a) PROVE NothingLaunched
    BY <1>5, NoneIsNoRun DEF Respond, NothingLaunched
<1>6. CASE \/ UNCHANGED vars \/ DrainIdle \/ NextIfReady \/ Restart
           \/ \E r \in Runs : RestartMidRollback(r)
  <2>1. turn' = turn \/ turn' = [r \in Runs |-> NoTurn]
      BY <1>6 DEF vars, DrainIdle, NextIfReady, Restart, RestartMidRollback, CrashWith
  <2> QED
      BY <1>1, <2>1, SignalsLaunchNothing
<1>7. CASE Admission
  <2>1. ASSUME turn' = turn \/ turn' = HandOff PROVE Fence
      BY <1>1, <2>1, SignalsLaunchNothing
  <2>2. (turn' = turn \/ turn' = HandOff) \/ \E u \in Inputs : \E src \in {"send", "queue"} : Queue(u, src)
      BY <1>7 DEF Admission, SteerText, SteerPrepare, SteerAccept, SteerDrop, AcceptVisibleSteer,
                  PromoteClaim, PromoteBlock, PromoteFail, PromoteFinish, Update, Delete,
                  ResolveBlocked, Retry, ResumeQueue, Move
  <2> QED
      BY <2>1, <2>2, QueueKeepsFence
<1> QED
    BY <1>1, <1>2, <1>3, <1>4, <1>5, <1>6, <1>7, DrainKeepsFence DEF Next, Drain

\* The pump and the direct admission start no queued input behind a row that needs Retry,
\* for any number of submissions.
THEOREM RetryFencesTheQueue == Spec => RetryFence
<1>1. QueueOrderDense <=> DenseOrder(db)
    BY DEF QueueOrderDense, DenseOrder
<1>2. OwnershipInvariant /\ ClaimInvariant /\ QueueOrderDense /\ [Next]_vars => [Fence]_vars
    BY <1>1, FenceStep
<1>3. RetryFence <=> [][Fence]_vars
    BY DEF RetryFence, Fence
<1> QED
    BY <1>2, <1>3, OwnershipHolds, ClaimsHold, QueueStaysDense, PTL DEF Spec
=============================================================================
