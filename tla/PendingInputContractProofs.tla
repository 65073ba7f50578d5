----------------------- MODULE PendingInputContractProofs -----------------------
(***************************************************************************)
(* The waiting lane implements the contract of the session, for any number *)
(* of submissions and every event: each step of any actor, seen through    *)
(* the phases of the messages it carries, is one step of the contract or   *)
(* none.                                                                   *)
(*                                                                         *)
(* All but a few steps change the phase of one row, and with it of the     *)
(* messages that row carries; what remains of the argument is which phases *)
(* the row leaves and enters (StepOfRow).  The few others submit, promote  *)
(* or delete a message, release the held rows, or are a crash.             *)
(*                                                                         *)
(* The same sorting of the steps gives, while nothing is promoted, that    *)
(* steer messages are answered in order (SteerAnsweredInOrder), and, while *)
(* no row is moved or deleted either, that no wakeup is lost               *)
(* (NothingStranded).                                                      *)
(***************************************************************************)
EXTENDS PendingInputTranscriptProofs

-----------------------------------------------------------------------------
(* Messages, carriers and phases. *)

\* The messages the contract sees in the phase of the row that carries them.
Visible == hist.accepted \ hist.withdrawn
VisibleKept == hist'.accepted = hist.accepted /\ hist'.withdrawn = hist.withdrawn

\* The messages whose phase is that of row i.
CarriedBy(i) == {u \in Inputs \cap Visible : Carrier(u) = i}

CarriersKept == \A u \in Inputs : Carriers(u)' = Carriers(u)

NobodyElseAnswers(i) == \A j \in Inputs \ {i} : ~Answering(j)

LEMMA CarrierIsRow ==
    ASSUME NEW u \in Inputs
    PROVE  /\ Carrier(u) \in Inputs
           /\ Carrier(u) # u => Carries(Carrier(u), u)
           /\ db.mode[Carrier(u)] = "queue" => Carrier(u) = u
<1>1. Carriers(u) # {} => Carrier(u) \in Carriers(u)
    BY DEF Carrier
<1>2. Carriers(u) = {} => Carrier(u) = u
    BY DEF Carrier
<1> QED
    BY <1>1, <1>2 DEF Carriers, Carries

LEMMA CarrierKept ==
    ASSUME NEW u \in Inputs, Carriers(u)' = Carriers(u)
    PROVE  Carrier(u)' = Carrier(u)
BY DEF Carrier

LEMMA PhaseOfVisible ==
    ASSUME NEW u \in Inputs
    PROVE  /\ Phase[u] = PhaseOf(u)
           /\ u \in Visible => Phase[u] = RowPhase(Carrier(u))
           /\ u \notin Visible => Phase[u] \in {"absent", "withdrawn"}
BY DEF Phase, PhaseOf, Visible

LEMMA RowPhases ==
    ASSUME NEW i
    PROVE  /\ RowPhase(i) \in {"running", "waiting", "parked", "answered"}
           /\ RowPhase(i) = "running" <=> Answering(i)
BY DEF RowPhase

\* A message seen running is carried by a row that is being answered.
LEMMA RunningIsCarried ==
    ASSUME NEW i \in Inputs, NobodyElseAnswers(i)
    PROVE  Contract!In("running") \subseteq CarriedBy(i)
<1> SUFFICES ASSUME NEW u \in Inputs, Phase[u] = "running"
             PROVE  u \in CarriedBy(i)
    BY DEF Contract!In
<1>1. u \in Visible /\ Answering(Carrier(u))
    BY PhaseOfVisible, RowPhases
<1> QED
    BY <1>1, CarrierIsRow DEF NobodyElseAnswers, CarriedBy

\* A step that changes the phase of row i alone.
LEMMA StepOfRow ==
    ASSUME NEW i \in Inputs, CarriersKept, VisibleKept,
           \A j \in Inputs \ {i} : RowPhase(j)' = RowPhase(j),
           NEW p, NEW q, p = RowPhase(i), q = RowPhase(i)',
           \/ p = q
           \/ /\ p = "waiting" /\ q \in {"running", "answered", "parked"}
              /\ NobodyElseAnswers(i)
           \/ p = "waiting" /\ q = "parked" /\ db.mode[i] = "queue"
           \/ p = "parked" /\ q = "waiting"
           \/ p = "running" /\ q = "answered" /\ NobodyElseAnswers(i)
           \/ /\ p = "running" /\ q = "parked" /\ NobodyElseAnswers(i)
              /\ db.mode[i] = "queue"
    PROVE  [Contract!Next]_Phase
<1> DEFINE G == CarriedBy(i)
<1>1. Phase' = [u \in Inputs |-> IF u \in G THEN q ELSE Phase[u]]
  <2>1. ASSUME NEW u \in Inputs
        PROVE  PhaseOf(u)' = IF u \in G THEN q ELSE Phase[u]
    <3>1. Carrier(u)' = Carrier(u) /\ Carrier(u) \in Inputs
        BY CarrierKept, CarrierIsRow DEF CarriersKept
    <3>2. RowPhase(Carrier(u))' = IF Carrier(u) = i THEN q ELSE RowPhase(Carrier(u))
      <4>1. PICK c \in Inputs : c = Carrier(u) /\ c = Carrier(u)'
          BY <3>1
      <4>2. RowPhase(c)' = IF c = i THEN q ELSE RowPhase(c)
          OBVIOUS
      <4>3. RowPhase(Carrier(u))' = RowPhase(c)' 
          BY <4>1
      <4> QED
          BY <4>1, <4>2, <4>3
    <3>3. Phase[u] = PhaseOf(u)
        BY PhaseOfVisible
    <3> QED
        BY <3>2, <3>3 DEF PhaseOf, VisibleKept, CarriedBy, Visible
  <2> QED
      BY <2>1 DEF Phase
<1>2. G \subseteq Inputs /\ \A u \in G : Phase[u] = p
    BY PhaseOfVisible DEF CarriedBy
<1>3. CASE p = q \/ G = {}
  <2>1. Phase = [u \in Inputs |-> Phase[u]]
      BY DEF Phase
  <2> QED
      BY <1>1, <1>2, <1>3, <2>1
<1>4. NobodyElseAnswers(i) => Contract!In("running") \subseteq G
    BY RunningIsCarried
<1>5. db.mode[i] = "queue" => G \subseteq {i}
    BY CarrierIsRow DEF CarriedBy
<1>6. Contract!Put(G, q)
    BY <1>1 DEF Contract!Put
<1> HIDE DEF G
<1>7. ASSUME p = "waiting", q \in {"running", "answered", "parked"}, NobodyElseAnswers(i), G # {}
      PROVE  Contract!Start(G)
  <2>1. G \subseteq Contract!In("waiting") /\ Contract!In("running") = {}
      BY <1>2, <1>4, <1>7 DEF Contract!In
  <2> QED
      BY <1>6, <1>7, <2>1 DEF Contract!Start
<1>8. ASSUME p = "waiting", q = "parked", db.mode[i] = "queue", G # {} PROVE Contract!Park(i)
  <2>1. G = {i}
      BY <1>5, <1>8
  <2> QED
      BY <1>2, <1>6, <1>8, <2>1 DEF Contract!Park
<1>9. ASSUME p = "parked", q = "waiting", G # {} PROVE Contract!Approve(G)
    BY <1>2, <1>6, <1>9 DEF Contract!Approve, Contract!In
<1>10. ASSUME p = "running", NobodyElseAnswers(i) PROVE Contract!In("running") = G
    BY <1>2, <1>4, <1>10 DEF Contract!In
<1>11. ASSUME p = "running", q = "answered", NobodyElseAnswers(i), G # {} PROVE Contract!Finish
    BY <1>6, <1>10, <1>11 DEF Contract!Finish
<1>12. ASSUME p = "running", q = "parked", NobodyElseAnswers(i), db.mode[i] = "queue", G # {}
       PROVE  Contract!GiveUp
  <2>1. G = {i}
      BY <1>5, <1>12
  <2> QED
      BY <1>6, <1>10, <1>12, <2>1 DEF Contract!GiveUp
<1> QED
    BY <1>2, <1>3, <1>7, <1>8, <1>9, <1>11, <1>12 DEF Contract!Next

-----------------------------------------------------------------------------
(* What a transaction does to carriers and answers. *)

\* Rows keep their lanes, steer rows their messages, and no row comes or, if it is a
\* steer row, goes.
CarriageKept(d, e) ==
    \A i \in Inputs :
        /\ e.mode[i] = d.mode[i]
        /\ d.state[i] = "none" => e.state[i] = "none"
        /\ d.mode[i] = "steer" =>
              /\ e.msgs[i] = d.msgs[i]
              /\ e.state[i] = "none" <=> d.state[i] = "none"

AnswersKept(d, e) == e.aseq = d.aseq /\ e.astatus = d.astatus

\* The answer of row i, and of no other, is at s with status t.
AnswerWritten(d, e, i, s, t) ==
    \A j \in Inputs : /\ e.aseq[j] = IF j = i THEN s ELSE d.aseq[j]
                      /\ e.astatus[j] = IF j = i THEN t ELSE d.astatus[j]

LEMMA CarriageIsTransitive ==
    ASSUME NEW d, NEW e, NEW f, CarriageKept(d, e), CarriageKept(e, f)
    PROVE  CarriageKept(d, f)
BY DEF CarriageKept

LEMMA CarriageOfItself == ASSUME NEW d PROVE CarriageKept(d, d) /\ AnswersKept(d, d)
BY DEF CarriageKept, AnswersKept

LEMMA RowsKeepCarriage ==
    ASSUME NEW d \in Databases, NEW i \in Inputs, NEW s, d.state[i] # "none", s # "none"
    PROVE  /\ CarriageKept(d, SetState(d, i, s)) /\ AnswersKept(d, SetState(d, i, s))
           /\ d.mode[i] = "queue" => CarriageKept(d, Release(d, i, s))
           /\ AnswersKept(d, Release(d, i, s))
BY DEF CarriageKept, AnswersKept, SetState, Release, Databases

LEMMA ResequenceKeepsCarriage ==
    ASSUME NEW d \in Databases
    PROVE  CarriageKept(d, Resequence(d)) /\ AnswersKept(d, Resequence(d))
BY DEF CarriageKept, AnswersKept, Resequence, Databases

LEMMA DeleteRowKeepsCarriage ==
    ASSUME NEW d \in Databases, NEW i \in Inputs
    PROVE  /\ d.mode[i] = "queue" => CarriageKept(d, DeleteRow(d, i))
           /\ AnswersKept(d, DeleteRow(d, i))
<1> DEFINE w == [d EXCEPT !.state[i] = "none", !.msgs[i] = {}]
<1>1. /\ w \in Databases /\ AnswersKept(d, w)
      /\ d.mode[i] = "queue" => CarriageKept(d, w)
    BY DEF Databases, RowStates, CarriageKept, AnswersKept
<1>2. DeleteRow(d, i) = Resequence(w)
    BY DEF DeleteRow
<1> HIDE DEF w
<1> QED
    BY <1>1, <1>2, ResequenceKeepsCarriage, CarriageIsTransitive DEF AnswersKept

LEMMA MovesKeepCarriage ==
    ASSUME NEW d \in Databases, NEW i, NEW j, NEW e \in Moves(d, i, j)
    PROVE  CarriageKept(d, e) /\ AnswersKept(d, e)
BY DEF CarriageKept, AnswersKept, Moves, Databases

LEMMA MessagesKeepCarriage ==
    ASSUME NEW d \in Databases, NEW i \in Inputs, NEW s, NEW r
    PROVE  /\ CarriageKept(d, WriteUserMessage(d, i, s, r))
           /\ AnswersKept(d, WriteUserMessage(d, i, s, r))
           /\ d.mode[i] = "queue" => CarriageKept(d, AppendUserFact(d, i))
           /\ AnswersKept(d, AppendUserFact(d, i))
           /\ \A S : CarriageKept(d, SetMessages(d, S, s)) /\ AnswersKept(d, SetMessages(d, S, s))
BY DEF CarriageKept, AnswersKept, WriteUserMessage, AppendUserFact, SetMessages, Databases

LEMMA MaterializeKeepsCarriage ==
    ASSUME NEW d \in Databases
    PROVE  CarriageKept(d, Materialize(d)) /\ AnswersKept(d, Materialize(d))
<1>1. \A c \in Unmaterialized(d) : c \in Inputs /\ d.mode[c] = "queue"
    BY DEF Unmaterialized, QueueRows
<1> QED
    BY <1>1, MessagesKeepCarriage, CarriageOfItself DEF Materialize

LEMMA AnswersKeepCarriage ==
    ASSUME NEW d \in Databases, NEW i \in Inputs, NEW s
    PROVE  /\ CarriageKept(d, WriteAssistant(d, i))
           /\ AnswerWritten(d, WriteAssistant(d, i), i, d.tail + 1, "pending")
           /\ CarriageKept(d, SetAssistant(d, i, s))
           /\ AnswerWritten(d, SetAssistant(d, i, s), i, d.aseq[i],
                            IF d.aseq[i] = 0 THEN d.astatus[i] ELSE s)
           /\ CarriageKept(d, DeleteAssistant(d, i))
           /\ AnswerWritten(d, DeleteAssistant(d, i), i, 0, "none")
BY DEF CarriageKept, AnswerWritten, WriteAssistant, SetAssistant, DeleteAssistant, Databases

LEMMA ConsumeKeepsCarriage ==
    ASSUME NEW d \in Databases, NEW i \in Inputs, d.state[i] # "none"
    PROVE  CarriageKept(d, Consume(d, i)) /\ AnswersKept(d, Consume(d, i))
<1>1. CASE d.mode[i] = "steer"
  <2> DEFINE w == SetMessages(d, d.msgs[i], "sent")
  <2>1. w \in Databases /\ CarriageKept(d, w) /\ AnswersKept(d, w)
      BY SetMessagesType, MessagesKeepCarriage DEF MessageStates
  <2>2. w.state[i] # "none"
      BY DEF SetMessages, Databases
  <2> HIDE DEF w
  <2>3. CarriageKept(w, SetState(w, i, "consumed")) /\ AnswersKept(w, SetState(w, i, "consumed"))
      BY <2>1, <2>2, RowsKeepCarriage
  <2>4. Consume(d, i) = SetState(w, i, "consumed")
      BY <1>1 DEF Consume, w
  <2> QED
      BY <2>1, <2>3, <2>4, CarriageIsTransitive DEF AnswersKept
<1>2. CASE d.mode[i] = "queue"
    BY <1>2, DeleteRowKeepsCarriage DEF Consume
<1> QED
    BY <1>1, <1>2 DEF Databases

LEMMA ClaimKeepsCarriage ==
    ASSUME NEW d \in Databases, NEW i \in Inputs, d.state[i] # "none"
    PROVE  /\ CarriageKept(d, Claim(d, i))
           /\ d.mode[i] = "queue" => AnswersKept(d, Claim(d, i))
           /\ d.mode[i] = "steer" => AnswerWritten(d, Claim(d, i), i, d.tail + 1, "pending")
<1>1. d.mode[i] = "queue" \/ d.mode[i] = "steer"
    BY DEF Databases
<1>2. CASE d.mode[i] = "queue"
    BY <1>2, RowsKeepCarriage DEF Claim
<1>3. CASE d.mode[i] = "steer"
    BY <1>3 DEF Claim, ClaimSteer, CarriageKept, AnswerWritten, WriteAssistant, Databases
<1> QED
    BY <1>1, <1>2, <1>3

LEMMA RollbackKeepsCarriage ==
    ASSUME NEW d \in Databases, NEW i \in Inputs
    PROVE  /\ CarriageKept(d, Rollback(d, i))
           /\ \A j \in Inputs : /\ Rollback(d, i).aseq[j] \in {0, d.aseq[j]}
                                /\ Rollback(d, i).astatus[j] \in {"none", d.astatus[j]}
BY DEF CarriageKept, Rollback, Databases

LEMMA RecoverKeepsCarriage ==
    ASSUME NEW d \in Databases
    PROVE  /\ CarriageKept(d, Recover(d))
           /\ \A j \in Inputs :
                /\ Recover(d).aseq[j] = d.aseq[j]
                /\ Recover(d).astatus[j] = IF d.astatus[j] = "pending" THEN "error" ELSE d.astatus[j]
<1>1. \A i \in Inputs :
        /\ d.mode[i] = "steer" /\ d.state[i] # "none" => Recover(d).state[i] # "none"
        /\ d.mode[i] = "steer" => Recover(d).msgs[i] = d.msgs[i]
        /\ d.mode[i] = "steer" => i \notin QueueRows(d)
        /\ Recover(d).aseq[i] = d.aseq[i]
        /\ Recover(d).astatus[i] = IF d.astatus[i] = "pending" THEN "error" ELSE d.astatus[i]
    BY DEF Recover, Resequence, Databases, QueueRows
<1> QED
    BY <1>1, RecoverRows DEF CarriageKept

-----------------------------------------------------------------------------
(* What a transaction does to the order of the answers. *)

\* No steer row opens or is claimed, no message becomes unread, and what a claimed steer row
\* and an unread message stand on stays where it is.
Calm(d, e) ==
    /\ \A i \in Inputs : IsOpenSteer(e, i) => IsOpenSteer(d, i)
    /\ \A i \in SteerRows(e, "claimed") :
          /\ i \in SteerRows(d, "claimed") /\ e.msgs[i] = d.msgs[i] /\ e.aseq[i] = d.aseq[i]
          /\ \A u \in d.msgs[i] : e.seq[u] <= d.seq[u]
    /\ \A u \in Inputs : IsUnread(e, u) => IsUnread(d, u) /\ e.seq[u] = d.seq[u]
    /\ AnswersPlaced(d) => AnswersPlaced(e)

LEMMA CalmIsTransitive ==
    ASSUME NEW d \in Databases, NEW e \in Databases, NEW f \in Databases, Calm(d, e), Calm(e, f)
    PROVE  Calm(d, f)
<1>1. \A i \in SteerRows(f, "claimed") :
          /\ i \in SteerRows(d, "claimed") /\ f.msgs[i] = d.msgs[i] /\ f.aseq[i] = d.aseq[i]
          /\ \A u \in d.msgs[i] : f.seq[u] <= d.seq[u]
  <2>1. ASSUME NEW i \in SteerRows(f, "claimed")
        PROVE  /\ i \in SteerRows(d, "claimed") /\ f.msgs[i] = d.msgs[i] /\ f.aseq[i] = d.aseq[i]
               /\ \A u \in d.msgs[i] : f.seq[u] <= d.seq[u]
    <3>1. /\ i \in SteerRows(e, "claimed") /\ f.msgs[i] = e.msgs[i] /\ f.aseq[i] = e.aseq[i]
          /\ \A u \in e.msgs[i] : f.seq[u] <= e.seq[u]
        BY DEF Calm
    <3>2. /\ i \in SteerRows(d, "claimed") /\ e.msgs[i] = d.msgs[i] /\ e.aseq[i] = d.aseq[i]
          /\ \A u \in d.msgs[i] : e.seq[u] <= d.seq[u]
        BY <3>1 DEF Calm
    <3>3. d.msgs[i] \subseteq Inputs
        BY <3>2 DEF SteerRows, Databases
    <3>4. \A u \in Inputs : d.seq[u] \in Nat /\ e.seq[u] \in Nat /\ f.seq[u] \in Nat
        BY DEF Databases
    <3> QED
        BY <3>1, <3>2, <3>3, <3>4
  <2> QED
      BY <2>1
<1> QED
    BY <1>1 DEF Calm

\* A queue row is written, and no message or answer.
LEMMA QueueRowIsCalm ==
    ASSUME NEW d \in Databases, NEW e \in Databases, NEW i \in Inputs, NEW s,
           RowWritten(d, e, i, s, "queue"), MessagesKept(d, e), AnswersKept(d, e),
           \A j \in Inputs \ {i} : e.msgs[j] = d.msgs[j]
    PROVE  Calm(d, e)
<1>1. /\ \A j \in Inputs : d.aseq[j] \in Nat /\ d.seq[j] \in Nat /\ d.msgs[j] \subseteq Inputs
      /\ d.tail \in Nat /\ e.tail \in Nat /\ d.tail <= e.tail
    BY DEF Databases, MessagesKept
<1>2. AnswersPlaced(d) => AnswersPlaced(e)
    BY <1>1 DEF AnswersPlaced, AnswersKept
<1> QED
    BY <1>1, <1>2 DEF Calm, RowWritten, MessagesKept, AnswersKept, IsOpenSteer, SteerRows, IsUnread, Exists

\* Rows and messages stay, and the answers of the claimed steer rows.
LEMMA UntouchedIsCalm ==
    ASSUME NEW d \in Databases, NEW e \in Databases, Untouched(d, e),
           \A j \in SteerRows(d, "claimed") : e.aseq[j] = d.aseq[j],
           \A j \in Inputs : e.aseq[j] <= d.aseq[j] \/ e.aseq[j] = e.tail
    PROVE  Calm(d, e)
<1>1. /\ \A j \in Inputs : /\ d.aseq[j] \in Nat /\ e.aseq[j] \in Nat /\ d.seq[j] \in Nat
                           /\ d.msgs[j] \subseteq Inputs
      /\ d.tail \in Nat /\ e.tail \in Nat /\ d.tail <= e.tail
    BY DEF Databases, Untouched, MessagesKept
<1>2. AnswersPlaced(d) => AnswersPlaced(e)
    BY <1>1 DEF AnswersPlaced
<1>3. \A j \in SteerRows(d, "claimed") : j \in Inputs
    BY DEF SteerRows
<1> QED
    BY <1>1, <1>2, <1>3
    DEF Calm, Untouched, RowsKept, MessagesKept, IsOpenSteer, SteerRows, IsUnread, Exists

LEMMA CalmOfItself == ASSUME NEW d \in Databases PROVE Calm(d, d)
<1>1. \A j \in Inputs : d.aseq[j] \in Nat
    BY DEF Databases
<1> QED
    BY <1>1, UntouchedIsCalm, AnswersLeaveMessages

LEMMA AnswersAreCalm ==
    ASSUME NEW d \in Databases, NEW i \in Inputs, NEW s \in AssistantStates
    PROVE  /\ Calm(d, SetAssistant(d, i, s))
           /\ i \notin SteerRows(d, "claimed") =>
                 Calm(d, WriteAssistant(d, i)) /\ Calm(d, DeleteAssistant(d, i))
<1>1. d.tail \in Nat /\ \A j \in Inputs : d.aseq[j] \in Nat
    BY DEF Databases
<1>2. Calm(d, SetAssistant(d, i, s))
  <2> DEFINE e == SetAssistant(d, i, s)
             t == IF d.aseq[i] = 0 THEN d.astatus[i] ELSE s
  <2>1. e \in Databases /\ Untouched(d, e) /\ AnswerWritten(d, e, i, d.aseq[i], t)
      BY SetAssistantType, AnswersLeaveMessages, AnswersKeepCarriage
  <2> HIDE DEF t
  <2>2. \A j \in Inputs : e.aseq[j] = d.aseq[j]
      BY <2>1 DEF AnswerWritten
  <2> HIDE DEF e
  <2>3. Calm(d, e)
      BY <1>1, <2>1, <2>2, UntouchedIsCalm DEF SteerRows
  <2> QED
      BY <2>3 DEF e
<1>3. ASSUME i \notin SteerRows(d, "claimed") PROVE Calm(d, WriteAssistant(d, i))
  <2> DEFINE e == WriteAssistant(d, i)
  <2>1. e \in Databases /\ Untouched(d, e) /\ AnswerWritten(d, e, i, d.tail + 1, "pending")
      BY WriteAssistantType, AnswersLeaveMessages, AnswersKeepCarriage
  <2>2. e.tail = d.tail + 1
      BY DEF WriteAssistant, Databases
  <2> HIDE DEF e
  <2>3. \A j \in Inputs : e.aseq[j] <= d.aseq[j] \/ e.aseq[j] = e.tail
      BY <1>1, <2>1, <2>2 DEF AnswerWritten
  <2>4. \A j \in SteerRows(d, "claimed") : e.aseq[j] = d.aseq[j]
      BY <1>3, <2>1 DEF AnswerWritten, SteerRows
  <2>5. Calm(d, e)
      BY <2>1, <2>3, <2>4, UntouchedIsCalm
  <2> QED
      BY <2>5 DEF e
<1>4. ASSUME i \notin SteerRows(d, "claimed") PROVE Calm(d, DeleteAssistant(d, i))
  <2> DEFINE e == DeleteAssistant(d, i)
  <2>1. e \in Databases /\ Untouched(d, e) /\ AnswerWritten(d, e, i, 0, "none")
      BY DeleteAssistantType, AnswersLeaveMessages, AnswersKeepCarriage
  <2> HIDE DEF e
  <2>2. \A j \in Inputs : e.aseq[j] <= d.aseq[j]
      BY <1>1, <2>1 DEF AnswerWritten
  <2>3. \A j \in SteerRows(d, "claimed") : e.aseq[j] = d.aseq[j]
      BY <1>4, <2>1 DEF AnswerWritten, SteerRows
  <2>4. Calm(d, e)
      BY <2>1, <2>2, <2>3, UntouchedIsCalm
  <2> QED
      BY <2>4 DEF e
<1> QED
    BY <1>2, <1>3, <1>4

\* A queue row's text is written: it is carried by no claimed steer row.
LEMMA UserFactIsCalm ==
    ASSUME NEW d \in Databases, NEW i \in Inputs, d.mode[i] = "queue",
           \A j \in SteerRows(d, "claimed") : i \notin d.msgs[j]
    PROVE  Calm(d, AppendUserFact(d, i))
<1> DEFINE e == AppendUserFact(d, i)
<1>1. /\ e \in Databases /\ MessageWritten(d, e, i, "sent", "none") /\ RowsKept(d, e)
      /\ LinkWritten(d, e, i, {i}) /\ AnswersKept(d, e)
  <2>1. AnswersKept(d, e)
      BY MessagesKeepCarriage
  <2> HIDE DEF e
  <2>2. /\ e \in Databases /\ MessageWritten(d, e, i, "sent", "none") /\ RowsKept(d, e)
        /\ LinkWritten(d, e, i, {i})
      BY AppendUserFactType, AppendUserFactEffect DEF e
  <2> QED
      BY <2>1, <2>2
<1>2. /\ d.tail \in Nat /\ \A j \in Inputs : d.aseq[j] \in Nat /\ d.seq[j] \in Nat
      /\ \A j \in Inputs : d.msgs[j] \subseteq Inputs
    BY DEF Databases
<1> HIDE DEF e
<1>3. e.tail = d.tail + 1
    BY <1>1 DEF MessageWritten
<1>4. AnswersPlaced(d) => AnswersPlaced(e)
    BY <1>1, <1>2, <1>3 DEF AnswersPlaced, AnswersKept
<1>5. \A u \in Inputs : IsUnread(e, u) => IsUnread(d, u) /\ e.seq[u] = d.seq[u]
    BY <1>1 DEF IsUnread, Exists, MessageWritten
<1>6. \A j \in Inputs : IsOpenSteer(e, j) => IsOpenSteer(d, j)
    BY <1>1 DEF IsOpenSteer, RowsKept
<1>7. ASSUME NEW j \in SteerRows(e, "claimed")
      PROVE  /\ j \in SteerRows(d, "claimed") /\ e.msgs[j] = d.msgs[j] /\ e.aseq[j] = d.aseq[j]
             /\ \A u \in d.msgs[j] : e.seq[u] <= d.seq[u]
  <2>1. j \in SteerRows(d, "claimed") /\ j \in Inputs /\ j # i
      BY <1>1 DEF SteerRows, RowsKept
  <2>2. \A u \in d.msgs[j] : u \in Inputs /\ u # i
      BY <1>2, <2>1
  <2> QED
      BY <1>1, <1>2, <2>1, <2>2 DEF MessageWritten, LinkWritten, AnswersKept
<1>8. Calm(d, e)
    BY <1>4, <1>5, <1>6, <1>7 DEF Calm
<1> QED
    BY <1>8 DEF e

\* A settled claim is no longer claimed, and its messages are no longer unread.
LEMMA ConsumeIsCalm ==
    ASSUME NEW d \in Databases, NEW i \in Inputs
    PROVE  Calm(d, Consume(d, i))
<1> DEFINE e == Consume(d, i)
<1>1. /\ e \in Databases /\ e.seq = d.seq /\ \A u \in Inputs : IsUnread(e, u) => IsUnread(d, u)
      /\ RowWritten(d, e, i, IF d.mode[i] = "steer" THEN "consumed" ELSE "none", d.mode[i])
    BY ConsumeType, ConsumeEffect, ConsumeRows
<1>2. CASE d.mode[i] = "steer"
  <2>1. e.msgs = d.msgs /\ e.aseq = d.aseq /\ e.tail = d.tail
      BY <1>2 DEF Consume, SetMessages, SetState, Databases
  <2>2. \A j \in Inputs : e.state[j] = (IF j = i THEN "consumed" ELSE d.state[j]) /\ e.mode[j] = d.mode[j]
      BY <1>1, <1>2 DEF RowWritten
  <2>3. \A j \in Inputs : d.seq[j] \in Nat /\ d.msgs[j] \subseteq Inputs
      BY DEF Databases
  <2> HIDE DEF e
  <2>4. Calm(d, e)
      BY <1>1, <2>1, <2>2, <2>3 DEF Calm, IsOpenSteer, SteerRows, AnswersPlaced
  <2> QED
      BY <2>4 DEF e
<1>3. CASE d.mode[i] = "queue"
  <2>1. e = DeleteRow(d, i)
      BY <1>3 DEF Consume
  <2>2. MessagesKept(d, e) /\ LinkWritten(d, e, i, {})
      BY <2>1, DeleteRowLeavesMessages
  <2>3. AnswersKept(d, e)
      BY <2>1, DeleteRowKeepsCarriage
  <2>4. RowWritten(d, e, i, "none", "queue")
      BY <1>1, <1>3
  <2> HIDE DEF e
  <2>5. Calm(d, e)
      BY <1>1, <2>2, <2>3, <2>4, QueueRowIsCalm DEF LinkWritten
  <2> QED
      BY <2>5 DEF e
<1> QED
    BY <1>2, <1>3 DEF Databases

\* A queue row changes its state, or is given back, or deleted.
LEMMA QueueEditsAreCalm ==
    ASSUME NEW d \in Databases, NEW i \in Inputs, d.mode[i] = "queue", NEW s \in RowStates
    PROVE  Calm(d, SetState(d, i, s)) /\ Calm(d, Release(d, i, s)) /\ Calm(d, DeleteRow(d, i))
<1>1. Calm(d, SetState(d, i, s))
  <2> DEFINE e == SetState(d, i, s)
  <2>1. e \in Databases /\ RowWritten(d, e, i, s, "queue")
      BY SetStateType, RowsOf
  <2>2. MessagesKept(d, e) /\ LinkWritten(d, e, i, d.msgs[i])
      BY RowsLeaveMessages
  <2>3. AnswersKept(d, e)
      BY DEF AnswersKept, SetState
  <2> HIDE DEF e
  <2>4. Calm(d, e)
      BY <2>1, <2>2, <2>3, QueueRowIsCalm DEF LinkWritten
  <2> QED
      BY <2>4 DEF e
<1>2. Calm(d, Release(d, i, s))
  <2> DEFINE e == Release(d, i, s)
  <2>1. e \in Databases /\ RowWritten(d, e, i, s, "queue")
      BY ReleaseType, RowsOf
  <2>2. MessagesKept(d, e) /\ LinkWritten(d, e, i, {})
      BY RowsLeaveMessages
  <2>3. AnswersKept(d, e)
      BY DEF AnswersKept, Release
  <2> HIDE DEF e
  <2>4. Calm(d, e)
      BY <2>1, <2>2, <2>3, QueueRowIsCalm DEF LinkWritten
  <2> QED
      BY <2>4 DEF e
<1>3. Calm(d, DeleteRow(d, i))
  <2> DEFINE e == DeleteRow(d, i)
  <2>1. e \in Databases /\ RowWritten(d, e, i, "none", "queue")
      BY DeleteRowType, DeleteRowRows
  <2>2. MessagesKept(d, e) /\ LinkWritten(d, e, i, {})
      BY DeleteRowLeavesMessages
  <2>3. AnswersKept(d, e)
      BY DeleteRowKeepsCarriage
  <2> HIDE DEF e
  <2>4. Calm(d, e)
      BY <2>1, <2>2, <2>3, QueueRowIsCalm DEF LinkWritten
  <2> QED
      BY <2>4 DEF e
<1> QED
    BY <1>1, <1>2, <1>3

\* A rollback keeps what stands above its turn, and puts the end of the transcript there.
LEMMA RollbackIsCalm ==
    ASSUME NEW d \in Databases, NEW i \in Inputs, SteerRows(d, "claimed") = {}
    PROVE  Calm(d, Rollback(d, i)) /\ (AnswersPlaced(d) => AnswersPlaced(Rollback(d, i)))
<1> DEFINE e == Rollback(d, i)
           gone(s) == s > 0 /\ s >= d.seq[i]
<1>1. CASE ~Exists(d, i)
  <2>1. e = d
      BY <1>1 DEF Rollback
  <2> HIDE DEF e
  <2>2. Calm(d, e) /\ (AnswersPlaced(d) => AnswersPlaced(e))
      BY <2>1, CalmOfItself
  <2> QED
      BY <2>2 DEF e
<1>2. CASE Exists(d, i)
  <2>1. /\ e.seq = [u \in Inputs |-> IF gone(d.seq[u]) THEN 0 ELSE d.seq[u]]
        /\ e.status = [u \in Inputs |-> IF gone(d.seq[u]) THEN "none" ELSE d.status[u]]
        /\ e.receipt = [u \in Inputs |-> IF gone(d.seq[u]) THEN "none" ELSE d.receipt[u]]
        /\ e.aseq = [u \in Inputs |-> IF gone(d.aseq[u]) THEN 0 ELSE d.aseq[u]]
        /\ e.tail = d.seq[i] - 1 /\ e.msgs = d.msgs /\ e.mode = d.mode /\ e.state = d.state
      BY <1>2 DEF Rollback, Databases
  <2>2. d.seq[i] > 0 /\ \A u \in Inputs : d.seq[u] \in Nat /\ d.aseq[u] \in Nat
      BY <1>2 DEF Exists, Databases
  <2> HIDE DEF e
  <2>3. AnswersPlaced(e)
      BY <2>1, <2>2 DEF AnswersPlaced
  <2>4. \A u \in Inputs : IsUnread(e, u) => IsUnread(d, u) /\ e.seq[u] = d.seq[u]
      BY <2>1, <2>2 DEF IsUnread, Exists
  <2>5. SteerRows(e, "claimed") = {} /\ \A j \in Inputs : IsOpenSteer(e, j) => IsOpenSteer(d, j)
      BY <2>1 DEF SteerRows, IsOpenSteer
  <2>6. Calm(d, e)
      BY <2>3, <2>4, <2>5 DEF Calm
  <2> QED
      BY <2>3, <2>6 DEF e
<1> QED
    BY <1>1, <1>2

\* The row a steer message interrupts is in no steer row.
LEMMA MaterializeIsCalm ==
    ASSUME NEW d \in Databases,
           \A c \in Unmaterialized(d) : \A j \in SteerRows(d, "claimed") : c \notin d.msgs[j]
    PROVE  Calm(d, Materialize(d))
<1>1. CASE Unmaterialized(d) = {}
    BY <1>1, CalmOfItself DEF Materialize
<1>2. CASE Unmaterialized(d) # {}
  <2>1. PICK c \in Unmaterialized(d) : Materialize(d) = AppendUserFact(d, c)
      BY <1>2 DEF Materialize
  <2>2. c \in Inputs /\ d.mode[c] = "queue"
      BY DEF Unmaterialized, QueueRows
  <2> QED
      BY <2>1, <2>2, UserFactIsCalm
<1> QED
    BY <1>1, <1>2

LEMMA CalmKeepsAnswers ==
    ASSUME NEW d \in Databases, NEW e \in Databases, Calm(d, e), AnsweredBelow(d)
    PROVE  AnsweredBelow(e)
<1>1. ASSUME NEW i \in SteerRows(e, "claimed"), NEW u \in e.msgs[i] PROVE e.seq[u] < e.aseq[i]
  <2>1. /\ i \in SteerRows(d, "claimed") /\ e.msgs[i] = d.msgs[i] /\ e.aseq[i] = d.aseq[i]
        /\ \A v \in d.msgs[i] : e.seq[v] <= d.seq[v]
      BY DEF Calm
  <2>2. i \in Inputs /\ d.msgs[i] \subseteq Inputs
      BY <2>1 DEF SteerRows, Databases
  <2>3. d.seq[u] \in Nat /\ e.seq[u] \in Nat /\ d.aseq[i] \in Nat
      BY <2>1, <2>2 DEF Databases
  <2>4. d.seq[u] < d.aseq[i]
      BY <2>1 DEF AnsweredBelow
  <2> QED
      BY <2>1, <2>3, <2>4
<1> QED
    BY <1>1 DEF AnsweredBelow

-----------------------------------------------------------------------------
(* Steps by what they do to the rows. *)

\* What the lane is already known to keep.
LaneSound == OwnershipInvariant /\ ClaimInvariant /\ BoundaryInvariant

\* A step of the contract that keeps the invariant.
PhaseStep == PhaseInvariant' /\ [Contract!Next]_Phase

SubmissionsKept == hist'.submitted = hist.submitted /\ VisibleKept

\* Row j, its hold, its answer and its turn stay.
RowStays(j) ==
    /\ db'.state[j] = db.state[j]
    /\ j \in pump'.held <=> j \in pump.held
    /\ db'.aseq[j] = db.aseq[j] /\ db'.astatus[j] = db.astatus[j]
    /\ turn'[j].stage = turn[j].stage
    /\ turn'[j].source = turn[j].source
    /\ turn'[j].answer = turn[j].answer

\* The resumed run stays at its answer, or is about the answer of row i only.
ResumedStays(i) ==
    \/ turn'[Resumed].stage = turn[Resumed].stage /\ turn'[Resumed].answer = turn[Resumed].answer
    \/ /\ turn[Resumed].stage # "none" => turn[Resumed].answer = i
       /\ turn'[Resumed].stage # "none" => turn'[Resumed].answer = i

LEMMA PhaseFacts ==
    ASSUME LaneSound, LaneSound', PhaseInvariant
    PROVE  /\ db \in Databases /\ db' \in Databases /\ turn \in [Runs -> Turns]
           /\ turn' \in [Runs -> Turns] /\ pump \in Pumps /\ pump' \in Pumps /\ call \in Calls
           /\ hist \in Histories /\ hist' \in Histories /\ hist.submitted \in Nat
           /\ inst \in Instances
           /\ Resumed \in Runs /\ Resumed \notin Inputs /\ Inputs \subseteq Nat
           /\ OwnershipInvariant /\ ClaimInvariant /\ BoundaryInvariant
           /\ \A i \in Inputs : /\ AnswerStanding(i) /\ ClaimStanding(i) /\ ReplayStanding(i)
                                /\ EmptyLink(i) /\ i \in Runs
                                /\ db.mode[i] \in {"queue", "steer"}
<1>1. TypeOK /\ TypeOK'
    BY DEF LaneSound, OwnershipInvariant
<1>2. N \in Nat
    BY StoreAssumption
<1>3. Resumed \in Runs /\ Resumed \notin Inputs /\ Inputs \subseteq Nat
    BY <1>2 DEF Resumed, Runs, Inputs
<1>4. hist.submitted \in Nat
    BY <1>1 DEF TypeOK, Histories
<1>5. \A i \in Inputs : db.mode[i] \in {"queue", "steer"}
    BY <1>1 DEF TypeOK, Databases
<1>6. TypeOK' => db' \in Databases /\ turn' \in [Runs -> Turns] /\ pump' \in Pumps /\ hist' \in Histories
    BY DEF TypeOK
<1> QED
    BY <1>1, <1>3, <1>4, <1>5, <1>6, NoneIsNoRun
    DEF TypeOK, LaneSound, ClaimInvariant, BoundaryInvariant, PhaseInvariant

LEMMA CarriageKeepsCarriers ==
    ASSUME CarriageKept(db, db')
    PROVE  CarriersKept /\ \A i, u \in Inputs : Carries(i, u)' <=> Carries(i, u)
<1>1. \A i, u \in Inputs : Carries(i, u)' <=> Carries(i, u)
    BY DEF CarriageKept, Carries
<1>2. ASSUME NEW u \in Inputs PROVE Carriers(u)' = Carriers(u)
    BY <1>1 DEF Carriers
<1> QED
    BY <1>1, <1>2 DEF CarriersKept

LEMMA CarriersByCarriage ==
    ASSUME LaneSound, LaneSound', PhaseInvariant, CarriageKept(db, db'),
           hist'.submitted = hist.submitted
    PROVE  CarriersStand(hist.submitted)'
<1>1. CarriersStand(hist.submitted)
    BY DEF PhaseInvariant
<1> QED
    BY <1>1, CarriageKeepsCarriers DEF CarriersStand, CarriageKept

LEMMA StaysInPhase ==
    ASSUME NEW j \in Inputs, RowStays(j), CarriageKept(db, db'),
           NEW i \in Inputs, i # j, ResumedStays(i), Resumed \in Runs, Inputs \subseteq Runs
    PROVE  /\ Answering(j)' <=> Answering(j)
           /\ Resumable(j)' => Resumable(j)
           /\ RowPhase(j)' = RowPhase(j)
<1>1. Answering(j)' <=> Answering(j)
    BY DEF Answering, RowStays, ResumedStays, Running, PreStream, InStream
<1>2. Resumable(j)' => Resumable(j)
    BY DEF Resumable, RowStays, ResumedStays
<1>3. db'.mode[j] = db.mode[j]
    BY DEF CarriageKept
<1>4. RowPhase(j)' = RowPhase(j)
    BY <1>1, <1>3 DEF RowPhase, RowStays
<1> QED
    BY <1>1, <1>2, <1>4

LEMMA AnswerStays ==
    ASSUME NEW j \in Inputs, RowStays(j), AnswerStanding(j), Resumable(j)' => Resumable(j),
           hist'.submitted = hist.submitted
    PROVE  AnswerStanding(j)'
BY DEF AnswerStanding, RowStays

\* All rows stay but row i, whose phase changes as the contract allows.
LEMMA RowStep ==
    ASSUME LaneSound, LaneSound', PhaseInvariant, NEW i \in Inputs,
           CarriageKept(db, db'), SubmissionsKept, ResumedStays(i), AnswerStanding(i)',
           \A j \in Inputs \ {i} : RowStays(j),
           NEW p, NEW q, p = RowPhase(i), q = RowPhase(i)',
           \/ p = q
           \/ /\ p = "waiting" /\ q \in {"running", "answered", "parked"}
              /\ NobodyElseAnswers(i)
           \/ p = "waiting" /\ q = "parked" /\ db.mode[i] = "queue"
           \/ p = "parked" /\ q = "waiting"
           \/ p = "running" /\ q = "answered" /\ NobodyElseAnswers(i)
           \/ /\ p = "running" /\ q = "parked" /\ NobodyElseAnswers(i)
              /\ db.mode[i] = "queue"
    PROVE  PhaseStep
<1> USE PhaseFacts
<1>1. \A j \in Inputs \ {i} : RowPhase(j)' = RowPhase(j) /\ (Resumable(j)' => Resumable(j))
    BY StaysInPhase
<1>2. \A j \in Inputs : AnswerStanding(j)'
    BY <1>1, AnswerStays DEF SubmissionsKept
<1>3. CarriersStand(hist.submitted)' /\ CarriersKept
    BY CarriersByCarriage, CarriageKeepsCarriers DEF SubmissionsKept
<1>4. hist'.accepted \cup hist'.withdrawn \subseteq 1 .. hist'.submitted
    BY DEF PhaseInvariant, SubmissionsKept, VisibleKept
<1>5. turn'[Resumed].stage # "none" => turn'[Resumed].answer \in Inputs
    BY DEF PhaseInvariant, ResumedStays
<1>6. [Contract!Next]_Phase
    BY <1>1, <1>3, StepOfRow DEF SubmissionsKept
<1> QED
    BY <1>2, <1>3, <1>4, <1>5, <1>6 DEF PhaseStep, PhaseInvariant

\* All rows stay.
LEMMA QuietStep ==
    ASSUME LaneSound, LaneSound', PhaseInvariant, CarriageKept(db, db'), SubmissionsKept,
           \A j \in Inputs : RowStays(j),
           turn'[Resumed].stage = turn[Resumed].stage, turn'[Resumed].answer = turn[Resumed].answer
    PROVE  PhaseStep
<1> USE PhaseFacts
<1>1. PICK i \in Inputs : i = 1
    BY StoreAssumption DEF Inputs
<1>2. \A k \in Inputs : ResumedStays(k)
    BY DEF ResumedStays
<1>3. Resumable(i)' => Resumable(i)
    BY DEF Resumable, RowStays
<1>4. AnswerStanding(i)'
    BY <1>3, AnswerStays DEF SubmissionsKept
<1>5. Answering(i)' <=> Answering(i)
    BY DEF Answering, RowStays, Running, PreStream, InStream
<1>6. RowPhase(i)' = RowPhase(i)
    BY <1>5 DEF RowPhase, RowStays, CarriageKept
<1> QED
    BY <1>2, <1>4, <1>6, RowStep

-----------------------------------------------------------------------------
(* Rows that wait. *)

\* The phase of a row that holds an input and runs nothing.
LEMMA WaitingPhase ==
    ASSUME LaneSound, LaneSound', PhaseInvariant, NEW i \in Inputs,
           db.state[i] \in ActiveStates, i \notin Running
    PROVE  /\ ~Answering(i) /\ ~Resumable(i)
           /\ RowPhase(i) = IF db.state[i] \in {"pending", "claimed"}
                               /\ (db.mode[i] = "queue" => i \notin pump.held)
                            THEN "waiting" ELSE "parked"
<1> USE PhaseFacts
<1>1. ~Resumable(i)
    BY DEF AnswerStanding, ActiveStates, WaitingStates
<1>2. Resumed \in Running => turn[Resumed].stage # "none"
    BY DEF Running, PreStream, InStream
<1>3. ~Answering(i)
    BY <1>1, <1>2 DEF Answering, Resumable
<1>4. CASE db.state[i] \in {"pending", "claimed"}
    BY <1>1, <1>3, <1>4 DEF RowPhase
<1>5. CASE db.state[i] \in {"blocked", "retry_required"}
    BY <1>1, <1>3, <1>5 DEF RowPhase
<1> QED
    BY <1>1, <1>3, <1>4, <1>5 DEF ActiveStates, WaitingStates

LEMMA WaitingPhaseNext ==
    ASSUME NEW i \in Inputs, db'.state[i] \in ActiveStates, ~Answering(i)'
    PROVE  RowPhase(i)' \in {"waiting", "parked"}
<1>1. CASE db'.state[i] \in {"pending", "claimed"}
    BY <1>1 DEF RowPhase
<1>2. CASE db'.state[i] \in {"blocked", "retry_required"}
    BY <1>2 DEF RowPhase
<1> QED
    BY <1>1, <1>2 DEF ActiveStates, WaitingStates

\* The turns are left alone, up to their signals.
TurnsStay ==
    \A r \in Runs : /\ turn'[r].stage = turn[r].stage
                    /\ turn'[r].source = turn[r].source
                    /\ turn'[r].answer = turn[r].answer

\* A queue row that waits is put in another state, held or released.
LEMMA EditStep ==
    ASSUME LaneSound, LaneSound', PhaseInvariant, NEW i \in Inputs,
           db.mode[i] = "queue", db.state[i] \in ActiveStates, i \notin Running,
           db'.state[i] \in ActiveStates, CarriageKept(db, db'), AnswersKept(db, db'),
           SubmissionsKept, TurnsStay,
           \A j \in Inputs \ {i} : /\ db'.state[j] = db.state[j]
                                   /\ j \in pump'.held <=> j \in pump.held
    PROVE  PhaseStep
<1> USE PhaseFacts
<1>1. ~Answering(i) /\ ~Resumable(i) /\ RowPhase(i) \in {"waiting", "parked"}
    BY WaitingPhase
<1>2. (Answering(i)' <=> Answering(i)) /\ (Resumable(i)' <=> Resumable(i))
    BY DEF Answering, Resumable, Running, TurnsStay, AnswersKept
<1>3. RowPhase(i)' \in {"waiting", "parked"}
    BY <1>1, <1>2, WaitingPhaseNext
<1>4. AnswerStanding(i)'
    BY <1>1, <1>2 DEF AnswerStanding, TurnsStay, AnswersKept, SubmissionsKept
<1>5. ResumedStays(i) /\ \A j \in Inputs \ {i} : RowStays(j)
    BY DEF ResumedStays, RowStays, TurnsStay, AnswersKept
<1> QED
    BY <1>1, <1>3, <1>4, <1>5, RowStep

\* A step that leaves rows, answers, holds and turns alone.
LEMMA RestingStep ==
    ASSUME LaneSound, LaneSound', PhaseInvariant, CarriageKept(db, db'), AnswersKept(db, db'),
           db'.state = db.state, pump'.held = pump.held, SubmissionsKept, TurnsStay
    PROVE  PhaseStep
<1>1. \A j \in Inputs : RowStays(j)
    BY PhaseFacts DEF RowStays, AnswersKept, TurnsStay
<1> QED
    BY <1>1, PhaseFacts, QuietStep DEF TurnsStay

LEMMA EditsOfTheQueue ==
    ASSUME LaneSound, LaneSound', PhaseInvariant,
           \/ \E i \in Inputs : Update(i) \/ ResolveBlocked(i) \/ Retry(i)
           \/ \E i, j \in Inputs : Move(i, j)
    PROVE  PhaseStep
<1> USE PhaseFacts
<1>1. ASSUME NEW i \in Inputs, Update(i) \/ ResolveBlocked(i) \/ Retry(i) PROVE PhaseStep
  <2>1. /\ db.mode[i] = "queue" /\ db.state[i] \in WaitingStates
        /\ db' = SetState(db, i, "pending")
      BY <1>1
      DEF Update, ResolveBlocked, Retry, WaitingQueue, QueueRows, ClaimStanding, WaitingStates
  <2>2. i \notin Running /\ db.state[i] \in ActiveStates /\ db.state[i] # "none"
      BY <2>1, WaitingRow DEF ActiveStates, WaitingStates, OwnershipInvariant
  <2>3. CarriageKept(db, db') /\ AnswersKept(db, db') /\ RowWritten(db, db', i, "pending", "queue")
      BY <2>1, <2>2, RowsKeepCarriage, RowsOf
  <2>4. turn' = turn /\ SubmissionsKept
      BY <1>1
      DEF Update, ResolveBlocked, Retry, Approve, SubmissionsKept, VisibleKept, Histories
  <2>5. pump'.held = pump.held
      BY <1>1, WakeupsKeepHolds DEF Update, ResolveBlocked, Retry
  <2> QED
      BY <2>1, <2>2, <2>3, <2>4, <2>5, EditStep
      DEF RowWritten, ActiveStates, WaitingStates, TurnsStay
<1>2. ASSUME NEW i \in Inputs, NEW j \in Inputs, Move(i, j) PROVE PhaseStep
  <2>1. db' \in Moves(db, i, j) /\ UNCHANGED <<pump, turn, hist>>
      BY <1>2 DEF Move
  <2> QED
      BY <2>1, MovesKeepCarriage, MovesRows, RestingStep
      DEF RowsKept, SubmissionsKept, VisibleKept, TurnsStay
<1> QED
    BY <1>1, <1>2

LEMMA PromotionSteps ==
    ASSUME LaneSound, LaneSound', PhaseInvariant,
           (\E i \in Inputs : PromoteClaim(i)) \/ PromoteBlock \/ PromoteFail
    PROVE  PhaseStep
<1> USE PhaseFacts
<1>1. ASSUME NEW i \in Inputs, NEW s \in {"claimed", "blocked", "retry_required"},
             db.mode[i] = "queue", db.state[i] \in {"pending", "claimed"}, i \notin Running,
             db' \in {SetState(db, i, s), Release(db, i, s)}, UNCHANGED <<pump, turn, hist>>
      PROVE  PhaseStep
  <2>1. CarriageKept(db, db') /\ AnswersKept(db, db') /\ RowWritten(db, db', i, s, "queue")
      BY <1>1, RowsKeepCarriage, RowsOf
  <2> QED
      BY <1>1, <2>1, EditStep
      DEF RowWritten, ActiveStates, WaitingStates, SubmissionsKept, VisibleKept, TurnsStay
<1>2. ASSUME NEW i \in Inputs, PromoteClaim(i) PROVE PhaseStep
  <2>1. i \notin Running
      BY <1>2, WaitingRow DEF PromoteClaim, WaitingStates, OwnershipInvariant
  <2> QED
      BY <1>1, <1>2, <2>1 DEF PromoteClaim
<1>3. CASE PromoteBlock \/ PromoteFail
  <2>1. PICK i \in Inputs : i = call.item
      BY <1>3, PhaseFacts
      DEF PromoteBlock, PromoteFail, OwnershipInvariant, LaneKnowsItem
  <2>2. Promoting(i)
      BY <1>3, <2>1 DEF PromoteBlock, PromoteFail, Promoting
  <2>3. db.state[i] = "claimed" /\ db.mode[i] = "queue" /\ i \notin Running
      BY <2>2 DEF ClaimStanding
  <2> QED
      BY <1>1, <1>3, <2>1, <2>3 DEF PromoteBlock, PromoteFail
<1> QED
    BY <1>2, <1>3

-----------------------------------------------------------------------------
(* Steps that answer nothing. *)

LEMMA IdleSteps ==
    ASSUME LaneSound, LaneSound', PhaseInvariant,
           (\E u \in Inputs : SteerPrepare(u)) \/ SteerDrop \/ DrainIdle \/ NextIfReady
    PROVE  PhaseStep
<1> USE PhaseFacts
<1>1. UNCHANGED <<db, turn, hist>>
    BY DEF SteerPrepare, SteerDrop, DrainIdle, NextIfReady
<1>2. pump'.held = pump.held
  <2>1. CASE (\E u \in Inputs : SteerPrepare(u)) \/ SteerDrop
      BY <2>1 DEF SteerPrepare, SteerDrop
  <2>2. CASE DrainIdle
    <3> DEFINE back == GiveBack(pump, turn, inst.status)
    <3>1. back \in Pumps /\ back.held = pump.held
        BY GiveBackType, WakeupsKeepHolds
    <3>2. pump' \in {back, Schedule(back, turn, inst.status, "enqueue")}
        BY <2>2 DEF DrainIdle
    <3> HIDE DEF back
    <3> QED
        BY <3>1, <3>2, WakeupsKeepHolds
  <2>3. CASE NextIfReady
    <3> DEFINE p == [pump EXCEPT !.next = FALSE]
    <3>1. p \in Pumps /\ p.held = pump.held
        BY DEF Pumps
    <3>2. pump' \in {p, Schedule(p, turn, inst.status, "completed")}
        BY <2>3 DEF NextIfReady
    <3> HIDE DEF p
    <3> QED
        BY <3>1, <3>2, WakeupsKeepHolds
  <2> QED
      BY <2>1, <2>2, <2>3
<1> QED
    BY <1>1, <1>2, CarriageOfItself, RestingStep DEF SubmissionsKept, VisibleKept, TurnsStay

LEMMA FinalizeStep ==
    ASSUME LaneSound, LaneSound', PhaseInvariant, NEW i \in Inputs, Finalize(i)
    PROVE  PhaseStep
<1> USE PhaseFacts
<1>1. /\ turn[i].stage = "finishing" /\ turn' = [turn EXCEPT ![i] = NoTurn]
      /\ UNCHANGED <<db, hist>>
    BY DEF Finalize
<1>2. pump'.held = pump.held
  <2> DEFINE back == GiveBack(pump, turn', inst.status)
  <2>1. back \in Pumps /\ back.held = pump.held
      BY GiveBackType, WakeupsKeepHolds
  <2>2. pump'.held = back.held
      BY <2>1 DEF Finalize, Pumps
  <2> QED
      BY <2>1, <2>2
<1>3. turn'[i].stage = "none" /\ \A r \in Runs \ {i} : turn'[r] = turn[r]
    BY <1>1 DEF NoTurn
<1>4. (i \in Running)' <=> i \in Running
    BY <1>1, <1>3 DEF Running, PreStream, InStream
<1>5. turn'[Resumed] = turn[Resumed]
    BY <1>3
<1>6. (Answering(i)' <=> Answering(i)) /\ (Resumable(i)' <=> Resumable(i))
    BY <1>1, <1>4, <1>5 DEF Answering, Resumable, Running
<1>7. RowPhase(i)' = RowPhase(i)
    BY <1>1, <1>2, <1>6 DEF RowPhase
<1>8. AnswerStanding(i)'
    BY <1>1, <1>3, <1>6 DEF AnswerStanding, InStream
<1>9. ResumedStays(i) /\ \A j \in Inputs \ {i} : RowStays(j)
    BY <1>1, <1>2, <1>3, <1>5 DEF ResumedStays, RowStays
<1> QED
    BY <1>1, <1>7, <1>8, <1>9, CarriageOfItself, RowStep DEF SubmissionsKept, VisibleKept

\* One row is answered at a time.
LEMMA OneAnswers ==
    ASSUME LaneSound, LaneSound', PhaseInvariant, NEW i \in Inputs, Answering(i)
    PROVE  NobodyElseAnswers(i)
<1> USE PhaseFacts
<1>1. /\ \A r, s \in Running : r = s
      /\ HasInteraction(db) => Running = {}
      /\ \A a, b \in Inputs : db.astatus[a] = "paused" /\ db.astatus[b] = "paused" => a = b
    BY DEF OwnershipInvariant, InteractionRests, OneInteraction
<1> QED
    BY <1>1 DEF NobodyElseAnswers, Answering, HasInteraction

LEMMA RestedAnswers ==
    ASSUME LaneSound, LaneSound', PhaseInvariant, Running = {}, ~HasInteraction(db)
    PROVE  turn[Resumed].stage = "none" /\ \A i \in Inputs : ~Answering(i) /\ ~Resumable(i)
<1> USE PhaseFacts
<1>1. turn[Resumed].stage = "none"
    BY DEF OwnershipInvariant, ResumedSkipsPreparation, Running, PreStream, InStream
<1> QED
    BY <1>1 DEF Answering, Resumable, HasInteraction

LEMMA SignalSteps ==
    ASSUME LaneSound, LaneSound', PhaseInvariant, Cancel \/ \E a \in Inputs : Respond(a)
    PROVE  PhaseStep
<1> USE PhaseFacts
<1>1. CASE \E r \in Runs : turn' = Stopped(r) /\ UNCHANGED <<db, pump, hist>>
  <2>1. PICK r \in Runs : turn' = Stopped(r) /\ UNCHANGED <<db, pump, hist>>
      BY <1>1
  <2>2. TurnsStay
      BY <2>1 DEF TurnsStay, Stopped, Turns
  <2> QED
      BY <2>1, <2>2, CarriageOfItself, RestingStep DEF SubmissionsKept, VisibleKept
<1>2. CASE /\ Cancel /\ HasInteraction(db) /\ UNCHANGED turn
           /\ db' = [db EXCEPT !.astatus = [i \in Inputs |->
                        IF db.astatus[i] = "paused" THEN "error" ELSE db.astatus[i]]]
           /\ pump' = Schedule(pump, turn, "idle", "completed")
  <2>1. PICK a \in Inputs : db.astatus[a] = "paused"
      BY <1>2 DEF HasInteraction
  <2>2. Answering(a) /\ Resumable(a) /\ Running = {}
      BY <1>2, <2>1 DEF Answering, Resumable, OwnershipInvariant, InteractionRests
  <2>3. NobodyElseAnswers(a)
      BY <2>2, OneAnswers
  <2>4. pump'.held = pump.held /\ hist' = hist
      BY <1>2, WakeupsKeepHolds DEF Cancel
  <2>5. /\ db'.mode = db.mode /\ db'.state = db.state /\ db'.msgs = db.msgs /\ db'.aseq = db.aseq
        /\ db'.astatus[a] = "error"
        /\ \A j \in Inputs \ {a} : db'.astatus[j] = db.astatus[j]
    <3>1. \A j \in Inputs \ {a} : db.astatus[j] # "paused"
        BY <2>3 DEF NobodyElseAnswers, Answering
    <3> QED
        BY <1>2, <2>1, <3>1 DEF Databases
  <2>6. CarriageKept(db, db')
      BY <2>5 DEF CarriageKept
  <2>7. ~Answering(a)'
      BY <1>2, <2>2, <2>5 DEF Answering, Running
  <2>8. db'.state[a] \in {"none", "consumed"}
      BY <2>2, <2>5 DEF AnswerStanding
  <2>9. RowPhase(a) = "running" /\ RowPhase(a)' = "answered"
      BY <2>2, <2>7, <2>8 DEF RowPhase
  <2>10. AnswerStanding(a)'
    <3>1. AnswerStanding(a)
        OBVIOUS
    <3>2. turn'[a] = turn[a] /\ hist' = hist /\ db'.state = db.state /\ db'.aseq = db.aseq
        BY <1>2, <2>4, <2>5
    <3> QED
        BY <2>2, <3>1, <3>2 DEF AnswerStanding
  <2>11. ResumedStays(a) /\ \A j \in Inputs \ {a} : RowStays(j)
      BY <1>2, <2>4, <2>5 DEF ResumedStays, RowStays
  <2> QED
      BY <2>3, <2>4, <2>6, <2>9, <2>10, <2>11, RowStep DEF SubmissionsKept, VisibleKept
<1>3. CASE Cancel
    BY <1>1, <1>2, <1>3, NoneIsNoRun DEF Cancel, Instances
<1>4. ASSUME NEW a \in Inputs, Respond(a) PROVE PhaseStep
  <2>1. /\ db.astatus[a] = "paused" /\ turn[Resumed].stage = "none"
        /\ db' = [db EXCEPT !.astatus[a] = "pending"]
        /\ UNCHANGED <<pump, hist>>
        /\ \A r \in Runs \ {Resumed} : turn'[r] = turn[r]
        /\ turn'[Resumed].stage = "reserved" /\ turn'[Resumed].answer = a
      BY <1>4 DEF Respond
  <2>2. Answering(a) /\ Resumable(a)
      BY <2>1 DEF Answering, Resumable
  <2>3. (Resumed \in Running)' /\ Answering(a)'
      BY <2>1 DEF Running, PreStream, Answering
  <2>4. RowPhase(a) = "running" /\ RowPhase(a)' = "running"
      BY <2>2, <2>3 DEF RowPhase
  <2>5. /\ db'.mode = db.mode /\ db'.state = db.state /\ db'.msgs = db.msgs /\ db'.aseq = db.aseq
        /\ \A j \in Inputs \ {a} : db'.astatus[j] = db.astatus[j]
      BY <2>1 DEF Databases
  <2>6. CarriageKept(db, db')
      BY <2>5 DEF CarriageKept
  <2>7. AnswerStanding(a)'
    <3>1. AnswerStanding(a) /\ turn'[a] = turn[a]
        BY <2>1
    <3> QED
        BY <2>1, <2>2, <2>5, <3>1 DEF AnswerStanding
  <2>8. ResumedStays(a) /\ \A j \in Inputs \ {a} : RowStays(j)
      BY <2>1, <2>5 DEF ResumedStays, RowStays
  <2> QED
      BY <2>1, <2>4, <2>6, <2>7, <2>8, RowStep DEF SubmissionsKept, VisibleKept
<1> QED
    BY <1>3, <1>4

-----------------------------------------------------------------------------
(* Steps of one message, and of many rows. *)

\* Message v stays in its phase: it is carried by the same row, which stays in its.
LEMMA MessageStays ==
    ASSUME NEW v \in Inputs, NEW i \in Inputs, Carriers(v)' = Carriers(v), Carrier(v) # i,
           v \in hist'.accepted <=> v \in hist.accepted,
           v \in hist'.withdrawn <=> v \in hist.withdrawn,
           \A j \in Inputs \ {i} : RowPhase(j)' = RowPhase(j)
    PROVE  PhaseOf(v)' = PhaseOf(v)
<1>1. PICK c \in Inputs : c = Carrier(v)
    BY CarrierIsRow
<1>2. Carrier(v)' = c /\ c # i
    BY <1>1, CarrierKept
<1>3. RowPhase(c)' = RowPhase(c)
    BY <1>2
<1>4. RowPhase(Carrier(v))' = RowPhase(c)' /\ RowPhase(Carrier(v)) = RowPhase(c)
    BY <1>1, <1>2
<1> QED
    BY <1>3, <1>4 DEF PhaseOf

\* A step that changes the phase of one message.
LEMMA StepOfMessage ==
    ASSUME NEW u \in Inputs, \A v \in Inputs \ {u} : PhaseOf(v)' = PhaseOf(v),
           NEW p, NEW q, p = PhaseOf(u), q = PhaseOf(u)',
           \/ p = q
           \/ p \in {"waiting", "parked"} /\ q = "withdrawn"
           \/ p = "parked" /\ q = "waiting"
           \/ p = "absent" /\ q = "waiting"
           \/ p = "absent" /\ q \in {"running", "parked"} /\ Contract!In("running") = {}
    PROVE  [Contract!Next]_Phase
<1>1. Phase' = [v \in Inputs |-> IF v \in {u} THEN q ELSE Phase[v]]
    BY DEF Phase
<1>2. Phase[u] = p
    BY DEF Phase
<1>3. Contract!Put({u}, q)
    BY <1>1 DEF Contract!Put
<1>4. CASE p = q
  <2>1. Phase = [v \in Inputs |-> Phase[v]]
      BY DEF Phase
  <2> QED
      BY <1>1, <1>2, <1>4, <2>1
<1>5. CASE p \in {"waiting", "parked"} /\ q = "withdrawn"
    BY <1>2, <1>3, <1>5 DEF Contract!Withdraw, Contract!Next
<1>6. CASE p = "parked" /\ q = "waiting"
  <2>1. {u} \subseteq Contract!In("parked") /\ {u} \in SUBSET Inputs /\ {u} # {}
      BY <1>2, <1>6 DEF Contract!In
  <2>2. Contract!Approve({u})
      BY <1>3, <1>6, <2>1 DEF Contract!Approve
  <2> QED
      BY <2>1, <2>2 DEF Contract!Next
<1>7. CASE p = "absent"
    BY <1>2, <1>3, <1>4, <1>7 DEF Contract!Accept, Contract!Next
<1> QED
    BY <1>4, <1>5, <1>6, <1>7

\* A step that lets parked rows wait.
LEMMA ApprovalOfRows ==
    ASSUME CarriersKept, VisibleKept,
           \A j \in Inputs : \/ RowPhase(j)' = RowPhase(j)
                             \/ RowPhase(j) = "parked" /\ RowPhase(j)' = "waiting"
    PROVE  [Contract!Next]_Phase
<1> DEFINE S == {u \in Inputs : Phase[u] = "parked" /\ Phase'[u] = "waiting"}
<1>1. ASSUME NEW u \in Inputs
      PROVE  PhaseOf(u)' = PhaseOf(u) \/ (PhaseOf(u) = "parked" /\ PhaseOf(u)' = "waiting")
  <2>1. PICK c \in Inputs : c = Carrier(u)
      BY CarrierIsRow
  <2>2. Carrier(u)' = c
      BY <2>1, CarrierKept DEF CarriersKept
  <2>3. RowPhase(Carrier(u))' = RowPhase(c)' /\ RowPhase(Carrier(u)) = RowPhase(c)
      BY <2>1, <2>2
  <2> QED
      BY <2>3 DEF PhaseOf, VisibleKept
<1>2. Phase' = [u \in Inputs |-> IF u \in S THEN "waiting" ELSE Phase[u]]
    BY <1>1 DEF Phase
<1>3. Phase = [u \in Inputs |-> Phase[u]]
    BY DEF Phase
<1>4. S \in SUBSET Inputs /\ S \subseteq Contract!In("parked") /\ Contract!Put(S, "waiting")
    BY <1>2 DEF Contract!In, Contract!Put
<1> HIDE DEF S
<1>5. S # {} => Contract!Approve(S)
    BY <1>4 DEF Contract!Approve
<1>6. S = {} => UNCHANGED Phase
    BY <1>2, <1>3
<1> QED
    BY <1>4, <1>5, <1>6 DEF Contract!Next

\* The user approves the held queue.
LEMMA ResumeQueueStep ==
    ASSUME LaneSound, LaneSound', PhaseInvariant, NEW h \in Inputs, ResumeQueue(h)
    PROVE  PhaseStep
<1> USE PhaseFacts
<1>1. /\ UNCHANGED <<db, turn>> /\ SubmissionsKept
      /\ pump'.held = pump.held \ WaitingQueue(db)
  <2> DEFINE p == [pump EXCEPT !.held = @ \ WaitingQueue(db), !.resumed = @ \cup {h}]
  <2>1. p \in Pumps /\ p.held = pump.held \ WaitingQueue(db)
      BY DEF Pumps
  <2>2. pump' = Schedule(p, turn, inst.status, "enqueue")
      BY DEF ResumeQueue
  <2> HIDE DEF p
  <2>3. hist'.submitted = hist.submitted /\ VisibleKept
      BY DEF ResumeQueue, Approve, VisibleKept, Histories
  <2> QED
      BY <2>1, <2>2, <2>3, WakeupsKeepHolds DEF ResumeQueue, SubmissionsKept
<1>2. Running = {} /\ ~HasInteraction(db)
    BY IdleHasNoRun DEF ResumeQueue, OwnershipInvariant, Alone
<1>3. \A j \in Inputs : ~Answering(j) /\ ~Answering(j)'
    BY <1>1, <1>2, RestedAnswers DEF Answering, Running
<1>4. ASSUME NEW j \in Inputs
      PROVE  \/ RowPhase(j)' = RowPhase(j)
             \/ RowPhase(j) = "parked" /\ RowPhase(j)' = "waiting"
    BY <1>1, <1>3 DEF RowPhase
<1>5. CarriersKept
    BY <1>1, CarriageOfItself, CarriageKeepsCarriers
<1>6. PhaseInvariant'
    BY <1>1 DEF PhaseInvariant, CarriersStand, Carries, AnswerStanding, Resumable,
                SubmissionsKept, VisibleKept
<1> QED
    BY <1>1, <1>4, <1>5, <1>6, ApprovalOfRows DEF PhaseStep, SubmissionsKept

\* The user withdraws a row that waits.
LEMMA DeleteStep ==
    ASSUME LaneSound, LaneSound', PhaseInvariant, NEW i \in Inputs, Delete(i)
    PROVE  PhaseStep
<1> USE PhaseFacts
<1>1. /\ db.mode[i] = "queue" /\ db.state[i] \in WaitingStates /\ db' = DeleteRow(db, i)
      /\ turn' = turn
    BY DEF Delete, WaitingQueue, QueueRows
<1>2. i \notin Running /\ db.state[i] \in ActiveStates /\ db.state[i] # "none" /\ ~(i > hist.submitted)
    BY <1>1, WaitingRow DEF ActiveStates, WaitingStates, OwnershipInvariant
<1>3. /\ CarriageKept(db, db') /\ AnswersKept(db, db') /\ RowWritten(db, db', i, "none", "queue")
    BY <1>1, DeleteRowKeepsCarriage, DeleteRowRows
<1>4. /\ hist'.submitted = hist.submitted /\ hist'.accepted = hist.accepted
      /\ hist'.withdrawn = hist.withdrawn \cup {i}
    BY DEF Delete, Approve, Histories
<1>5. pump'.held = pump.held \ {i}
    BY WakeupsKeepHolds, UnholdHolds DEF Delete
<1>6. ~Answering(i) /\ ~Resumable(i) /\ RowPhase(i) \in {"waiting", "parked"}
    BY <1>2, WaitingPhase
<1>7. \A j \in Inputs \ {i} : RowStays(j)
    BY <1>1, <1>3, <1>5 DEF RowStays, AnswersKept, RowWritten
<1>8. \A j \in Inputs \ {i} : RowPhase(j)' = RowPhase(j) /\ (Resumable(j)' => Resumable(j))
    BY <1>1, <1>3, <1>7, StaysInPhase DEF ResumedStays
<1>9. CarriersKept /\ CarriersStand(hist.submitted)'
    BY <1>3, <1>4, CarriageKeepsCarriers, CarriersByCarriage
<1>10. Carriers(i) = {} /\ \A v \in Inputs \ {i} : Carrier(v) # i
  <2>1. ASSUME NEW k \in Carriers(i) PROVE FALSE
      BY <1>1, <1>2, <2>1 DEF Carriers, Carries, PhaseInvariant, CarriersStand
  <2> QED
      BY <1>1, <2>1, CarrierIsRow
<1>11. \A v \in Inputs \ {i} : PhaseOf(v)' = PhaseOf(v)
    BY <1>4, <1>8, <1>9, <1>10, MessageStays DEF CarriersKept
<1>12. Carrier(i) = i
    BY <1>10 DEF Carrier
<1>13. /\ i \notin hist.accepted => PhaseOf(i) = "absent" /\ PhaseOf(i)' = "absent"
       /\ i \in hist.accepted =>
              PhaseOf(i) \in {"withdrawn", "waiting", "parked"} /\ PhaseOf(i)' = "withdrawn"
  <2>1. CASE i \notin hist.accepted
    <3>1. i \notin hist'.accepted
        BY <1>4, <2>1
    <3>2. PhaseOf(i) = "absent"
        BY <2>1 DEF PhaseOf
    <3>3. PhaseOf(i)' = "absent"
        BY <3>1 DEF PhaseOf
    <3> QED
        BY <2>1, <3>2, <3>3
  <2>2. CASE i \in hist.accepted
    <3>1. PhaseOf(i) \in {"withdrawn", RowPhase(i)}
        BY <1>12, <2>2 DEF PhaseOf
    <3>2. i \in hist'.accepted /\ i \in hist'.withdrawn
        BY <1>4, <2>2
    <3>3. PhaseOf(i)' = "withdrawn"
        BY <3>2 DEF PhaseOf
    <3> QED
        BY <1>6, <2>2, <3>1, <3>3
  <2> QED
      BY <2>1, <2>2
<1>14. [Contract!Next]_Phase
    BY <1>11, <1>13, StepOfMessage
<1>15. AnswerStanding(i)'
  <2>1. Resumable(i)' => Resumable(i)
      BY <1>1, <1>3 DEF Resumable, AnswersKept
  <2>2. AnswerStanding(i)
      OBVIOUS
  <2> QED
      BY <1>1, <1>3, <1>4, <1>6, <2>1, <2>2 DEF AnswerStanding, AnswersKept
<1>16. \A j \in Inputs : AnswerStanding(j)'
    BY <1>4, <1>7, <1>8, <1>15, AnswerStays
<1>17. hist'.accepted \cup hist'.withdrawn \subseteq 1 .. hist'.submitted
    BY <1>2, <1>4 DEF PhaseInvariant, Inputs
<1> QED
    BY <1>1, <1>9, <1>14, <1>16, <1>17 DEF PhaseStep, PhaseInvariant

\* A row moves to the other lane, with its own message.
LEMMA PromoteMovesRow ==
    ASSUME NEW d \in Databases, NEW i \in Inputs
    PROVE  LET e == Promote(d, i)
           IN  /\ AnswersKept(d, e)
               /\ e.mode[i] = "steer" /\ e.state[i] = d.state[i] /\ e.msgs[i] = d.msgs[i] \cup {i}
               /\ \A j \in Inputs \ {i} : /\ e.mode[j] = d.mode[j] /\ e.state[j] = d.state[j]
                                          /\ e.msgs[j] = d.msgs[j]
<1> DEFINE w == [WriteUserMessage(d, i, "pending", "unread") EXCEPT
                   !.mode[i] = "steer", !.msgs[i] = d.msgs[i] \cup {i}]
<1>1. w \in Databases /\ AnswersKept(d, w)
  <2>1. WriteUserMessage(d, i, "pending", "unread") \in Databases
      BY WriteUserMessageType DEF MessageStates, Receipts
  <2>2. d.msgs[i] \cup {i} \in SUBSET Inputs
      BY DEF Databases
  <2> QED
      BY <2>1, <2>2 DEF Databases, AnswersKept, WriteUserMessage
<1>2. Promote(d, i) = Resequence(w)
    BY DEF Promote
<1> HIDE DEF w
<1>3. AnswersKept(d, Promote(d, i))
    BY <1>1, <1>2, ResequenceKeepsCarriage DEF AnswersKept
<1>4. RowWritten(d, Promote(d, i), i, d.state[i], "steer")
    BY PromoteRows
<1>5. LinkWritten(d, Promote(d, i), i, d.msgs[i] \cup {i})
    BY PromoteEffect
<1> QED
    BY <1>3, <1>4, <1>5 DEF RowWritten, LinkWritten

LEMMA HandOffsStay ==
    ASSUME turn \in [Runs -> Turns], turn' = turn \/ turn' = HandOff
    PROVE  TurnsStay
BY DEF TurnsStay, HandOff, Turns

\* A queue row becomes a Steer row of its own.
LEMMA PromoteFinishStep ==
    ASSUME LaneSound, LaneSound', PhaseInvariant, PromoteFinish
    PROVE  PhaseStep
<1> USE PhaseFacts
<1>1. PICK i \in Inputs : i = call.item
    BY PhaseFacts DEF PromoteFinish, OwnershipInvariant, LaneKnowsItem
<1>2. Promoting(i)
    BY <1>1 DEF PromoteFinish, Promoting
<1>3. /\ db.state[i] = "claimed" /\ db.mode[i] = "queue" /\ i \notin Running
      /\ db.msgs[i] = {} /\ ~(i > hist.submitted)
    BY <1>2 DEF ClaimStanding, EmptyLink, Unsubmitted
<1> DEFINE back == Release(db, i, "pending")
<1>4. /\ back \in Databases /\ CarriageKept(db, back) /\ AnswersKept(db, back)
      /\ RowWritten(db, back, i, "pending", "queue") /\ back.msgs[i] = {}
  <2>1. back.msgs[i] = {}
      BY DEF Release, Databases
  <2> QED
      BY <1>3, <2>1, ReleaseType, RowsKeepCarriage, RowsOf DEF RowStates
<1>5. /\ db' \in {Promote(back, i), Promote(Materialize(back), i)}
      /\ turn' = turn \/ turn' = HandOff
      /\ pump'.held = pump.held \ {i} /\ SubmissionsKept
  <2>1. pump'.held = pump.held \ {i}
      BY <1>1, UnholdHolds, WakeupsKeepHolds DEF PromoteFinish
  <2> QED
      BY <1>1, <2>1 DEF PromoteFinish, Approve, SubmissionsKept, VisibleKept, Histories
<1> HIDE DEF back
<1>6. PICK d \in Databases : /\ db' = Promote(d, i) /\ CarriageKept(back, d) /\ AnswersKept(back, d)
                             /\ RowsKept(back, d) /\ d.msgs[i] = {}
  <2>1. CASE db' = Promote(back, i)
      BY <1>4, <2>1, CarriageOfItself DEF RowsKept
  <2>2. CASE db' = Promote(Materialize(back), i)
    <3>1. i \notin Unmaterialized(back)
        BY <1>4 DEF Unmaterialized, RowWritten
    <3>2. Materialize(back).msgs[i] = {}
        BY <1>4, <3>1, MaterializeStory DEF LinkWritten, Unmaterialized, QueueRows
    <3> QED
        BY <1>4, <2>2, <3>2, MaterializeType, MaterializeKeepsCarriage, MaterializeRows
  <2> QED
      BY <1>5, <2>1, <2>2
<1>7. CarriageKept(db, d) /\ AnswersKept(db, d)
    BY <1>4, <1>6, CarriageIsTransitive DEF AnswersKept
<1>8. /\ db'.mode[i] = "steer" /\ db'.state[i] = "pending" /\ db'.msgs[i] = {i}
      /\ AnswersKept(db, db')
      /\ \A j \in Inputs \ {i} : /\ db'.mode[j] = db.mode[j] /\ db'.state[j] = db.state[j]
                                 /\ db.mode[j] = "steer" => db'.msgs[j] = db.msgs[j]
  <2>1. d.state[i] = "pending" /\ \A j \in Inputs \ {i} : d.state[j] = db.state[j]
      BY <1>4, <1>6 DEF RowWritten, RowsKept
  <2> QED
      BY <1>6, <1>7, <2>1, PromoteMovesRow DEF CarriageKept, AnswersKept
<1>9. \A k, v \in Inputs : Carries(k, v)' <=> IF k = i THEN v = i ELSE Carries(k, v)
    BY <1>8 DEF Carries
<1>10. \A k \in Inputs : ~Carries(k, i) /\ ~Carries(i, k)
    BY <1>3 DEF Carries, PhaseInvariant, CarriersStand
<1>11. /\ \A v \in Inputs \ {i} : Carriers(v)' = Carriers(v) /\ Carrier(v) # i
       /\ Carrier(i) = i /\ Carrier(i)' = i
  <2>1. \A v \in Inputs \ {i} : Carriers(v)' = Carriers(v)
      BY <1>9, <1>10 DEF Carriers
  <2>2. Carriers(i) = {} /\ Carriers(i)' = {i}
      BY <1>9, <1>10 DEF Carriers
  <2>3. \A v \in Inputs \ {i} : Carrier(v) # i
      BY <1>3, CarrierIsRow
  <2> QED
      BY <2>1, <2>2, <2>3 DEF Carrier
<1>12. TurnsStay
    BY <1>5, HandOffsStay
<1>13. \A j \in Inputs \ {i} : RowStays(j)
    BY <1>5, <1>8, <1>12 DEF RowStays, AnswersKept, TurnsStay
<1>14. \A j \in Inputs : /\ Answering(j)' <=> Answering(j)
                         /\ Resumable(j)' <=> Resumable(j)
    BY <1>8, <1>12 DEF Answering, Resumable, Running, AnswersKept, TurnsStay
<1>15. \A j \in Inputs \ {i} : RowPhase(j)' = RowPhase(j)
  <2>1. ASSUME NEW j \in Inputs \ {i} PROVE RowPhase(j)' = RowPhase(j)
      BY <1>8, <1>13, <1>14 DEF RowPhase, RowStays
  <2> QED
      BY <2>1
<1>16. /\ ~Answering(i) /\ ~Resumable(i) /\ RowPhase(i) \in {"waiting", "parked"}
       /\ RowPhase(i)' = "waiting"
  <2>1. ~Answering(i) /\ ~Resumable(i) /\ RowPhase(i) \in {"waiting", "parked"}
      BY <1>3, WaitingPhase DEF ActiveStates
  <2>2. RowPhase(i)' = "waiting"
      BY <1>8, <1>14, <2>1 DEF RowPhase
  <2> QED
      BY <2>1, <2>2
<1>17. \A v \in Inputs \ {i} : PhaseOf(v)' = PhaseOf(v)
    BY <1>5, <1>11, <1>15, MessageStays DEF SubmissionsKept, VisibleKept
<1>18. \/ PhaseOf(i)' = PhaseOf(i)
       \/ PhaseOf(i) \in {"waiting", "parked"} /\ PhaseOf(i)' = "waiting"
  <2>1. RowPhase(Carrier(i))' = "waiting" /\ RowPhase(Carrier(i)) \in {"waiting", "parked"}
      BY <1>11, <1>16
  <2> QED
      BY <1>5, <2>1 DEF PhaseOf, SubmissionsKept, VisibleKept
<1>19. [Contract!Next]_Phase
    BY <1>17, <1>18, StepOfMessage
<1>20. CarriersStand(hist.submitted)'
  <2>1. ASSUME NEW k \in Inputs, NEW v \in Inputs, Carries(k, v)'
        PROVE  v <= hist'.submitted /\ (v # k => db'.state[v] = "none")
    <3>1. CASE k = i
        BY <1>3, <1>5, <1>9, <2>1, <3>1 DEF SubmissionsKept
    <3>2. CASE k # i
      <4>1. Carries(k, v)
          BY <1>9, <2>1, <3>2
      <4>2. v # i
          BY <1>10, <4>1
      <4> QED
          BY <1>5, <1>8, <4>1, <4>2 DEF SubmissionsKept, PhaseInvariant, CarriersStand
    <3> QED
        BY <3>1, <3>2
  <2> QED
      BY <2>1 DEF CarriersStand
<1>21. \A j \in Inputs : AnswerStanding(j)'
  <2>1. \A j \in Inputs \ {i} : AnswerStanding(j)'
      BY <1>5, <1>13, <1>14, AnswerStays DEF SubmissionsKept
  <2>2. AnswerStanding(i)'
      BY <1>5, <1>8, <1>12, <1>14, <1>16 DEF AnswerStanding, SubmissionsKept, AnswersKept, TurnsStay
  <2> QED
      BY <2>1, <2>2
<1>22. turn'[Resumed].stage # "none" => turn'[Resumed].answer \in Inputs
    BY <1>12 DEF TurnsStay, PhaseInvariant
<1>23. hist'.accepted \cup hist'.withdrawn \subseteq 1 .. hist'.submitted
    BY <1>5 DEF PhaseInvariant, SubmissionsKept, VisibleKept
<1> QED
    BY <1>19, <1>20, <1>21, <1>22, <1>23 DEF PhaseStep, PhaseInvariant

-----------------------------------------------------------------------------
(* New messages. *)

\* What is known of the next submission: no row, no answer, and nobody carries it.
LEMMA NextSubmission ==
    ASSUME LaneSound, LaneSound', PhaseInvariant, NEW u \in Inputs, u = hist.submitted + 1
    PROVE  /\ db.state[u] = "none" /\ turn[u].stage = "none" /\ u \notin pump.held
           /\ ~Answering(u) /\ ~Resumable(u) /\ db.aseq[u] = 0 /\ db.astatus[u] # "paused"
           /\ u \notin hist.accepted /\ u \notin hist.withdrawn
           /\ \A k \in Inputs : ~Carries(k, u) /\ ~Carries(u, k)
           /\ Carriers(u) = {} /\ \A v \in Inputs \ {u} : Carrier(v) # u
<1> USE PhaseFacts
<1>1. Unsubmitted(u) /\ u \notin Running /\ u > hist.submitted
    BY FreshRow DEF OwnershipInvariant
<1>2. db.state[u] = "none" /\ turn[u].stage = "none" /\ u \notin pump.held
    BY <1>1 DEF Unsubmitted
<1>3. db.aseq[u] = 0 /\ ~Resumable(u)
    BY <1>1 DEF AnswerStanding
<1>4. ~Answering(u) /\ db.astatus[u] # "paused"
    BY <1>1, <1>3 DEF Answering, Resumable, Running, PreStream, InStream
<1>5. u \notin hist.accepted /\ u \notin hist.withdrawn
    BY <1>1 DEF PhaseInvariant
<1>6. \A k \in Inputs : ~Carries(k, u) /\ ~Carries(u, k)
    BY <1>1, <1>2 DEF PhaseInvariant, CarriersStand, Carries
<1>7. Carriers(u) = {}
    BY <1>6 DEF Carriers
<1>8. \A v \in Inputs \ {u} : Carrier(v) # u
    BY <1>6, CarrierIsRow
<1> QED
    BY <1>2, <1>3, <1>4, <1>5, <1>6, <1>7, <1>8

\* No message is seen running when no row is answered.
LEMMA NobodySeenRunning ==
    ASSUME \A j \in Inputs : ~Answering(j)
    PROVE  Contract!In("running") = {}
<1>1. ASSUME NEW v \in Inputs, Phase[v] = "running" PROVE FALSE
    BY <1>1, PhaseOfVisible, CarrierIsRow, RowPhases
<1> QED
    BY <1>1 DEF Contract!In

\* A message is accepted, and carried by row c.
LEMMA AcceptedMessage ==
    ASSUME LaneSound, LaneSound', PhaseInvariant,
           NEW u \in Inputs, u = hist.submitted + 1, hist' = Submit(u),
           \A v \in Inputs \ {u} : Carriers(v)' = Carriers(v),
           \A j \in Inputs \ {u} : RowPhase(j)' = RowPhase(j),
           NEW c \in Inputs, Carrier(u)' = c,
           \/ RowPhase(c)' = "waiting"
           \/ RowPhase(c)' \in {"running", "parked"} /\ \A j \in Inputs : ~Answering(j)
    PROVE  [Contract!Next]_Phase
<1> USE PhaseFacts, NextSubmission
<1>1. hist'.accepted = hist.accepted \cup {u} /\ hist'.withdrawn = hist.withdrawn
    BY DEF Submit, Histories
<1>2. \A v \in Inputs \ {u} : PhaseOf(v)' = PhaseOf(v)
    BY <1>1, MessageStays
<1>3. PhaseOf(u) = "absent"
    BY DEF PhaseOf
<1>4. PhaseOf(u)' = RowPhase(c)'
  <2>1. u \in hist'.accepted /\ u \notin hist'.withdrawn
      BY <1>1
  <2>2. RowPhase(Carrier(u))' = RowPhase(c)'
      OBVIOUS
  <2> QED
      BY <2>1, <2>2 DEF PhaseOf
<1> QED
    BY <1>2, <1>3, <1>4, StepOfMessage, NobodySeenRunning

\* The invariant after a submission: the rows of the others stay.
LEMMA AcceptedStands ==
    ASSUME LaneSound, LaneSound', PhaseInvariant,
           NEW u \in Inputs, u = hist.submitted + 1, hist' = Submit(u),
           \A j \in Inputs \ {u} : RowStays(j),
           turn'[Resumed].stage = turn[Resumed].stage, turn'[Resumed].answer = turn[Resumed].answer,
           AnswerStanding(u)', CarriersStand(hist.submitted)'
    PROVE  PhaseInvariant'
<1> USE PhaseFacts
<1>1. /\ hist'.accepted = hist.accepted \cup {u} /\ hist'.withdrawn = hist.withdrawn
      /\ hist'.submitted = u
    BY DEF Submit, Histories
<1>2. hist'.accepted \cup hist'.withdrawn \subseteq 1 .. hist'.submitted
    BY <1>1 DEF PhaseInvariant, Inputs
<1>3. ASSUME NEW j \in Inputs \ {u} PROVE AnswerStanding(j)'
  <2>1. AnswerStanding(j) /\ RowStays(j)
      OBVIOUS
  <2>2. Resumable(j)' <=> Resumable(j)
      BY <2>1 DEF Resumable, RowStays
  <2>3. j > hist'.submitted => j > hist.submitted
      BY <1>1
  <2> QED
      BY <2>1, <2>2, <2>3 DEF AnswerStanding, RowStays
<1>4. turn'[Resumed].stage # "none" => turn'[Resumed].answer \in Inputs
    BY DEF PhaseInvariant
<1> QED
    BY <1>2, <1>3, <1>4 DEF PhaseInvariant

-----------------------------------------------------------------------------
(* Launches. *)

\* Row i is launched from database d: it runs, or, when the turn cannot be initialised,
\* a steer row shows the error as its answer and a queue row is parked.
LEMMA LaunchedRow ==
    ASSUME LaneSound, LaneSound', PhaseInvariant, NEW d \in Databases, NEW i \in Inputs,
           NEW source \in {"send", "queue", "steer"}, Launch(d, i, source),
           d.state[i] = "claimed", source = "steer" <=> d.mode[i] = "steer",
           d.astatus[i] # "paused", i \notin pump.held, Running = {}, ~HasInteraction(db)
    PROVE  /\ CarriageKept(d, db') /\ pump'.held = pump.held
           /\ \A j \in Inputs \ {i} : /\ db'.state[j] = d.state[j] /\ db'.aseq[j] = d.aseq[j]
                                      /\ db'.astatus[j] = d.astatus[j]
           /\ db'.aseq[i] = d.aseq[i]
           /\ \A r \in Runs \ {i} : turn'[r] = turn[r]
           /\ turn'[i].answer = i /\ turn'[i].stage \in {"preparing", "factual", "finishing"}
           /\ turn'[i].source = source
           /\ ~Resumable(i)'
           /\ RowPhase(i)' \in {"running", "answered", "parked"}
           /\ source # "steer" => RowPhase(i)' \in {"running", "parked"}
<1> USE PhaseFacts
<1>1. /\ pump'.held = pump.held
      /\ \A r \in Runs \ {i} : turn'[r] = turn[r]
      /\ turn'[i].answer = i /\ turn'[i].stage \in {"preparing", "factual", "finishing"}
      /\ turn'[i].source = source
    BY DEF Launch, Pumps
<1>2. turn[Resumed].stage = "none" /\ turn'[Resumed].stage = "none"
    BY <1>1, RestedAnswers
<1>3. CASE db' = d /\ turn'[i].stage # "finishing"
  <2>1. (i \in Running)'
      BY <1>1, <1>3 DEF Running, PreStream
  <2>2. RowPhase(i)' = "running"
      BY <2>1 DEF RowPhase, Answering
  <2>3. ~Resumable(i)'
      BY <1>2, <1>3 DEF Resumable
  <2> QED
      BY <1>1, <1>3, <2>2, <2>3, CarriageOfItself
<1>4. ASSUME turn'[i].stage = "finishing", db'.astatus[i] # "paused"
      PROVE  ~Answering(i)' /\ ~Resumable(i)'
  <2>1. ~(i \in Running)' /\ ~(Resumed \in Running)'
      BY <1>2, <1>4 DEF Running, PreStream, InStream
  <2> QED
      BY <1>2, <1>4, <2>1 DEF Answering, Resumable
<1>5. CASE source = "steer" /\ db' = Consume(SetAssistant(d, i, "error"), i)
           /\ turn'[i].stage = "finishing"
  <2> DEFINE w == SetAssistant(d, i, "error")
  <2>1. /\ w \in Databases /\ CarriageKept(d, w) /\ RowsKept(d, w)
        /\ AnswerWritten(d, w, i, d.aseq[i], IF d.aseq[i] = 0 THEN d.astatus[i] ELSE "error")
      BY SetAssistantType, AnswersKeepCarriage, MessagesRows DEF AssistantStates
  <2>2. w.state[i] = "claimed" /\ w.mode[i] = "steer"
      BY <1>5, <2>1 DEF RowsKept
  <2> HIDE DEF w
  <2>3. CarriageKept(w, db') /\ AnswersKept(w, db') /\ RowWritten(w, db', i, "consumed", "steer")
      BY <1>5, <2>1, <2>2, ConsumeKeepsCarriage, ConsumeRows DEF w
  <2>4. /\ CarriageKept(d, db') /\ db'.state[i] = "consumed" /\ db'.astatus[i] # "paused"
        /\ db'.aseq[i] = d.aseq[i]
        /\ \A j \in Inputs \ {i} : /\ db'.state[j] = d.state[j] /\ db'.aseq[j] = d.aseq[j]
                                   /\ db'.astatus[j] = d.astatus[j]
      BY <2>1, <2>3, CarriageIsTransitive DEF AnswersKept, AnswerWritten, RowWritten, RowsKept
  <2>5. RowPhase(i)' = "answered"
      BY <1>4, <1>5, <2>4 DEF RowPhase
  <2> QED
      BY <1>1, <1>4, <1>5, <2>4, <2>5
<1>6. CASE source # "steer" /\ db' = Release(d, i, "retry_required") /\ turn'[i].stage = "finishing"
  <2>1. d.mode[i] = "queue"
      BY <1>6 DEF Databases
  <2>2. /\ CarriageKept(d, db') /\ AnswersKept(d, db')
        /\ RowWritten(d, db', i, "retry_required", "queue")
      BY <1>6, <2>1, RowsKeepCarriage, RowsOf
  <2>3. db'.state[i] = "retry_required" /\ db'.astatus[i] # "paused"
      BY <2>2 DEF RowWritten, AnswersKept
  <2>4. RowPhase(i)' = "parked"
      BY <1>4, <1>6, <2>3 DEF RowPhase
  <2> QED
      BY <1>1, <1>4, <1>6, <2>2, <2>3, <2>4 DEF RowWritten, AnswersKept
<1> QED
  <2>1. \/ db' = d /\ turn'[i].stage # "finishing"
        \/ /\ db' = IF source = "steer" THEN Consume(SetAssistant(d, i, "error"), i)
                    ELSE Release(d, i, "retry_required")
           /\ turn'[i].stage = "finishing"
      BY DEF Launch
  <2> QED
      BY <1>3, <1>5, <1>6, <2>1

\* The pump launches the next input.
LEMMA DrainLaunchStep ==
    ASSUME LaneSound, LaneSound', PhaseInvariant, NEW i \in Inputs, DrainLaunch(i)
    PROVE  PhaseStep
<1> USE PhaseFacts
<1> DEFINE d == Claim(db, i)
           source == IF db.mode[i] = "steer" THEN "steer" ELSE "queue"
<1>1. /\ i \in NextInput(db)
      /\ db.mode[i] = "queue" => i \notin pump.held
      /\ Launch(d, i, source) /\ UNCHANGED hist /\ ~HasInteraction(db)
    BY DEF DrainLaunch, Drainable, DrainReady
<1>2. Running = {}
    BY IdleHasNoRun DEF DrainLaunch, DrainReady, OwnershipInvariant, Alone
<1>3. db.state[i] = "pending"
    BY <1>1 DEF NextInput, NextSteer, NextQueue
<1>4. i \notin pump.held /\ db.state[i] \in ActiveStates /\ db.state[i] # "none"
      /\ i \notin Running /\ ~(i > hist.submitted)
    BY <1>1, <1>2, <1>3 DEF ReplayStanding, ActiveStates, WaitingStates, ClaimStanding, Unsubmitted
<1>5. RowPhase(i) = "waiting" /\ ~Answering(i)
    BY <1>3, <1>4, WaitingPhase
<1>6. /\ d \in Databases /\ CarriageKept(db, d) /\ RowWritten(db, d, i, "claimed", db.mode[i])
      /\ \A j \in Inputs \ {i} : d.aseq[j] = db.aseq[j] /\ d.astatus[j] = db.astatus[j]
      /\ d.astatus[i] # "paused"
      /\ db.mode[i] = "steer" => d.aseq[i] > 0
  <2>1. d \in Databases /\ CarriageKept(db, d) /\ RowWritten(db, d, i, "claimed", db.mode[i])
      BY <1>4, ClaimType, ClaimKeepsCarriage, ClaimRows
  <2>2. db.tail \in Nat
      BY DEF Databases
  <2>3. CASE db.mode[i] = "queue"
      BY <1>1, <1>4, <2>1, <2>3, ClaimKeepsCarriage DEF AnswersKept, HasInteraction
  <2>4. CASE db.mode[i] = "steer"
      BY <1>4, <2>1, <2>2, <2>4, ClaimKeepsCarriage DEF AnswerWritten
  <2> QED
      BY <2>1, <2>3, <2>4
<1>7. d.state[i] = "claimed" /\ (source = "steer" <=> d.mode[i] = "steer")
      /\ source \in {"send", "queue", "steer"}
    BY <1>6 DEF RowWritten
<1> HIDE DEF d
<1>8. /\ CarriageKept(d, db') /\ pump'.held = pump.held
      /\ \A j \in Inputs \ {i} : /\ db'.state[j] = d.state[j] /\ db'.aseq[j] = d.aseq[j]
                                 /\ db'.astatus[j] = d.astatus[j]
      /\ db'.aseq[i] = d.aseq[i]
      /\ \A r \in Runs \ {i} : turn'[r] = turn[r]
      /\ turn'[i].answer = i /\ turn'[i].stage \in {"preparing", "factual", "finishing"}
      /\ turn'[i].source = source
      /\ ~Resumable(i)'
      /\ RowPhase(i)' \in {"running", "answered", "parked"}
  <2> HIDE DEF source
  <2> QED
      BY <1>1, <1>2, <1>4, <1>6, <1>7, LaunchedRow
<1>9. CarriageKept(db, db')
    BY <1>6, <1>8, CarriageIsTransitive
<1>10. \A j \in Inputs \ {i} : RowStays(j)
    BY <1>6, <1>8 DEF RowStays, RowWritten
<1>11. ResumedStays(i)
    BY <1>8 DEF ResumedStays
<1>12. AnswerStanding(i)'
    BY <1>1, <1>4, <1>6, <1>8 DEF AnswerStanding, InStream
<1>13. NobodyElseAnswers(i)
    BY <1>1, <1>2, RestedAnswers DEF NobodyElseAnswers
<1> QED
    BY <1>1, <1>5, <1>8, <1>9, <1>10, <1>11, <1>12, <1>13, RowStep DEF SubmissionsKept, VisibleKept

\* A row of the queue lane is put in for the next submission.
LEMMA EnqueuedRow ==
    ASSUME LaneSound, LaneSound', PhaseInvariant, NEW u \in Inputs, u = hist.submitted + 1,
           NEW s \in {"pending", "claimed"}
    PROVE  LET d == Enqueue(db, u, s)
           IN  /\ d \in Databases /\ AnswersKept(db, d) /\ RowWritten(db, d, u, s, "queue")
               /\ \A j \in Inputs \ {u} : d.msgs[j] = db.msgs[j]
<1> USE PhaseFacts
<1>1. /\ Enqueue(db, u, s) \in Databases /\ RowWritten(db, Enqueue(db, u, s), u, s, "queue")
      /\ LinkWritten(db, Enqueue(db, u, s), u, {})
    BY EnqueueType, RowsOf, RowsLeaveMessages DEF RowStates
<1>2. AnswersKept(db, Enqueue(db, u, s))
    BY DEF AnswersKept, Enqueue
<1> QED
    BY <1>1, <1>2 DEF LinkWritten

\* The carriers stay when the next submission gets a row of the queue.
LEMMA QueuedCarriers ==
    ASSUME LaneSound, LaneSound', PhaseInvariant, NEW u \in Inputs, u = hist.submitted + 1,
           hist'.submitted = u, db'.mode[u] = "queue",
           \A j \in Inputs \ {u} :
               /\ db'.mode[j] = db.mode[j]
               /\ db.state[j] = "none" => db'.state[j] = "none"
               /\ db.mode[j] = "steer" =>
                     db'.msgs[j] = db.msgs[j] /\ (db'.state[j] = "none" <=> db.state[j] = "none")
    PROVE  CarriersKept /\ CarriersStand(hist.submitted)'
<1> USE PhaseFacts, NextSubmission
<1>1. \A k, v \in Inputs : Carries(k, v)' <=> Carries(k, v)
  <2>1. ASSUME NEW k \in Inputs, NEW v \in Inputs PROVE Carries(k, v)' <=> Carries(k, v)
    <3>1. CASE k = u
        BY <3>1 DEF Carries
    <3>2. CASE k # u
        BY <3>2 DEF Carries
    <3> QED
        BY <3>1, <3>2
  <2> QED
      BY <2>1
<1>2. CarriersKept
  <2>1. ASSUME NEW v \in Inputs PROVE Carriers(v)' = Carriers(v)
      BY <1>1 DEF Carriers
  <2> QED
      BY <2>1 DEF CarriersKept
<1>3. ASSUME NEW k \in Inputs, NEW v \in Inputs, Carries(k, v)'
      PROVE  v <= hist'.submitted /\ (v # k => db'.state[v] = "none")
  <2>1. Carries(k, v) /\ v # u
      BY <1>1, <1>3
  <2>2. v <= hist.submitted /\ (v # k => db.state[v] = "none")
      BY <2>1 DEF PhaseInvariant, CarriersStand
  <2> QED
      BY <2>1, <2>2
<1> QED
    BY <1>2, <1>3 DEF CarriersStand

\* A message is submitted to the queue.
LEMMA QueueStep ==
    ASSUME LaneSound, LaneSound', PhaseInvariant, NEW u \in Inputs, NEW src \in {"send", "queue"},
           Queue(u, src)
    PROVE  PhaseStep
<1> USE PhaseFacts
<1>1. u = hist.submitted + 1 /\ hist' = Submit(u) /\ hist'.submitted = u
    BY DEF Queue, Submit, Histories
<1>2. /\ db.state[u] = "none" /\ u \notin pump.held /\ ~Answering(u) /\ ~Resumable(u)
      /\ db.aseq[u] = 0 /\ db.astatus[u] # "paused" /\ turn[u].stage = "none" /\ Carriers(u) = {}
    BY <1>1, NextSubmission
<1>3. ASSUME db'.mode[u] = "queue", ~Resumable(u)', AnswerStanding(u)',
             \/ RowPhase(u)' = "waiting"
             \/ RowPhase(u)' \in {"running", "parked"} /\ \A j \in Inputs : ~Answering(j),
             turn'[Resumed].stage = turn[Resumed].stage, turn'[Resumed].answer = turn[Resumed].answer,
             \A j \in Inputs \ {u} : RowStays(j) /\ db'.mode[j] = db.mode[j]
                                     /\ (db.mode[j] = "steer" => db'.msgs[j] = db.msgs[j])
      PROVE  PhaseStep
  <2>1. CarriersKept /\ CarriersStand(hist.submitted)'
      BY <1>1, <1>3, QueuedCarriers DEF RowStays
  <2>2. Carrier(u)' = u
      BY <1>2, <2>1 DEF Carrier, CarriersKept
  <2>3. ASSUME NEW j \in Inputs \ {u} PROVE RowPhase(j)' = RowPhase(j)
    <3>1. Answering(j)' <=> Answering(j)
        BY <1>3 DEF Answering, RowStays, Running, PreStream, InStream
    <3> QED
        BY <1>3, <3>1 DEF RowPhase, RowStays
  <2>4. [Contract!Next]_Phase
    <3>1. PICK c \in Inputs : c = u
        OBVIOUS
    <3>2. Carrier(u)' = c /\ RowPhase(c)' = RowPhase(u)'
        BY <2>2, <3>1
    <3> QED
        BY <1>1, <1>3, <2>1, <2>3, <3>2, AcceptedMessage DEF CarriersKept
  <2>5. PhaseInvariant'
      BY <1>1, <1>3, <2>1, AcceptedStands
  <2> QED
      BY <2>4, <2>5 DEF PhaseStep
<1>4. CASE Claimable(src) /\ Launch(Enqueue(db, u, "claimed"), u, src)
  <2> DEFINE d == Enqueue(db, u, "claimed")
  <2>1. /\ d \in Databases /\ AnswersKept(db, d) /\ RowWritten(db, d, u, "claimed", "queue")
        /\ \A j \in Inputs \ {u} : d.msgs[j] = db.msgs[j]
      BY <1>1, EnqueuedRow
  <2>2. Launch(d, u, src)
      BY <1>4
  <2> HIDE DEF d
  <2>3. d.state[u] = "claimed" /\ d.mode[u] = "queue" /\ d.astatus[u] # "paused" /\ src # "steer"
      BY <1>2, <2>1 DEF RowWritten, AnswersKept
  <2>4. Running = {} /\ ~HasInteraction(db)
      BY <1>4, IdleHasNoRun DEF Claimable, OwnershipInvariant, Alone
  <2>5. /\ CarriageKept(d, db') /\ pump'.held = pump.held
        /\ \A j \in Inputs \ {u} : /\ db'.state[j] = d.state[j] /\ db'.aseq[j] = d.aseq[j]
                                   /\ db'.astatus[j] = d.astatus[j]
        /\ db'.aseq[u] = d.aseq[u]
        /\ \A r \in Runs \ {u} : turn'[r] = turn[r]
        /\ turn'[u].answer = u /\ turn'[u].stage \in {"preparing", "factual", "finishing"}
        /\ turn'[u].source = src
        /\ ~Resumable(u)'
        /\ RowPhase(u)' \in {"running", "parked"}
      BY <1>2, <2>1, <2>2, <2>3, <2>4, LaunchedRow
  <2>6. \A j \in Inputs \ {u} : /\ RowStays(j) /\ db'.mode[j] = db.mode[j]
                                /\ db.mode[j] = "steer" => db'.msgs[j] = db.msgs[j]
      BY <2>1, <2>5 DEF RowStays, RowWritten, AnswersKept, CarriageKept
  <2>7. db'.mode[u] = "queue"
      BY <2>3, <2>5 DEF CarriageKept
  <2>8. AnswerStanding(u)'
      BY <1>1, <1>2, <2>1, <2>3, <2>5 DEF AnswerStanding, InStream, AnswersKept
  <2>9. \A j \in Inputs : ~Answering(j)
      BY <2>4, RestedAnswers
  <2> QED
      BY <1>3, <2>5, <2>6, <2>7, <2>8, <2>9
<1>5. CASE /\ db' = Enqueue(db, u, "pending") /\ pump' = Schedule(pump, turn, inst.status, "enqueue")
           /\ turn' = turn
  <2>1. /\ AnswersKept(db, db') /\ RowWritten(db, db', u, "pending", "queue")
        /\ \A j \in Inputs \ {u} : db'.msgs[j] = db.msgs[j]
      BY <1>1, <1>5, EnqueuedRow
  <2>2. pump'.held = pump.held
      BY <1>5, WakeupsKeepHolds
  <2>3. \A j \in Inputs \ {u} : RowStays(j) /\ db'.mode[j] = db.mode[j]
      BY <1>5, <2>1, <2>2 DEF RowStays, RowWritten, AnswersKept
  <2>4. ~Answering(u)' /\ ~Resumable(u)'
      BY <1>2, <1>5, <2>1 DEF Answering, Resumable, Running, AnswersKept
  <2>5. db'.state[u] = "pending" /\ db'.mode[u] = "queue"
      BY <2>1 DEF RowWritten
  <2>6. RowPhase(u)' = "waiting"
      BY <1>2, <2>2, <2>4, <2>5 DEF RowPhase
  <2>7. AnswerStanding(u)'
      BY <1>1, <1>2, <1>5, <2>1, <2>4 DEF AnswerStanding, AnswersKept, InStream
  <2> QED
      BY <1>3, <1>5, <2>1, <2>3, <2>4, <2>5, <2>6, <2>7
<1> QED
    BY <1>4, <1>5 DEF Queue

\* A steer message is carried by row c, the open one or its own.
LEMMA SteeredCarriers ==
    ASSUME LaneSound, LaneSound', PhaseInvariant, NEW u \in Inputs, u = hist.submitted + 1,
           hist'.submitted = u, NEW c \in Inputs, c # u => db'.state[u] = "none",
           \A j \in Inputs \ {u} : db'.state[j] = db.state[j],
           \A k, v \in Inputs : Carries(k, v)' <=> (Carries(k, v) \/ (k = c /\ v = u))
    PROVE  /\ \A v \in Inputs \ {u} : Carriers(v)' = Carriers(v)
           /\ Carrier(u)' = c /\ CarriersStand(hist.submitted)'
<1> USE PhaseFacts, NextSubmission
<1>1. ASSUME NEW v \in Inputs \ {u} PROVE Carriers(v)' = Carriers(v)
    BY DEF Carriers
<1>2. Carriers(u)' = {c}
    BY DEF Carriers
<1>3. Carrier(u)' = c
    BY <1>2 DEF Carrier
<1>4. ASSUME NEW k \in Inputs, NEW v \in Inputs, Carries(k, v)'
      PROVE  v <= hist'.submitted /\ (v # k => db'.state[v] = "none")
  <2>1. CASE k = c /\ v = u
      BY <2>1
  <2>2. CASE Carries(k, v)
    <3>1. v # u /\ v <= hist.submitted /\ (v # k => db.state[v] = "none")
        BY <2>2 DEF PhaseInvariant, CarriersStand
    <3> QED
        BY <3>1
  <2> QED
      BY <1>4, <2>1, <2>2
<1> QED
    BY <1>1, <1>3, <1>4 DEF CarriersStand

\* A visible steer message is accepted.
LEMMA AcceptVisibleSteerStep ==
    ASSUME LaneSound, LaneSound', PhaseInvariant, NEW u \in Inputs, u = hist.submitted + 1,
           NEW seen, AcceptVisibleSteer(u, seen)
    PROVE  PhaseStep
<1> USE PhaseFacts
<1>1. hist' = Submit(u) /\ hist'.submitted = u
    BY DEF AcceptVisibleSteer, Submit, Histories
<1>2. /\ db.state[u] = "none" /\ u \notin pump.held /\ ~Answering(u) /\ ~Resumable(u)
      /\ db.aseq[u] = 0 /\ turn[u].stage = "none" /\ \A k \in Inputs : ~Carries(k, u) /\ ~Carries(u, k)
    BY NextSubmission
<1>3. /\ db' \in {AcceptSteer(db, u, inst.openSteer), AcceptSteer(Materialize(db), u, inst.openSteer)}
      /\ turn' = turn \/ turn' = HandOff
      /\ pump'.held = pump.held
  <2>1. pump' \in {pump, Schedule(pump, turn, inst.status, "enqueue"), Request(pump, turn, inst.status)}
      BY DEF AcceptVisibleSteer
  <2>2. pump'.held = pump.held
      BY <2>1, WakeupsKeepHolds
  <2> QED
      BY <2>2 DEF AcceptVisibleSteer
<1>4. PICK d \in Databases : /\ db' = AcceptSteer(d, u, inst.openSteer) /\ RowsKept(db, d)
                             /\ CarriageKept(db, d) /\ AnswersKept(db, d)
    BY <1>3, MaterializeType, MaterializeKeepsCarriage, MaterializeRows, CarriageOfItself DEF RowsKept
<1>5. TurnsStay
    BY <1>3, HandOffsStay
<1>6. AnswersKept(db, db')
  <2>1. AnswersKept(d, AcceptSteer(d, u, inst.openSteer))
      BY DEF AnswersKept, AcceptSteer, WriteUserMessage
  <2> QED
      BY <1>4, <2>1 DEF AnswersKept
<1>7. PICK c \in Inputs :
            /\ db'.state[c] = "pending" /\ db'.mode[c] = "steer"
            /\ \A j \in Inputs \ {u} : db'.state[j] = db.state[j] /\ db'.mode[j] = db.mode[j]
            /\ c # u => db'.state[u] = "none" /\ db.state[c] = "pending" /\ db.mode[c] = "steer"
            /\ \A j \in Inputs \ {c} : db'.msgs[j] = d.msgs[j]
            /\ c # u => db'.msgs[c] = d.msgs[c] \cup {u}
            /\ c = u => db'.msgs[c] = {u}
  <2>1. CASE IsOpenSteer(d, inst.openSteer)
    <3>1. PICK o \in Inputs : o = inst.openSteer /\ d.mode[o] = "steer" /\ d.state[o] = "pending"
        BY <2>1 DEF IsOpenSteer
    <3>2. RowsKept(d, db') /\ LinkWritten(d, db', o, d.msgs[o] \cup {u})
        BY <1>4, <2>1, <3>1, AcceptSteerEffect
    <3>3. o # u
        BY <1>2, <1>4, <3>1 DEF RowsKept
    <3>4. db'.state = db.state /\ db'.mode = db.mode
        BY <1>4, <3>2 DEF RowsKept
    <3>5. db.state[o] = "pending" /\ db.mode[o] = "steer"
        BY <1>4, <3>1 DEF RowsKept
    <3>6. WITNESS o \in Inputs
    <3> QED
        BY <1>2, <3>2, <3>3, <3>4, <3>5 DEF LinkWritten
  <2>2. CASE ~IsOpenSteer(d, inst.openSteer)
    <3>1. RowWritten(d, db', u, "pending", "steer") /\ LinkWritten(d, db', u, {u})
        BY <1>4, <2>2, AcceptSteerEffect
    <3>2. WITNESS u \in Inputs
    <3> QED
        BY <1>4, <3>1 DEF RowsKept, RowWritten, LinkWritten
  <2> QED
      BY <2>1, <2>2
<1>8. \A k, v \in Inputs : Carries(k, v)' <=> (Carries(k, v) \/ (k = c /\ v = u))
  <2>1. ASSUME NEW k \in Inputs, NEW v \in Inputs
        PROVE  Carries(k, v)' <=> (Carries(k, v) \/ (k = c /\ v = u))
    <3>1. CASE k = c /\ c = u
        BY <1>2, <1>7, <3>1 DEF Carries
    <3>2. CASE k = c /\ c # u
        BY <1>4, <1>7, <3>2 DEF Carries, CarriageKept
    <3>3. CASE k # c /\ k # u
        BY <1>4, <1>7, <3>3 DEF Carries, CarriageKept
    <3>4. CASE k # c /\ k = u
        BY <1>2, <1>7, <3>4 DEF Carries
    <3> QED
        BY <3>1, <3>2, <3>3, <3>4
  <2> QED
      BY <2>1
<1>9. /\ \A v \in Inputs \ {u} : Carriers(v)' = Carriers(v)
      /\ Carrier(u)' = c /\ CarriersStand(hist.submitted)'
  <2>1. /\ c # u => db'.state[u] = "none"
        /\ \A j \in Inputs \ {u} : db'.state[j] = db.state[j]
        /\ hist'.submitted = u
      BY <1>1, <1>7
  <2> QED
      BY <1>8, <2>1, SteeredCarriers
<1>10. \A j \in Inputs : /\ Answering(j)' <=> Answering(j)
                         /\ Resumable(j)' <=> Resumable(j)
    BY <1>5, <1>6 DEF Answering, Resumable, Running, AnswersKept, TurnsStay
<1>11. \A j \in Inputs \ {u} : RowStays(j) /\ RowPhase(j)' = RowPhase(j)
  <2>1. ASSUME NEW j \in Inputs \ {u} PROVE RowStays(j) /\ RowPhase(j)' = RowPhase(j)
    <3>1. RowStays(j)
        BY <1>3, <1>5, <1>6, <1>7 DEF RowStays, TurnsStay, AnswersKept
    <3> QED
        BY <1>7, <1>10, <3>1 DEF RowPhase, RowStays
  <2> QED
      BY <2>1
<1>12. RowPhase(c)' = "waiting"
  <2>1. ~Answering(c)
    <3>1. CASE c = u
        BY <1>2, <3>1
    <3>2. CASE c # u
      <4>1. db.state[c] \in WaitingStates /\ db.state[c] \in ActiveStates
          BY <1>7, <3>2 DEF WaitingStates, ActiveStates
      <4>2. c \notin Running
          BY <1>7, <4>1, WaitingRow DEF OwnershipInvariant
      <4> QED
          BY <1>7, <4>1, <4>2, WaitingPhase
    <3> QED
        BY <3>1, <3>2
  <2>2. ~Answering(c)'
    <3>1. PICK k \in Inputs : k = c
        BY <1>7
    <3> QED
        BY <1>10, <2>1, <3>1
  <2> QED
      BY <1>7, <2>2 DEF RowPhase
<1>13. [Contract!Next]_Phase
    BY <1>1, <1>7, <1>9, <1>11, <1>12, AcceptedMessage
<1>14. AnswerStanding(u)'
    BY <1>1, <1>2, <1>5, <1>6, <1>10 DEF AnswerStanding, TurnsStay, AnswersKept, InStream
<1>15. PhaseInvariant'
    BY <1>1, <1>5, <1>9, <1>11, <1>14, AcceptedStands DEF TurnsStay
<1> QED
    BY <1>13, <1>15 DEF PhaseStep

LEMMA SteerSteps ==
    ASSUME LaneSound, LaneSound', PhaseInvariant, (\E u \in Inputs : SteerText(u)) \/ SteerAccept
    PROVE  PhaseStep
<1>1. CASE SteerAccept
  <2>1. PICK u \in Inputs : u = call.item
      BY <1>1 DEF SteerAccept, LaneSound, OwnershipInvariant, LaneKnowsItem
  <2>2. u = hist.submitted + 1
      BY <1>1, <2>1 DEF SteerAccept, LaneSound, ClaimInvariant, SteerCallKept
  <2> QED
      BY <1>1, <2>1, <2>2, AcceptVisibleSteerStep DEF SteerAccept
<1> QED
    BY <1>1, AcceptVisibleSteerStep DEF SteerText

-----------------------------------------------------------------------------
(* What a run writes. *)

\* Run r writes the state of its own row only; it may delete the answers of others, but
\* it starts and opens none.
RunWrites(d, e, r) ==
    /\ CarriageKept(d, e)
    /\ \A j \in Inputs \ {r} : /\ e.state[j] = d.state[j]
                               /\ e.aseq[j] \in {0, d.aseq[j]}
                               /\ e.astatus[j] \in {"none", d.astatus[j]}

\* Nor does it open an interaction of its own.
QuietWrites(d, e, r) == RunWrites(d, e, r) /\ (e.astatus[r] = "paused" => d.astatus[r] = "paused")

LEMMA WritesAreTransitive ==
    ASSUME NEW d, NEW e, NEW f, NEW r, RunWrites(d, e, r), RunWrites(e, f, r)
    PROVE  RunWrites(d, f, r) /\ (QuietWrites(d, e, r) /\ QuietWrites(e, f, r) => QuietWrites(d, f, r))
<1>1. CarriageKept(d, f)
    BY CarriageIsTransitive DEF RunWrites
<1> QED
    BY <1>1 DEF RunWrites, QuietWrites

LEMMA KeptWrites ==
    ASSUME NEW d, NEW e, NEW r, CarriageKept(d, e), AnswersKept(d, e),
           \A j \in Inputs \ {r} : e.state[j] = d.state[j]
    PROVE  QuietWrites(d, e, r)
BY DEF QuietWrites, RunWrites, AnswersKept

LEMMA StateWrites ==
    ASSUME NEW d \in Databases, NEW r \in Inputs, NEW s, d.state[r] # "none", s # "none"
    PROVE  /\ QuietWrites(d, SetState(d, r, s), r)
           /\ d.mode[r] = "queue" => QuietWrites(d, Release(d, r, s), r)
           /\ QuietWrites(d, Consume(d, r), r)
<1>1. /\ RowWritten(d, SetState(d, r, s), r, s, d.mode[r])
      /\ RowWritten(d, Release(d, r, s), r, s, d.mode[r])
      /\ RowWritten(d, Consume(d, r), r, IF d.mode[r] = "steer" THEN "consumed" ELSE "none", d.mode[r])
    BY RowsOf, ConsumeRows
<1>2. QuietWrites(d, SetState(d, r, s), r)
    BY <1>1, KeptWrites, RowsKeepCarriage DEF RowWritten
<1>3. d.mode[r] = "queue" => QuietWrites(d, Release(d, r, s), r)
    BY <1>1, KeptWrites, RowsKeepCarriage DEF RowWritten
<1>4. QuietWrites(d, Consume(d, r), r)
    BY <1>1, KeptWrites, ConsumeKeepsCarriage DEF RowWritten
<1> QED
    BY <1>2, <1>3, <1>4

LEMMA AnswerWrites ==
    ASSUME NEW d \in Databases, NEW r \in Inputs, NEW s \in AssistantStates
    PROVE  /\ QuietWrites(d, d, r)
           /\ QuietWrites(d, WriteAssistant(d, r), r) /\ WriteAssistant(d, r).aseq[r] > 0
           /\ QuietWrites(d, DeleteAssistant(d, r), r)
           /\ RunWrites(d, SetAssistant(d, r, s), r) /\ SetAssistant(d, r, s).aseq[r] = d.aseq[r]
           /\ s # "paused" => QuietWrites(d, SetAssistant(d, r, s), r)
           /\ d.mode[r] = "queue" => QuietWrites(d, AppendUserFact(d, r), r)
           /\ QuietWrites(d, Rollback(d, r), r)
<1>1. QuietWrites(d, d, r)
    BY KeptWrites, CarriageOfItself
<1>2. d.tail \in Nat
    BY DEF Databases
<1>3. QuietWrites(d, WriteAssistant(d, r), r) /\ WriteAssistant(d, r).aseq[r] > 0
    BY <1>2, AnswersKeepCarriage, MessagesRows DEF QuietWrites, RunWrites, AnswerWritten, RowsKept
<1>4. QuietWrites(d, DeleteAssistant(d, r), r)
    BY AnswersKeepCarriage, MessagesRows DEF QuietWrites, RunWrites, AnswerWritten, RowsKept
<1>5. /\ RunWrites(d, SetAssistant(d, r, s), r) /\ SetAssistant(d, r, s).aseq[r] = d.aseq[r]
      /\ s # "paused" => QuietWrites(d, SetAssistant(d, r, s), r)
  <2> DEFINE e == SetAssistant(d, r, s)
             t == IF d.aseq[r] = 0 THEN d.astatus[r] ELSE s
  <2>1. CarriageKept(d, e) /\ AnswerWritten(d, e, r, d.aseq[r], t) /\ RowsKept(d, e)
      BY AnswersKeepCarriage, MessagesRows
  <2>2. t \in {d.astatus[r], s}
      OBVIOUS
  <2> HIDE DEF e, t
  <2>3. RunWrites(d, e, r) /\ e.aseq[r] = d.aseq[r] /\ (s # "paused" => QuietWrites(d, e, r))
      BY <2>1, <2>2 DEF QuietWrites, RunWrites, AnswerWritten, RowsKept
  <2> QED
      BY <2>3 DEF e
<1>6. d.mode[r] = "queue" => QuietWrites(d, AppendUserFact(d, r), r)
    BY KeptWrites, MessagesKeepCarriage, MessagesRows DEF RowsKept
<1>7. QuietWrites(d, Rollback(d, r), r)
    BY RollbackKeepsCarriage, MessagesRows DEF QuietWrites, RunWrites, RowsKept
<1> QED
    BY <1>1, <1>3, <1>4, <1>5, <1>6, <1>7

\* The run under way: its row is seen running, and nobody else is answered.
LEMMA RunFacts ==
    ASSUME LaneSound, LaneSound', PhaseInvariant, NEW r \in Inputs, r \in Running
    PROVE  /\ RowPhase(r) = "running" /\ NobodyElseAnswers(r)
           /\ turn[r].answer = r /\ turn[r].stage # "none" /\ ~(r > hist.submitted)
           /\ turn[Resumed].stage = "none" /\ ~HasInteraction(db) /\ \A j \in Inputs : db.astatus[j] # "paused"
           /\ \A s \in Runs \ {r} : turn[s].stage \notin PreStream \cup InStream
<1> USE PhaseFacts
<1>1. Answering(r)
    BY DEF Answering
<1>2. RowPhase(r) = "running" /\ NobodyElseAnswers(r)
    BY <1>1, OneAnswers, RowPhases
<1>3. turn[r].stage # "none"
    BY DEF Running, PreStream, InStream
<1>4. turn[r].answer = r /\ ~(r > hist.submitted)
    BY <1>3 DEF AnswerStanding, ClaimStanding, Unsubmitted
<1>5. /\ ~HasInteraction(db)
      /\ \A s \in Runs \ {r} : turn[s].stage \notin PreStream \cup InStream
    BY TheRun DEF OwnershipInvariant, Alone
<1>6. turn[Resumed].stage = "none"
    BY <1>5 DEF OwnershipInvariant, ResumedSkipsPreparation, PreStream
<1>7. \A j \in Inputs : db.astatus[j] # "paused"
    BY <1>5 DEF HasInteraction
<1> QED
    BY <1>2, <1>3, <1>4, <1>5, <1>6, <1>7

\* The run goes on: its row stays in its phase.
LEMMA RunGoesOn ==
    ASSUME LaneSound, LaneSound', PhaseInvariant, NEW r \in Inputs, r \in Running, (r \in Running)',
           CarriageKept(db, db'), db'.astatus[r] # "paused",
           \A j \in Inputs \ {r} : /\ db'.state[j] = db.state[j] /\ db'.aseq[j] = db.aseq[j]
                                   /\ db'.astatus[j] = db.astatus[j],
           \A k \in Runs \ {r} : turn'[k] = turn[k],
           turn'[r].answer = turn[r].answer, turn'[r].source = turn[r].source,
           turn'[r].stage \in {"reserved"} \cup InStream => db'.aseq[r] > 0,
           turn'[r].stage = "factual" => turn[r].source # "steer",
           pump'.held = pump.held, SubmissionsKept
    PROVE  PhaseStep
<1> USE PhaseFacts, RunFacts
<1>1. RowPhase(r)' = "running"
    BY RowPhases DEF RowPhase, Answering
<1>2. turn'[Resumed] = turn[Resumed]
    OBVIOUS
<1>3. AnswerStanding(r)'
    BY <1>2 DEF AnswerStanding, Resumable, SubmissionsKept
<1>4. ResumedStays(r) /\ \A j \in Inputs \ {r} : RowStays(j)
    BY <1>2 DEF ResumedStays, RowStays
<1> QED
    BY <1>1, <1>3, <1>4, RowStep

\* What a run leaves when it ends: its answer is final or waits for the user, where it
\* stood, or its row is parked.
RunLeaves(r) ==
    /\ turn' = Ended(r) /\ pump'.held = pump.held /\ hist' = hist
    /\ inst'.openSteer = inst.openSteer
    /\ RunWrites(db, db', r) /\ Calm(db, db')
    /\ \/ /\ db'.state[r] \in {"none", "consumed"}
          /\ db'.astatus[r] = "paused" => db'.aseq[r] > 0 /\ db'.aseq[r] = db.aseq[r]
       \/ /\ db'.state[r] \in {"blocked", "retry_required"} /\ db.mode[r] = "queue"
          /\ db'.astatus[r] # "paused"

LEMMA RunEnds ==
    ASSUME LaneSound, LaneSound', PhaseInvariant, NEW r \in Inputs, r \in Running, RunLeaves(r)
    PROVE  PhaseStep
<1>0. /\ turn' = Ended(r) /\ pump'.held = pump.held /\ hist' = hist /\ RunWrites(db, db', r)
      /\ \/ /\ db'.state[r] \in {"none", "consumed"}
            /\ db'.astatus[r] = "paused" => db'.aseq[r] > 0
         \/ /\ db'.state[r] \in {"blocked", "retry_required"} /\ db.mode[r] = "queue"
            /\ db'.astatus[r] # "paused"
    BY DEF RunLeaves
<1> USE PhaseFacts, RunFacts, <1>0
<1>1. /\ \A k \in Runs \ {r} : turn'[k] = turn[k]
      /\ turn'[r].stage = "finishing" /\ turn'[r].answer = r
    BY DEF Ended
<1>2. \A k \in Runs : ~(k \in Running)'
    BY <1>1 DEF Running, PreStream, InStream
<1>3. turn'[Resumed].stage = "none"
    BY <1>1
<1>4. \A j \in Inputs : /\ Answering(j)' <=> db'.astatus[j] = "paused"
                        /\ Resumable(j)' <=> db'.astatus[j] = "paused"
    BY <1>2, <1>3 DEF Answering, Resumable
<1>5. \A j \in Inputs \ {r} : ~Answering(j)' /\ ~Resumable(j)'
    BY <1>4 DEF RunWrites
<1>6. \A j \in Inputs \ {r} : RowPhase(j)' = RowPhase(j)
  <2>1. ASSUME NEW j \in Inputs \ {r} PROVE RowPhase(j)' = RowPhase(j)
    <3>1. ~Answering(j) /\ ~Answering(j)'
        BY <1>5 DEF NobodyElseAnswers
    <3>2. db'.mode[j] = db.mode[j] /\ db'.state[j] = db.state[j]
        BY DEF RunWrites, CarriageKept
    <3> QED
        BY <3>1, <3>2 DEF RowPhase
  <2> QED
      BY <2>1
<1>7. CarriersKept /\ CarriersStand(hist.submitted)'
    BY CarriageKeepsCarriers, CarriersByCarriage DEF RunWrites
<1>8. RowPhase(r)' \in {"running", "answered"} \/ (RowPhase(r)' = "parked" /\ db.mode[r] = "queue")
  <2>1. CASE db'.astatus[r] = "paused"
      BY <1>4, <2>1 DEF RowPhase
  <2>2. CASE db'.astatus[r] # "paused" /\ db'.state[r] \in {"none", "consumed"}
      BY <1>4, <2>2 DEF RowPhase
  <2>3. CASE /\ db'.astatus[r] # "paused" /\ db'.state[r] \in {"blocked", "retry_required"}
             /\ db.mode[r] = "queue"
      BY <1>4, <2>3 DEF RowPhase
  <2> QED
      BY <2>1, <2>2, <2>3
<1>9. [Contract!Next]_Phase
    BY <1>6, <1>7, <1>8, StepOfRow DEF VisibleKept
<1>10. AnswerStanding(r)'
    BY <1>1, <1>4 DEF AnswerStanding, InStream
<1>11. ASSUME NEW j \in Inputs \ {r} PROVE AnswerStanding(j)'
  <2>1. AnswerStanding(j) /\ turn'[j] = turn[j] /\ ~Resumable(j)'
      BY <1>1, <1>5
  <2>2. turn[j].stage \notin PreStream \cup InStream
      OBVIOUS
  <2>3. db.aseq[j] = 0 => db'.aseq[j] = 0
      BY DEF RunWrites
  <2> QED
      BY <2>1, <2>2, <2>3 DEF AnswerStanding, PreStream
<1> QED
    BY <1>3, <1>7, <1>9, <1>10, <1>11 DEF PhaseStep, PhaseInvariant

-----------------------------------------------------------------------------
(* The turn. *)

LEMMA RunRowFacts ==
    ASSUME LaneSound, LaneSound', PhaseInvariant, NEW r \in Inputs, r \in Running
    PROVE  /\ turn[r].source \in {"send", "queue", "steer"} /\ turn[r].fenced \in BOOLEAN
           /\ turn[r].fenced => db.state[r] = "none"
           /\ ~turn[r].fenced => db.state[r] = "claimed"
           /\ ~turn[r].fenced => db.mode[r] = IF turn[r].source = "steer" THEN "steer" ELSE "queue"
           /\ Unsettled(r) <=> ~turn[r].fenced
           /\ turn[r].stage \in {"preparing", "factual"} => ~turn[r].fenced
           /\ turn[r].stage = "preparing" => turn[r].source # "steer"
           /\ turn[r].stage \in {"reserved"} \cup InStream => db.aseq[r] > 0
           /\ turn[r].stage = "factual" /\ turn[r].source = "steer" => db.aseq[r] > 0
<1> USE PhaseFacts
<1>1. /\ turn[r].source \in {"send", "queue", "steer"} /\ turn[r].fenced \in BOOLEAN
      /\ turn[r].fenced => db.state[r] = "none"
      /\ ~turn[r].fenced => db.state[r] = "claimed"
      /\ ~turn[r].fenced => db.mode[r] = IF turn[r].source = "steer" THEN "steer" ELSE "queue"
      /\ Unsettled(r) <=> ~turn[r].fenced
    BY RunningRow DEF LaneSound
<1>2. AnswerStanding(r) /\ ClaimStanding(r)
    OBVIOUS
<1> QED
    BY <1>1, <1>2 DEF AnswerStanding, ClaimStanding

\* The steps of a run that goes on.
LEMMA GoOnStep ==
    ASSUME LaneSound, LaneSound', PhaseInvariant, NEW r \in Inputs, r \in Running,
           TurnUserFact(r) \/ TurnReserve(r) \/ TurnRegister(r) \/ ProviderStart(r)
    PROVE  PhaseStep
<1> USE PhaseFacts, RunFacts, RunRowFacts
<1>1. /\ \A k \in Runs \ {r} : turn'[k] = turn[k]
      /\ turn'[r].answer = turn[r].answer /\ turn'[r].source = turn[r].source
      /\ pump' = pump /\ SubmissionsKept
    BY DEF TurnUserFact, TurnReserve, TurnRegister, ProviderStart, Turns, SubmissionsKept,
           VisibleKept, Histories
<1>2. ASSUME CarriageKept(db, db'), db'.astatus[r] # "paused",
             \A j \in Inputs \ {r} : /\ db'.state[j] = db.state[j] /\ db'.aseq[j] = db.aseq[j]
                                     /\ db'.astatus[j] = db.astatus[j],
             turn'[r].stage \in PreStream \cup InStream,
             turn'[r].stage \in {"reserved"} \cup InStream => db'.aseq[r] > 0,
             turn'[r].stage = "factual" => turn[r].source # "steer"
      PROVE  PhaseStep
  <2>1. (r \in Running)'
      BY <1>2 DEF Running
  <2> QED
      BY <1>1, <1>2, <2>1, RunGoesOn
<1>3. CASE TurnUserFact(r)
  <2>1. turn[r].stage = "preparing" /\ db' = AppendUserFact(db, r) /\ turn'[r].stage = "factual"
      BY <1>3 DEF TurnUserFact, Turns
  <2>2. db.mode[r] = "queue" /\ turn[r].source # "steer"
      BY <2>1
  <2>3. CarriageKept(db, db') /\ AnswersKept(db, db') /\ RowsKept(db, db')
      BY <2>1, <2>2, MessagesKeepCarriage, MessagesRows
  <2> QED
      BY <1>2, <2>1, <2>2, <2>3 DEF AnswersKept, RowsKept, PreStream, InStream
<1>4. CASE TurnReserve(r)
  <2>1. turn[r].stage = "factual" /\ turn'[r].stage = "reserved"
      BY <1>4 DEF TurnReserve, Turns
  <2>2. db.state[r] = "claimed"
      BY <2>1
  <2> DEFINE w == WriteAssistant(db, r)
  <2>3. /\ w \in Databases /\ CarriageKept(db, w) /\ RowsKept(db, w)
        /\ AnswerWritten(db, w, r, db.tail + 1, "pending") /\ w.aseq[r] > 0
      BY WriteAssistantType, AnswersKeepCarriage, MessagesRows, AnswerWrites DEF AssistantStates
  <2>4. \/ db' = db /\ turn[r].source = "steer"
        \/ db' = w
        \/ db' = Consume(w, r)
      BY <1>4 DEF TurnReserve
  <2> HIDE DEF w
  <2>5. CASE db' = db /\ turn[r].source = "steer"
      BY <1>2, <2>1, <2>5, CarriageOfItself DEF PreStream, InStream
  <2>6. CASE db' = w
      BY <1>2, <2>1, <2>3, <2>6 DEF AnswerWritten, RowsKept, PreStream, InStream
  <2>7. CASE db' = Consume(w, r)
    <3>1. w.state[r] # "none"
        BY <2>2, <2>3 DEF RowsKept
    <3>2. /\ CarriageKept(w, db') /\ AnswersKept(w, db')
          /\ RowWritten(w, db', r, IF w.mode[r] = "steer" THEN "consumed" ELSE "none", w.mode[r])
        BY <2>3, <2>7, <3>1, ConsumeKeepsCarriage, ConsumeRows
    <3>3. CarriageKept(db, db')
        BY <2>3, <3>2, CarriageIsTransitive
    <3>4. /\ \A j \in Inputs \ {r} : /\ db'.state[j] = db.state[j] /\ db'.aseq[j] = db.aseq[j]
                                     /\ db'.astatus[j] = db.astatus[j]
          /\ db'.aseq[r] > 0 /\ db'.astatus[r] = "pending"
        BY <2>3, <3>2 DEF AnswersKept, AnswerWritten, RowWritten, RowsKept
    <3> QED
        BY <1>2, <2>1, <3>3, <3>4 DEF PreStream, InStream
  <2> QED
      BY <2>4, <2>5, <2>6, <2>7
<1>5. CASE TurnRegister(r)
  <2>1. db' = db /\ turn[r].stage = "reserved" /\ turn'[r].stage = "registered"
      BY <1>5 DEF TurnRegister, Turns
  <2> QED
      BY <1>2, <2>1, CarriageOfItself DEF PreStream, InStream
<1>6. CASE ProviderStart(r)
  <2>1. turn[r].stage = "registered" /\ turn'[r].stage = "streaming"
      BY <1>6 DEF ProviderStart, Turns
  <2>2. db' = db \/ (db' = Consume(db, r) /\ Unsettled(r))
      BY <1>6 DEF ProviderStart
  <2>3. CarriageKept(db, db') /\ AnswersKept(db, db') /\ \A j \in Inputs \ {r} : db'.state[j] = db.state[j]
      BY <2>2, CarriageOfItself, ConsumeKeepsCarriage, ConsumeRows DEF RowWritten
  <2> QED
      BY <1>2, <2>1, <2>3 DEF AnswersKept, PreStream, InStream
<1> QED
    BY <1>3, <1>4, <1>5, <1>6

\* The only steer row that may be claimed is the one the run under way answers.
LEMMA ClaimedSteer ==
    ASSUME LaneSound, LaneSound', PhaseInvariant, NEW r \in Inputs, r \in Running,
           NEW j \in SteerRows(db, "claimed")
    PROVE  j = r /\ turn[r].source = "steer" /\ ~turn[r].fenced
<1> USE PhaseFacts
<1>1. j \in Inputs /\ db.mode[j] = "steer" /\ db.state[j] = "claimed"
    BY DEF SteerRows
<1>2. pump.launched = j /\ ~turn[j].fenced
    BY <1>1 DEF ClaimStanding
<1>3. turn[r].stage # "none"
    BY DEF Running, PreStream, InStream
<1>4. pump.launched = r
    BY <1>3 DEF OwnershipInvariant, LeaseOwnership
<1>5. ~turn[r].fenced => db.mode[r] = IF turn[r].source = "steer" THEN "steer" ELSE "queue"
    BY RunRowFacts
<1> QED
    BY <1>1, <1>2, <1>4, <1>5

LEMMA ClearedKeepsSteer ==
    ASSUME NEW r, NEW status, inst \in Instances, inst' = Cleared(r, status)
    PROVE  inst'.openSteer = inst.openSteer
BY DEF Cleared, Instances

\* Attachments of the input need the user: its row is parked.
LEMMA BlockLeaves ==
    ASSUME LaneSound, LaneSound', PhaseInvariant, NEW r \in Inputs, r \in Running, TurnBlock(r)
    PROVE  RunLeaves(r)
<1> USE PhaseFacts, RunFacts, RunRowFacts
<1>1. /\ db' = SetState(db, r, "blocked") /\ turn' = Ended(r) /\ pump' = pump /\ hist' = hist
      /\ db.state[r] = "claimed" /\ db.mode[r] = "queue" /\ inst' = Cleared(r, "idle")
    BY DEF TurnBlock
<1>2. QuietWrites(db, db', r) /\ RowWritten(db, db', r, "blocked", "queue")
    BY <1>1, StateWrites, RowsOf
<1>3. db'.state[r] = "blocked" /\ db'.astatus[r] # "paused"
    BY <1>2 DEF RowWritten, QuietWrites
<1>4. Calm(db, db')
    BY <1>1, QueueEditsAreCalm DEF RowStates
<1>5. inst'.openSteer = inst.openSteer
    BY <1>1, ClearedKeepsSteer
<1> QED
    BY <1>1, <1>2, <1>3, <1>4, <1>5 DEF QuietWrites, RunLeaves

\* The stream ends: the answer is final or pauses, or the turn is rolled back for Retry.
LEMMA StreamEndLeaves ==
    ASSUME LaneSound, LaneSound', PhaseInvariant, NEW r \in Inputs, r \in Running,
           NEW result \in Results, StreamEnd(r, result)
    PROVE  RunLeaves(r)
<1> USE PhaseFacts, RunFacts, RunRowFacts
<1> DEFINE status == AnswerStatus[result]
           answered == SetAssistant(db, r, status)
<1>1. /\ turn[r].stage \in InStream /\ turn' = Ended(r) /\ hist' = hist /\ pump'.held = pump.held
      /\ inst'.openSteer = inst.openSteer
    BY ClearedKeepsSteer DEF StreamEnd
<1>2. db' = IF Undone(r, result) THEN Release(Rollback(db, r), r, "retry_required")
            ELSE IF Unsettled(r) THEN Consume(answered, r)
            ELSE answered
    BY DEF StreamEnd
<1>3. /\ answered \in Databases /\ RunWrites(db, answered, r) /\ answered.aseq[r] = db.aseq[r]
      /\ RowsKept(db, answered) /\ Calm(db, answered)
  <2>1. status \in AssistantStates
      BY DEF Results, AnswerStatus, AssistantStates
  <2> HIDE DEF status
  <2>2. RunWrites(db, answered, r) /\ answered.aseq[r] = db.aseq[r]
      BY <2>1, AnswerWrites
  <2>3. answered \in Databases
      BY <2>1, SetAssistantType
  <2>4. RowsKept(db, answered)
      BY MessagesRows
  <2>5. Calm(db, answered)
      BY <2>1, AnswersAreCalm
  <2> QED
      BY <2>2, <2>3, <2>4, <2>5
<1>4. db.aseq[r] > 0
    BY <1>1
<1> HIDE DEF answered
<1>5. CASE Undone(r, result)
  <2> DEFINE back == Rollback(db, r)
  <2>1. db.state[r] = "claimed" /\ db.mode[r] = "queue"
      BY <1>5 DEF Undone
  <2>2. back \in Databases /\ QuietWrites(db, back, r) /\ RowsKept(db, back)
      BY RollbackType, AnswerWrites, MessagesRows DEF AssistantStates
  <2>3. db' = Release(back, r, "retry_required")
      BY <1>2, <1>5
  <2>4. SteerRows(db, "claimed") = {}
      BY <1>5, ClaimedSteer DEF Undone
  <2>5. Calm(db, back)
      BY <2>4, RollbackIsCalm
  <2> HIDE DEF back
  <2>6. back.state[r] # "none" /\ back.mode[r] = "queue"
      BY <2>1, <2>2 DEF RowsKept
  <2>7. /\ QuietWrites(back, db', r)
        /\ RowWritten(back, db', r, "retry_required", back.mode[r])
      BY <2>2, <2>3, <2>6, StateWrites, RowsOf
  <2>8. RunWrites(db, db', r) /\ db'.state[r] = "retry_required" /\ db'.astatus[r] # "paused"
      BY <2>2, <2>7, WritesAreTransitive DEF QuietWrites, RowWritten
  <2>9. "retry_required" \in RowStates
      BY DEF RowStates
  <2>10. Calm(back, db')
      BY <2>2, <2>3, <2>6, <2>9, QueueEditsAreCalm
  <2>11. Calm(db, db')
      BY <2>2, <2>5, <2>10, CalmIsTransitive
  <2> QED
      BY <1>1, <2>1, <2>8, <2>11 DEF RunLeaves
<1>6. CASE ~Undone(r, result) /\ Unsettled(r)
  <2>1. db' = Consume(answered, r) /\ answered.state[r] # "none"
      BY <1>2, <1>3, <1>6 DEF RowsKept
  <2>2. /\ QuietWrites(answered, db', r) /\ AnswersKept(answered, db')
        /\ db'.state[r] \in {"none", "consumed"}
      BY <1>3, <2>1, StateWrites, ConsumeKeepsCarriage, ConsumeRows DEF RowWritten
  <2>3. RunWrites(db, db', r) /\ db'.aseq[r] > 0 /\ db'.aseq[r] = db.aseq[r]
      BY <1>3, <1>4, <2>2, WritesAreTransitive DEF QuietWrites, AnswersKept
  <2>4. Calm(answered, db')
      BY <1>3, <2>1, ConsumeIsCalm
  <2>5. Calm(db, db')
      BY <1>3, <2>4, CalmIsTransitive
  <2> QED
      BY <1>1, <2>2, <2>3, <2>5 DEF RunLeaves
<1>7. CASE ~Undone(r, result) /\ ~Unsettled(r)
  <2>1. db' = answered /\ db'.state[r] = "none" /\ db'.aseq[r] > 0
      BY <1>2, <1>3, <1>4, <1>7 DEF RowsKept
  <2> QED
      BY <1>1, <1>3, <2>1 DEF RunLeaves
<1> QED
    BY <1>5, <1>6, <1>7

\* The turn is aborted before the provider: what was promised is consumed, the rest of
\* the claim is given back to the user.
LEMMA AbortedLeaves ==
    ASSUME LaneSound, LaneSound', PhaseInvariant, NEW r \in Inputs, r \in Running,
           NEW late \in BOOLEAN, AbortedPreStream(r, late)
    PROVE  RunLeaves(r)
<1> USE PhaseFacts, RunFacts, RunRowFacts
<1> DEFINE t == turn[r]
           handoff == t.signal = "handoff"
           written ==
             CASE late /\ t.stage = "preparing" /\ db.msgs[r] = {} -> AppendUserFact(db, r)
               [] late /\ t.stage = "factual" /\ t.source # "steer" /\ ~handoff ->
                      WriteAssistant(db, r)
               [] OTHER -> db
           settled ==
             IF ~Unsettled(r) THEN written
             ELSE IF Exists(written, r) \/ t.source = "steer" THEN Consume(written, r)
             ELSE Release(written, r, "retry_required")
<1>1. /\ turn' = Ended(r) /\ hist' = hist /\ pump'.held = pump.held
      /\ inst'.openSteer = inst.openSteer
    BY ClearedKeepsSteer DEF AbortedPreStream
<1>2. db' = IF handoff THEN DeleteAssistant(settled, r) ELSE SetAssistant(settled, r, "error")
    BY NoneIsNoRun DEF AbortedPreStream
<1>3. /\ written \in Databases /\ QuietWrites(db, written, r) /\ RowsKept(db, written)
      /\ Calm(db, written)
  <2>1. CASE written = AppendUserFact(db, r) /\ turn[r].stage = "preparing"
    <3>1. db.mode[r] = "queue"
        BY <2>1
    <3> HIDE DEF written
    <3>2. SteerRows(db, "claimed") = {}
        BY <2>1, ClaimedSteer
    <3>3. Calm(db, written)
        BY <2>1, <3>1, <3>2, UserFactIsCalm
    <3> QED
        BY <2>1, <3>1, <3>3, AppendUserFactType, AnswerWrites, MessagesRows DEF AssistantStates
  <2>2. CASE written = WriteAssistant(db, r) /\ turn[r].source # "steer"
    <3> HIDE DEF written
    <3>1. r \notin SteerRows(db, "claimed")
        BY <2>2, ClaimedSteer
    <3>2. Calm(db, written)
        BY <2>2, <3>1, AnswersAreCalm DEF AssistantStates
    <3> QED
        BY <2>2, <3>2, WriteAssistantType, AnswerWrites, MessagesRows DEF AssistantStates
  <2>3. CASE written = db
    <3> HIDE DEF written
    <3> QED
        BY <2>3, CalmOfItself, AnswerWrites DEF AssistantStates, RowsKept
  <2> QED
      BY <2>1, <2>2, <2>3
<1> HIDE DEF written
<1>4. /\ settled \in Databases /\ QuietWrites(written, settled, r) /\ Calm(written, settled)
      /\ \/ settled.state[r] \in {"none", "consumed"}
         \/ settled.state[r] = "retry_required" /\ db.mode[r] = "queue"
  <2>1. CASE ~Unsettled(r)
    <3>1. settled = written /\ written.state[r] = "none"
        BY <1>3, <2>1 DEF RowsKept
    <3>2. Calm(written, written)
        BY <1>3, CalmOfItself
    <3> QED
        BY <1>3, <3>1, <3>2, AnswerWrites DEF AssistantStates
  <2>2. CASE Unsettled(r) /\ (Exists(written, r) \/ t.source = "steer")
    <3>1. settled = Consume(written, r) /\ written.state[r] # "none"
        BY <1>3, <2>2 DEF RowsKept
    <3> HIDE DEF settled
    <3>2. Calm(written, settled)
        BY <1>3, <3>1, ConsumeIsCalm
    <3> QED
        BY <1>3, <3>1, <3>2, ConsumeType, StateWrites, ConsumeRows DEF RowWritten
  <2>3. CASE Unsettled(r) /\ ~(Exists(written, r) \/ t.source = "steer")
    <3>1. settled = Release(written, r, "retry_required")
        BY <2>3
    <3>2. written.state[r] # "none" /\ written.mode[r] = "queue" /\ db.mode[r] = "queue"
        BY <1>3, <2>3 DEF RowsKept
    <3>3. "retry_required" \in RowStates
        BY DEF RowStates, ActiveStates, WaitingStates
    <3> HIDE DEF settled
    <3>4. settled \in Databases
        BY <1>3, <3>1, <3>3, ReleaseType
    <3>5. /\ QuietWrites(written, settled, r)
          /\ RowWritten(written, settled, r, "retry_required", "queue")
        BY <1>3, <3>1, <3>2, StateWrites, RowsOf
    <3>6. Calm(written, settled)
        BY <1>3, <3>1, <3>2, <3>3, QueueEditsAreCalm
    <3> QED
        BY <3>2, <3>4, <3>5, <3>6 DEF RowWritten
  <2> QED
      BY <2>1, <2>2, <2>3
<1> HIDE DEF settled
<1>5. QuietWrites(settled, db', r) /\ RowsKept(settled, db') /\ Calm(settled, db')
  <2>1. "error" \in AssistantStates /\ r \notin SteerRows(settled, "claimed")
      BY <1>4 DEF AssistantStates, SteerRows
  <2>2. Calm(settled, db')
      BY <1>2, <1>4, <2>1, AnswersAreCalm
  <2>3. CASE db' = DeleteAssistant(settled, r)
      BY <1>4, <2>1, <2>2, <2>3, AnswerWrites, MessagesRows
  <2>4. CASE db' = SetAssistant(settled, r, "error")
      BY <1>4, <2>1, <2>2, <2>4, AnswerWrites, MessagesRows
  <2> QED
      BY <1>2, <2>3, <2>4
<1>6. QuietWrites(db, settled, r)
    BY <1>3, <1>4, WritesAreTransitive DEF QuietWrites
<1>7. QuietWrites(db, db', r)
    BY <1>5, <1>6, WritesAreTransitive DEF QuietWrites
<1>8. db'.astatus[r] # "paused" /\ db'.state[r] = settled.state[r]
    BY <1>5, <1>7 DEF QuietWrites, RowsKept
<1>9. Calm(db, settled)
    BY <1>3, <1>4, CalmIsTransitive
<1>10. Calm(db, db')
    BY <1>4, <1>5, <1>9, CalmIsTransitive
<1> QED
    BY <1>1, <1>4, <1>7, <1>8, <1>10 DEF QuietWrites, RunLeaves

\* Preparation fails: the claim is given back for Retry, or its error is the answer.
LEMMA FailedLeaves ==
    ASSUME LaneSound, LaneSound', PhaseInvariant, NEW r \in Inputs, r \in Running,
           FailedPreStream(r)
    PROVE  RunLeaves(r)
<1> USE PhaseFacts, RunFacts, RunRowFacts
<1> DEFINE shown == SetAssistant(db, r, "error")
           back == IF turn[r].stage = "preparing" THEN db ELSE Rollback(db, r)
<1>1. /\ turn' = Ended(r) /\ hist' = hist /\ pump'.held = pump.held
      /\ inst'.openSteer = inst.openSteer
    BY ClearedKeepsSteer DEF FailedPreStream
<1>2. db' = IF Unsettled(r) /\ turn[r].source # "steer" THEN Release(back, r, "retry_required")
            ELSE IF Unsettled(r) THEN Consume(shown, r)
            ELSE shown
    BY DEF FailedPreStream
<1>3. "error" \in AssistantStates /\ "retry_required" \in RowStates
    BY DEF AssistantStates, RowStates
<1>4. shown \in Databases /\ QuietWrites(db, shown, r) /\ RowsKept(db, shown) /\ Calm(db, shown)
  <2>1. Calm(db, shown)
      BY <1>3, AnswersAreCalm
  <2> QED
      BY <1>3, <2>1, SetAssistantType, AnswerWrites, MessagesRows
<1> HIDE DEF shown
<1>5. /\ back \in Databases /\ QuietWrites(db, back, r) /\ RowsKept(db, back)
      /\ turn[r].source # "steer" => Calm(db, back)
  <2>1. CASE back = db
      BY <1>3, <2>1, CalmOfItself, AnswerWrites DEF RowsKept
  <2>2. CASE back = Rollback(db, r)
    <3> HIDE DEF back
    <3>1. turn[r].source # "steer" => SteerRows(db, "claimed") = {}
        BY ClaimedSteer
    <3>2. turn[r].source # "steer" => Calm(db, back)
        BY <2>2, <3>1, RollbackIsCalm
    <3> QED
        BY <1>3, <2>2, <3>2, RollbackType, AnswerWrites, MessagesRows
  <2> QED
      BY <2>1, <2>2
<1> HIDE DEF back
<1>6. CASE Unsettled(r) /\ turn[r].source # "steer"
  <2>1. db' = Release(back, r, "retry_required") /\ db.mode[r] = "queue"
      BY <1>2, <1>6
  <2>2. back.state[r] # "none" /\ back.mode[r] = "queue"
      BY <1>5, <1>6, <2>1 DEF RowsKept
  <2>3. QuietWrites(back, db', r) /\ RowWritten(back, db', r, "retry_required", "queue")
      BY <1>5, <2>1, <2>2, StateWrites, RowsOf
  <2>4. QuietWrites(db, db', r)
      BY <1>5, <2>3, WritesAreTransitive DEF QuietWrites
  <2>5. db'.state[r] = "retry_required" /\ db'.astatus[r] # "paused"
      BY <2>3, <2>4 DEF QuietWrites, RowWritten
  <2>6. Calm(back, db')
      BY <1>3, <1>5, <2>1, <2>2, QueueEditsAreCalm
  <2>7. Calm(db, db')
      BY <1>5, <1>6, <2>6, CalmIsTransitive
  <2> QED
      BY <1>1, <2>1, <2>4, <2>5, <2>7 DEF QuietWrites, RunLeaves
<1>7. CASE Unsettled(r) /\ turn[r].source = "steer"
  <2>1. db' = Consume(shown, r) /\ shown.state[r] # "none"
      BY <1>2, <1>4, <1>7 DEF RowsKept
  <2>2. QuietWrites(shown, db', r) /\ db'.state[r] \in {"none", "consumed"}
      BY <1>4, <2>1, StateWrites, ConsumeRows DEF RowWritten
  <2>3. QuietWrites(db, db', r)
      BY <1>4, <2>2, WritesAreTransitive DEF QuietWrites
  <2>4. db'.astatus[r] # "paused"
      BY <2>3 DEF QuietWrites
  <2>5. Calm(shown, db')
      BY <1>4, <2>1, ConsumeIsCalm
  <2>6. Calm(db, db')
      BY <1>4, <2>5, CalmIsTransitive
  <2> QED
      BY <1>1, <2>2, <2>3, <2>4, <2>6 DEF QuietWrites, RunLeaves
<1>8. CASE ~Unsettled(r)
  <2>1. db' = shown /\ db'.state[r] = "none"
      BY <1>2, <1>4, <1>8 DEF RowsKept
  <2> QED
      BY <1>1, <1>4, <2>1 DEF QuietWrites, RunLeaves
<1> QED
    BY <1>6, <1>7, <1>8

\* The run that resumes the answer of row i ends: only that answer is written.
LEMMA ResumedRunLeaves ==
    ASSUME LaneSound, LaneSound', PhaseInvariant, TurnStep(Resumed),
           ~(TurnRegister(Resumed) \/ ProviderStart(Resumed)),
           NEW i, turn[Resumed].answer = i
    PROVE  /\ turn' = Ended(Resumed) /\ hist' = hist /\ inst'.openSteer = inst.openSteer
           /\ \E s \in AssistantStates : db' = SetAssistant(db, i, s)
<1> USE PhaseFacts
<1>1. Resumed \in Running
    BY RunningStage
<1>2. /\ ~Unsettled(Resumed)
      /\ ~TurnBlock(Resumed) /\ ~TurnUserFact(Resumed) /\ ~TurnReserve(Resumed)
    BY <1>1 DEF OwnershipInvariant, ResumedSkipsPreparation, InStream, Unsettled, TurnBlock,
               TurnUserFact, TurnReserve
<1>3. ASSUME NEW result \in Results, StreamEnd(Resumed, result)
      PROVE  /\ turn' = Ended(Resumed) /\ hist' = hist /\ inst'.openSteer = inst.openSteer
             /\ \E s \in AssistantStates : db' = SetAssistant(db, i, s)
  <2>1. AnswerStatus[result] \in AssistantStates
      BY DEF Results, AnswerStatus, AssistantStates
  <2> QED
      BY <1>2, <1>3, <2>1, ClearedKeepsSteer DEF StreamEnd, Undone
<1>4. ASSUME NEW late \in BOOLEAN, AbortedPreStream(Resumed, late)
      PROVE  /\ turn' = Ended(Resumed) /\ hist' = hist /\ inst'.openSteer = inst.openSteer
             /\ \E s \in AssistantStates : db' = SetAssistant(db, i, s)
    BY <1>4, ClearedKeepsSteer DEF AbortedPreStream, AssistantStates
<1>5. ASSUME FailedPreStream(Resumed)
      PROVE  /\ turn' = Ended(Resumed) /\ hist' = hist /\ inst'.openSteer = inst.openSteer
             /\ \E s \in AssistantStates : db' = SetAssistant(db, i, s)
    BY <1>2, <1>5, ClearedKeepsSteer DEF FailedPreStream, AssistantStates
<1> QED
    BY <1>2, <1>3, <1>4, <1>5 DEF TurnStep

\* The run that resumes a paused answer: only that answer is written, until it is final or
\* pauses again.
LEMMA ResumedRunStep ==
    ASSUME LaneSound, LaneSound', PhaseInvariant, TurnStep(Resumed)
    PROVE  PhaseStep
<1> USE PhaseFacts
<1>1. Resumed \in Running /\ turn[Resumed].stage # "none"
    BY RunningStage DEF Running, PreStream, InStream
<1>2. turn[Resumed].answer \in Inputs
    BY <1>1 DEF PhaseInvariant
<1>3. PICK i \in Inputs : turn[Resumed].answer = i
    BY <1>2
<1>4. /\ turn[Resumed].stage \notin {"preparing", "factual"} /\ ~Unsettled(Resumed)
      /\ ~TurnBlock(Resumed) /\ ~TurnUserFact(Resumed) /\ ~TurnReserve(Resumed)
    BY DEF OwnershipInvariant, ResumedSkipsPreparation, InStream, Unsettled, TurnBlock,
           TurnUserFact, TurnReserve
<1>5. Answering(i) /\ Resumable(i) /\ RowPhase(i) = "running"
    BY <1>1, <1>3, RowPhases DEF Answering, Resumable
<1>6. NobodyElseAnswers(i)
    BY <1>5, OneAnswers
<1>7. db.state[i] \in {"none", "consumed"} /\ db.aseq[i] > 0
    BY <1>5 DEF AnswerStanding
<1>8. CASE TurnRegister(Resumed) \/ ProviderStart(Resumed)
  <2>1. db' = db /\ pump' = pump /\ SubmissionsKept
      BY <1>4, <1>8 DEF TurnRegister, ProviderStart, SubmissionsKept, VisibleKept, Histories
  <2>2. /\ turn'[Resumed].stage \in InStream /\ turn'[Resumed].answer = i
        /\ \A k \in Inputs : turn'[k] = turn[k]
      BY <1>3, <1>8 DEF TurnRegister, ProviderStart, Turns, InStream
  <2>3. Answering(i)' /\ Resumable(i)'
      BY <2>2 DEF Answering, Resumable, Running, InStream
  <2>4. RowPhase(i)' = "running"
      BY <2>3 DEF RowPhase
  <2>5. AnswerStanding(i)'
    <3>1. AnswerStanding(i) /\ turn'[i] = turn[i]
        BY <2>2
    <3> QED
        BY <1>7, <2>1, <3>1 DEF AnswerStanding, SubmissionsKept
  <2>6. ResumedStays(i) /\ \A j \in Inputs \ {i} : RowStays(j)
      BY <1>3, <2>1, <2>2 DEF ResumedStays, RowStays
  <2> QED
      BY <1>5, <2>1, <2>4, <2>5, <2>6, CarriageOfItself, RowStep
<1>9. CASE ~(TurnRegister(Resumed) \/ ProviderStart(Resumed))
  <2>1. /\ turn' = Ended(Resumed) /\ hist' = hist
        /\ \E s \in AssistantStates : db' = SetAssistant(db, i, s)
      BY <1>3, <1>9, ResumedRunLeaves
  <2>2. pump'.held = pump.held
    <3>1. ASSUME NEW result \in Results, StreamEnd(Resumed, result) PROVE pump'.held = pump.held
        BY <3>1, WakeupsKeepHolds DEF StreamEnd
    <3>2. ASSUME NEW late \in BOOLEAN, AbortedPreStream(Resumed, late) PROVE pump'.held = pump.held
        BY <3>2, WakeupsKeepHolds DEF AbortedPreStream
    <3>3. FailedPreStream(Resumed) => pump'.held = pump.held
        BY DEF FailedPreStream
    <3> QED
        BY <1>4, <1>9, <3>1, <3>2, <3>3 DEF TurnStep
  <2>3. PICK s \in AssistantStates : db' = SetAssistant(db, i, s)
      BY <2>1
  <2>4. /\ CarriageKept(db, db') /\ RowsKept(db, db') /\ db'.aseq[i] = db.aseq[i]
        /\ \A j \in Inputs \ {i} : db'.aseq[j] = db.aseq[j] /\ db'.astatus[j] = db.astatus[j]
    <3> DEFINE t == IF db.aseq[i] = 0 THEN db.astatus[i] ELSE s
    <3>1. /\ CarriageKept(db, SetAssistant(db, i, s))
          /\ AnswerWritten(db, SetAssistant(db, i, s), i, db.aseq[i], t)
        BY AnswersKeepCarriage
    <3>2. RowsKept(db, SetAssistant(db, i, s))
        BY MessagesRows
    <3> HIDE DEF t
    <3> QED
        BY <2>3, <3>1, <3>2 DEF AnswerWritten
  <2>5. turn'[Resumed].stage = "none" /\ \A k \in Inputs : turn'[k] = turn[k]
      BY <2>1 DEF Ended, NoTurn
  <2>6. ~(i \in Running)
      BY <1>1 DEF OwnershipInvariant
  <2>7. (Answering(i)' <=> db'.astatus[i] = "paused") /\ (Resumable(i)' <=> db'.astatus[i] = "paused")
      BY <2>5, <2>6 DEF Answering, Resumable, Running, PreStream, InStream
  <2>8. db'.state[i] \in {"none", "consumed"}
      BY <1>7, <2>4 DEF RowsKept
  <2>9. RowPhase(i)' \in {"running", "answered"}
      BY <2>7, <2>8 DEF RowPhase
  <2>10. AnswerStanding(i)'
    <3>1. AnswerStanding(i) /\ turn'[i] = turn[i]
        BY <2>5
    <3> QED
        BY <1>7, <2>1, <2>4, <2>8, <3>1 DEF AnswerStanding
  <2>11. ResumedStays(i) /\ \A j \in Inputs \ {i} : RowStays(j)
      BY <1>3, <2>2, <2>4, <2>5 DEF ResumedStays, RowStays, RowsKept
  <2> QED
      BY <1>5, <1>6, <2>1, <2>4, <2>9, <2>10, <2>11, RowStep DEF SubmissionsKept, VisibleKept
<1> QED
    BY <1>8, <1>9

-----------------------------------------------------------------------------
(* A crash. *)

\* What a crash may leave of the phase of a row.
CrashOfRow(p, q) ==
    /\ p = "running" => q \in {"running", "answered", "parked"}
    /\ p = "waiting" => q \in {"parked", "answered"}
    /\ p \in {"parked", "answered"} => q = p

\* The database a crash leaves is the one before it, up to the messages of a turn that was
\* being rolled back.
CrashLeaves(d) ==
    /\ d \in Databases /\ RowsKept(db, d) /\ CarriageKept(db, d) /\ d.msgs = db.msgs
    /\ \A j \in Inputs : /\ d.aseq[j] \in {0, db.aseq[j]}
                         /\ d.astatus[j] \in {"none", db.astatus[j]}
                         /\ d.astatus[j] = "paused" => d.aseq[j] = db.aseq[j]

\* Recovery closes what was claimed, holds what waits and settles every steer row.
LEMMA CrashedRow ==
    ASSUME LaneSound, LaneSound', PhaseInvariant, NEW d, CrashLeaves(d), CrashWith(d),
           NEW i \in Inputs
    PROVE  /\ Answering(i)' <=> db'.astatus[i] = "paused"
           /\ Resumable(i)' <=> db'.astatus[i] = "paused"
           /\ db'.astatus[i] = "paused" =>
                 db.astatus[i] = "paused" /\ db'.aseq[i] = db.aseq[i]
           /\ db'.aseq[i] \in {0, db.aseq[i]}
           /\ db.state[i] \in {"none", "consumed"} => db'.state[i] \in {"none", "consumed"}
           /\ CrashOfRow(RowPhase(i), RowPhase(i)')
<1> USE PhaseFacts
<1>1. /\ db' = Recover(d) /\ pump'.held = HeldByRestart(d)
      /\ \A r \in Runs : turn'[r].stage = "none"
    BY DEF CrashWith, RestedPump, NoTurn
<1>2. /\ d \in Databases /\ d.state = db.state /\ d.mode = db.mode /\ d.msgs = db.msgs
      /\ d.aseq[i] \in {0, db.aseq[i]} /\ d.astatus[i] \in {"none", db.astatus[i]}
      /\ d.astatus[i] = "paused" => d.aseq[i] = db.aseq[i]
    <2>1. RowsKept(db, d) /\ d \in Databases
        BY DEF CrashLeaves
    <2>2. d.state = db.state /\ d.mode = db.mode
        BY <2>1 DEF RowsKept, Databases
    <2> QED
        BY <2>1, <2>2 DEF CrashLeaves
<1>3. /\ db'.aseq[i] = d.aseq[i]
      /\ db'.astatus[i] = "paused" => d.astatus[i] = "paused"
    BY <1>1, <1>2, RecoverKeepsCarriage
<1>4. /\ db'.mode[i] = db.mode[i] /\ db'.state[i] # "claimed"
      /\ db'.state[i] \in {"none", "pending", "consumed", db.state[i]}
      /\ db.state[i] = "none" => db'.state[i] = "none"
      /\ db.mode[i] = "queue" /\ db'.state[i] \in {"pending", "blocked"} => i \in pump'.held
    BY <1>1, <1>2, RecoverRows
<1>5. /\ db.mode[i] = "steer" /\ db.state[i] \in {"pending", "claimed", "consumed"} =>
             db'.state[i] = "consumed"
      /\ db.state[i] \in ActiveStates /\ db.mode[i] = "queue" /\ db.msgs[i] = {} =>
             db'.state[i] \in ActiveStates
    BY <1>1, <1>2, RecoverEffect DEF HasFact
<1>6. /\ db.state[i] \in RowStates
      /\ db.state[i] \in {"blocked", "retry_required"} => db.mode[i] = "queue"
    BY DEF Databases, ClaimStanding
<1>7. ASSUME db.mode[i] = "queue", i \in pump'.held PROVE db.state[i] \in ActiveStates
    BY <1>1, <1>2, <1>7 DEF HeldByRestart, QueueRows
<1>8. Answering(i)' <=> db'.astatus[i] = "paused"
    BY <1>1 DEF Answering, Running, PreStream, InStream
<1>9. Resumable(i)' <=> db'.astatus[i] = "paused"
    BY <1>1 DEF Resumable
<1>10. db'.astatus[i] = "paused" => Answering(i)
    BY <1>2, <1>3 DEF Answering
<1>11. db.state[i] \in {"none", "consumed"} => db'.state[i] \in {"none", "consumed"}
    BY <1>4, <1>5, <1>7 DEF ActiveStates, WaitingStates
<1>12. RowPhase(i)' # "waiting"
  <2>1. CASE db.mode[i] = "queue"
      BY <1>4, <2>1 DEF RowPhase
  <2>2. CASE db.mode[i] = "steer"
    <3>1. db'.state[i] \notin {"pending", "claimed"}
        BY <1>4, <1>5, <1>6, <2>2 DEF RowStates, ActiveStates, WaitingStates
    <3> QED
        BY <3>1 DEF RowPhase
  <2> QED
      BY <2>1, <2>2
<1>13. ASSUME ~Answering(i), db'.state[i] \in {"none", "consumed"} PROVE RowPhase(i)' = "answered"
    BY <1>8, <1>10, <1>13 DEF RowPhase
<1>14. ASSUME ~Answering(i), db'.state[i] \in ActiveStates PROVE RowPhase(i)' = "parked"
    BY <1>8, <1>10, <1>12, <1>14, WaitingPhaseNext
<1>15. db'.state[i] \in {"none", "consumed"} \/ db'.state[i] \in ActiveStates
    BY <1>4, <1>6 DEF RowStates, ActiveStates, WaitingStates
<1>16. CASE RowPhase(i) = "running"
  <2>1. RowPhase(i)' \in {"running", "waiting", "parked", "answered"}
      BY DEF RowPhase
  <2> QED
      BY <1>2, <1>3, <1>8, <1>9, <1>11, <1>12, <1>16, <2>1 DEF CrashOfRow
<1>17. CASE RowPhase(i) = "waiting"
  <2>1. ~Answering(i)
      BY <1>17, RowPhases
  <2> QED
      BY <1>2, <1>3, <1>8, <1>9, <1>11, <1>13, <1>14, <1>15, <1>17, <2>1 DEF CrashOfRow
<1>18. CASE RowPhase(i) = "parked"
  <2>1. ~Answering(i)
      BY <1>18, RowPhases
  <2>2. \/ db.state[i] \in {"pending", "claimed"} /\ db.mode[i] = "queue"
        \/ db.state[i] \in {"blocked", "retry_required"}
      BY <1>18, <2>1 DEF RowPhase
  <2>3. db.mode[i] = "queue" /\ db.state[i] \in ActiveStates
      BY <1>6, <2>2 DEF ActiveStates, WaitingStates
  <2>4. db.msgs[i] = {}
    <3>1. CASE db.state[i] = "claimed"
      <4>1. i \notin Running
          BY <2>1 DEF Answering
      <4>2. Promoting(i)
          BY <3>1, <4>1, NoneIsNoRun
          DEF ClaimStanding, OwnershipInvariant, LeaseOwnership, Running, PreStream, InStream,
              Turns, Stages
      <4> QED
          BY <4>2 DEF EmptyLink
    <3>2. CASE db.state[i] # "claimed"
        BY <2>2, <2>3, <3>2 DEF EmptyLink, WaitingQueue, QueueRows, WaitingStates
    <3> QED
        BY <3>1, <3>2
  <2> QED
      BY <1>2, <1>3, <1>5, <1>8, <1>9, <1>11, <1>14, <1>18, <2>1, <2>3, <2>4 DEF CrashOfRow
<1>19. CASE RowPhase(i) = "answered"
  <2>1. ~Answering(i)
      BY <1>19, RowPhases
  <2>2. db.state[i] \in {"none", "consumed"}
      BY <1>6, <1>19, <2>1 DEF RowPhase, RowStates, ActiveStates, WaitingStates
  <2> QED
      BY <1>2, <1>3, <1>8, <1>9, <1>11, <1>13, <1>19, <2>1, <2>2 DEF CrashOfRow
<1> QED
    BY <1>16, <1>17, <1>18, <1>19, RowPhases

LEMMA CrashWithStep ==
    ASSUME LaneSound, LaneSound', PhaseInvariant, NEW d, CrashLeaves(d), CrashWith(d)
    PROVE  PhaseStep
<1> USE PhaseFacts
<1>1. /\ hist' = hist /\ SubmissionsKept /\ db' = Recover(d)
      /\ \A r \in Runs : turn'[r].stage = "none"
    BY DEF CrashWith, NoTurn, SubmissionsKept, VisibleKept
<1>2. CarriageKept(db, db')
    BY <1>1, RecoverKeepsCarriage, CarriageIsTransitive DEF CrashLeaves
<1>3. CarriersKept /\ CarriersStand(hist.submitted)'
    BY <1>1, <1>2, CarriageKeepsCarriers, CarriersByCarriage
<1>4. \A i \in Inputs : CrashOfRow(RowPhase(i), RowPhase(i)')
    BY CrashedRow
<1>5. ASSUME NEW i \in Inputs PROVE AnswerStanding(i)'
  <2>1. /\ Resumable(i)' => db'.astatus[i] = "paused"
        /\ db'.astatus[i] = "paused" => db.astatus[i] = "paused" /\ db'.aseq[i] = db.aseq[i]
        /\ db'.aseq[i] \in {0, db.aseq[i]}
        /\ db.state[i] \in {"none", "consumed"} => db'.state[i] \in {"none", "consumed"}
      BY CrashedRow
  <2>2. AnswerStanding(i) /\ turn'[i].stage = "none"
      BY <1>1
  <2>3. Resumable(i)' => Resumable(i) /\ db'.aseq[i] = db.aseq[i]
      BY <2>1 DEF Resumable
  <2> QED
      BY <1>1, <2>1, <2>2, <2>3 DEF AnswerStanding, InStream
<1>6. PhaseInvariant'
  <2>1. hist'.accepted \cup hist'.withdrawn \subseteq 1 .. hist'.submitted
      BY <1>1 DEF PhaseInvariant
  <2> QED
      BY <1>1, <1>3, <1>5, <2>1 DEF PhaseInvariant
\* One row at most is being answered: what becomes of it becomes of all its messages.
<1>7. PICK p \in {"running", "answered", "parked"} :
          \A i \in Inputs : RowPhase(i) = "running" => RowPhase(i)' = p
  <2>1. CASE \E i \in Inputs : RowPhase(i) = "running"
    <3>1. PICK i \in Inputs : RowPhase(i) = "running"
        BY <2>1
    <3>2. NobodyElseAnswers(i)
        BY <3>1, OneAnswers, RowPhases
    <3>3. \A j \in Inputs : RowPhase(j) = "running" => j = i
        BY <3>2, RowPhases DEF NobodyElseAnswers
    <3>4. RowPhase(i)' \in {"running", "answered", "parked"}
        BY <1>4, <3>1 DEF CrashOfRow
    <3> QED
        BY <3>3, <3>4
  <2>2. CASE ~\E i \in Inputs : RowPhase(i) = "running"
      BY <2>2
  <2> QED
      BY <2>1, <2>2
<1> DEFINE S == {u \in Contract!In("waiting") : Phase'[u] = "parked"}
<1>8. ASSUME NEW u \in Inputs
      PROVE  /\ CrashOfRow(Phase[u], Phase'[u])
             /\ Phase[u] = "running" => Phase'[u] = p
             /\ Phase[u] \in {"absent", "withdrawn"} => Phase'[u] = Phase[u]
  <2>1. PICK c \in Inputs : c = Carrier(u)
      BY CarrierIsRow
  <2>2. Carrier(u)' = c
      BY <1>3, <2>1, CarrierKept DEF CarriersKept
  <2>3. RowPhase(Carrier(u))' = RowPhase(c)' /\ RowPhase(Carrier(u)) = RowPhase(c)
      BY <2>1, <2>2
  <2>4. CrashOfRow(RowPhase(c), RowPhase(c)') /\ (RowPhase(c) = "running" => RowPhase(c)' = p)
      BY <1>4, <1>7
  <2>5. Phase[u] = PhaseOf(u) /\ Phase'[u] = PhaseOf(u)'
      BY DEF Phase
  <2>6. CASE u \in Visible
    <3>1. PhaseOf(u) = RowPhase(c) /\ PhaseOf(u)' = RowPhase(c)'
        BY <1>1, <2>3, <2>6 DEF PhaseOf, Visible
    <3> QED
        BY <2>4, <2>5, <3>1, RowPhases
  <2>7. CASE u \notin Visible
    <3>1. PhaseOf(u)' = PhaseOf(u) /\ PhaseOf(u) \in {"absent", "withdrawn"}
        BY <1>1, <2>7 DEF PhaseOf, Visible
    <3> QED
        BY <2>5, <3>1 DEF CrashOfRow
  <2> QED
      BY <2>6, <2>7
<1>9. Phase' = [u \in Inputs |->
                   CASE u \in Contract!In("running") -> p
                     [] u \in S -> "parked"
                     [] u \in Contract!In("waiting") \ S -> "answered"
                     [] OTHER -> Phase[u]]
  <2>1. ASSUME NEW u \in Inputs
        PROVE  Phase'[u] = CASE u \in Contract!In("running") -> p
                             [] u \in S -> "parked"
                             [] u \in Contract!In("waiting") \ S -> "answered"
                             [] OTHER -> Phase[u]
    <3>1. /\ u \in Contract!In("running") <=> Phase[u] = "running"
          /\ u \in S <=> Phase[u] = "waiting" /\ Phase'[u] = "parked"
          /\ u \in Contract!In("waiting") \ S <=> Phase[u] = "waiting" /\ Phase'[u] # "parked"
        BY DEF Contract!In
    <3>2. Phase[u] \in {"absent", "withdrawn", "running", "waiting", "parked", "answered"}
        BY RowPhases DEF Phase, PhaseOf
    <3>3. /\ Phase[u] = "running" => Phase'[u] = p
          /\ Phase[u] = "waiting" => Phase'[u] \in {"parked", "answered"}
          /\ Phase[u] \in {"absent", "withdrawn", "parked", "answered"} => Phase'[u] = Phase[u]
        BY <1>8 DEF CrashOfRow
    <3> HIDE DEF S
    <3> QED
        BY <3>1, <3>2, <3>3
  <2>2. Phase' = [u \in Inputs |-> Phase'[u]]
      BY DEF Phase
  <2> QED
      BY <2>1, <2>2
<1>10. S \in SUBSET Contract!In("waiting")
    OBVIOUS
<1> HIDE DEF S
<1>11. Contract!Crash
    BY <1>9, <1>10 DEF Contract!Crash
<1> QED
    BY <1>6, <1>11 DEF PhaseStep, Contract!Next

\* A crash, also in the middle of a rollback.
LEMMA CrashesStep ==
    ASSUME LaneSound, LaneSound', PhaseInvariant,
           Restart \/ \E r \in Runs : RestartMidRollback(r)
    PROVE  PhaseStep
<1> USE PhaseFacts
<1>1. CASE Restart
  <2>1. CrashLeaves(db)
      BY CarriageOfItself DEF CrashLeaves, RowsKept
  <2> QED
      BY <1>1, <2>1, CrashWithStep DEF Restart
<1>2. ASSUME NEW r \in Runs, RestartMidRollback(r) PROVE PhaseStep
  <2> DEFINE d == Rollback(db, r)
  <2>1. /\ r \in Inputs /\ CrashWith(d) /\ turn[r].stage \in InStream
        /\ CanEnd(r, "error") /\ Undone(r, "error")
      BY <1>2, LaunchedRuns DEF RestartMidRollback, Undone, Unsettled
  <2>2. r \in Running
      BY <2>1 DEF Running
  <2>3. d \in Databases /\ RowsKept(db, d) /\ d.msgs = db.msgs
      BY <2>1, RunRollback DEF LaneSound
  <2>4. CarriageKept(db, d) /\ \A j \in Inputs : /\ d.aseq[j] \in {0, db.aseq[j]}
                                                 /\ d.astatus[j] \in {"none", db.astatus[j]}
      BY <2>1, RollbackKeepsCarriage
  <2>5. \A j \in Inputs : db.astatus[j] # "paused"
      BY <2>1, <2>2, RunFacts
  <2> HIDE DEF d
  <2>6. CrashLeaves(d)
      BY <2>3, <2>4, <2>5 DEF CrashLeaves
  <2> QED
      BY <2>1, <2>6, CrashWithStep
<1> QED
    BY <1>1, <1>2

-----------------------------------------------------------------------------
(* The lane implements the contract. *)

LEMMA TurnStepMeets ==
    ASSUME LaneSound, LaneSound', PhaseInvariant, NEW r \in Runs, TurnStep(r)
    PROVE  PhaseStep
<1>1. CASE r = Resumed
    BY <1>1, ResumedRunStep
<1>2. CASE r # Resumed
  <2>1. r \in Inputs /\ r \in Running
      BY <1>2, LaunchedRuns, RunningStage
  <2>2. CASE TurnUserFact(r) \/ TurnReserve(r) \/ TurnRegister(r) \/ ProviderStart(r)
      BY <2>1, <2>2, GoOnStep
  <2>3. CASE TurnBlock(r)
      BY <2>1, <2>3, BlockLeaves, RunEnds
  <2>4. ASSUME NEW result \in Results, StreamEnd(r, result) PROVE PhaseStep
      BY <2>1, <2>4, StreamEndLeaves, RunEnds
  <2>5. ASSUME NEW late \in BOOLEAN, AbortedPreStream(r, late) PROVE PhaseStep
      BY <2>1, <2>5, AbortedLeaves, RunEnds
  <2>6. CASE FailedPreStream(r)
      BY <2>1, <2>6, FailedLeaves, RunEnds
  <2> QED
      BY <2>2, <2>3, <2>4, <2>5, <2>6 DEF TurnStep
<1> QED
    BY <1>1, <1>2

LEMMA AdmissionMeets ==
    ASSUME LaneSound, LaneSound', PhaseInvariant, Admission
    PROVE  PhaseStep
<1>1. ASSUME NEW u \in Inputs, SteerText(u) PROVE PhaseStep
    BY <1>1, SteerSteps
<1>2. CASE SteerAccept
    BY <1>2, SteerSteps
<1>3. ASSUME NEW u \in Inputs, SteerPrepare(u) PROVE PhaseStep
    BY <1>3, IdleSteps
<1>4. CASE SteerDrop
    BY <1>4, IdleSteps
<1>5. ASSUME NEW u \in Inputs, NEW src \in {"send", "queue"}, Queue(u, src) PROVE PhaseStep
    BY <1>5, QueueStep
<1>6. ASSUME NEW i \in Inputs, PromoteClaim(i) PROVE PhaseStep
    BY <1>6, PromotionSteps
<1>7. CASE PromoteBlock \/ PromoteFail
    BY <1>7, PromotionSteps
<1>8. CASE PromoteFinish
    BY <1>8, PromoteFinishStep
<1>9. ASSUME NEW i \in Inputs, Update(i) \/ ResolveBlocked(i) \/ Retry(i) PROVE PhaseStep
    BY <1>9, EditsOfTheQueue
<1>10. ASSUME NEW i \in Inputs, NEW j \in Inputs, Move(i, j) PROVE PhaseStep
    BY <1>10, EditsOfTheQueue
<1>11. ASSUME NEW i \in Inputs, Delete(i) PROVE PhaseStep
    BY <1>11, DeleteStep
<1>12. ASSUME NEW i \in Inputs, ResumeQueue(i) PROVE PhaseStep
    BY <1>12, ResumeQueueStep
<1> QED
    BY <1>1, <1>2, <1>3, <1>4, <1>5, <1>6, <1>7, <1>8, <1>9, <1>10, <1>11, <1>12 DEF Admission

LEMMA NextMeets ==
    ASSUME LaneSound, LaneSound', PhaseInvariant, [Next]_vars
    PROVE  PhaseStep
<1>1. CASE Admission
    BY <1>1, AdmissionMeets
<1>2. ASSUME NEW i \in Inputs, DrainLaunch(i) PROVE PhaseStep
    BY <1>2, DrainLaunchStep
<1>3. CASE DrainIdle \/ NextIfReady
    BY <1>3, IdleSteps
<1>4. ASSUME NEW r \in Runs, TurnStep(r) PROVE PhaseStep
    BY <1>4, TurnStepMeets
<1>5. ASSUME NEW i \in Inputs, Finalize(i) PROVE PhaseStep
    BY <1>5, FinalizeStep
<1>6. CASE Cancel \/ \E a \in Inputs : Respond(a)
    BY <1>6, SignalSteps
<1>7. CASE Restart \/ \E r \in Runs : RestartMidRollback(r)
    BY <1>7, CrashesStep
<1>8. CASE UNCHANGED vars
    BY <1>8, CarriageOfItself, RestingStep DEF vars, SubmissionsKept, VisibleKept, TurnsStay
<1> QED
    BY <1>1, <1>2, <1>3, <1>4, <1>5, <1>6, <1>7, <1>8 DEF Next, Drain

LEMMA PhaseInit == Init => PhaseInvariant /\ Contract!Init
<1> SUFFICES ASSUME Init PROVE PhaseInvariant /\ Contract!Init
    OBVIOUS
<1>1. /\ hist.accepted = {} /\ hist.withdrawn = {} /\ hist.submitted = 0
      /\ \A i \in Inputs : db.state[i] = "none" /\ db.aseq[i] = 0 /\ db.astatus[i] = "none"
      /\ \A r \in Runs : turn[r].stage = "none"
    BY DEF Init, EmptyDatabase, NoTurn
<1>2. Resumed \in Runs /\ Inputs \subseteq Runs
    BY NoneIsNoRun
<1>3. PhaseInvariant
    BY <1>1, <1>2 DEF PhaseInvariant, CarriersStand, Carries, AnswerStanding, Resumable, InStream
<1>4. Contract!Init
    BY <1>1 DEF Contract!Init, Phase, PhaseOf
<1> QED
    BY <1>3, <1>4

LEMMA LaneIsSound == Spec => []LaneSound
BY OwnershipHolds, ClaimsHold, BoundaryHolds, PTL DEF LaneSound

\* Why each step of the lane is one of the contract: a message has one carrier, and a row
\* is answered in one place, by its own turn or by the run that resumes it.
THEOREM PhasesHold == Spec => []PhaseInvariant
<1>1. Init => PhaseInvariant
    BY PhaseInit
<1>2. LaneSound /\ LaneSound' /\ PhaseInvariant /\ [Next]_vars => PhaseInvariant'
    BY NextMeets DEF PhaseStep
<1> QED
    BY <1>1, <1>2, LaneIsSound, PTL DEF Spec

\* Rows, leases, claims, transcript and crashes together keep the contract of the session:
\* one batch is answered at a time, nothing parked starts unapproved, and nothing answered
\* or withdrawn starts again, for any number of inputs and every event.
THEOREM LaneMeetsContract == Spec => MeetsContract
<1>1. Init => Contract!Init
    BY PhaseInit
<1>2. LaneSound /\ LaneSound' /\ PhaseInvariant /\ [Next]_vars => [Contract!Next]_Phase
    BY NextMeets DEF PhaseStep
<1>3. Spec => Contract!Init /\ [][Contract!Next]_Phase
    BY <1>1, <1>2, LaneIsSound, PhasesHold, PTL DEF Spec
<1> QED
    BY <1>3 DEF MeetsContract, Contract!Spec

-----------------------------------------------------------------------------
(* The order of the answers. *)

LEMMA OrderNext ==
    ASSUME AnswersPlaced(db'), AnsweredBelow(db'),
           \A i \in Inputs : IsOpenSteer(db', i) => inst'.openSteer = i,
           \A a, u \in Inputs : Answering(a)' /\ IsUnread(db', u) => db'.aseq[a] < db'.seq[u]
    PROVE  SteerOrderInvariant'
BY DEF SteerOrderInvariant, AnswersPlaced, AnsweredBelow, SteerRows, IsOpenSteer, IsUnread, Exists

\* A calm step that starts no answer below an unread message.
LEMMA CalmStep ==
    ASSUME LaneSound, LaneSound', PhaseInvariant, SteerOrderInvariant, Calm(db, db'),
           inst'.openSteer = inst.openSteer,
           \A a, u \in Inputs : Answering(a)' /\ IsUnread(db, u) =>
                                    Answering(a) /\ db'.aseq[a] <= db.aseq[a]
    PROVE  SteerOrderInvariant'
<1> USE PhaseFacts
<1>1. /\ AnswersPlaced(db) /\ AnsweredBelow(db)
      /\ \A i \in Inputs : IsOpenSteer(db, i) => inst.openSteer = i
      /\ \A a, u \in Inputs : Answering(a) /\ IsUnread(db, u) => db.aseq[a] < db.seq[u]
    BY DEF SteerOrderInvariant
<1>2. AnswersPlaced(db')
    BY <1>1 DEF Calm
<1>3. AnsweredBelow(db')
    BY <1>1, CalmKeepsAnswers
<1>4. \A i \in Inputs : IsOpenSteer(db', i) => inst'.openSteer = i
    BY <1>1 DEF Calm
<1>5. ASSUME NEW a \in Inputs, NEW u \in Inputs, Answering(a)', IsUnread(db', u)
      PROVE  db'.aseq[a] < db'.seq[u]
  <2>1. IsUnread(db, u) /\ db'.seq[u] = db.seq[u]
      BY <1>5 DEF Calm
  <2>2. Answering(a) /\ db'.aseq[a] <= db.aseq[a]
      BY <1>5, <2>1
  <2>3. db.aseq[a] < db.seq[u]
      BY <1>1, <2>1, <2>2
  <2>4. db.aseq[a] \in Nat /\ db'.aseq[a] \in Nat /\ db.seq[u] \in Nat
      BY DEF Databases
  <2> QED
      BY <2>1, <2>2, <2>3, <2>4
<1> QED
    BY <1>2, <1>3, <1>4, <1>5, OrderNext

\* A step that leaves the turns and the answers alone, up to the signals.
LEMMA QuietOrder ==
    ASSUME LaneSound, LaneSound', PhaseInvariant, SteerOrderInvariant, Calm(db, db'),
           inst'.openSteer = inst.openSteer, AnswersKept(db, db'), TurnsStay
    PROVE  SteerOrderInvariant'
<1> USE PhaseFacts
<1>1. \A a \in Inputs : Answering(a)' => Answering(a)
    BY DEF Answering, Running, AnswersKept, TurnsStay
<1>2. \A a \in Inputs : db'.aseq[a] = db.aseq[a] /\ db.aseq[a] \in Nat
    BY DEF AnswersKept, Databases
<1> QED
    BY <1>1, <1>2, CalmStep

\* No message is unread after a calm step from a database where none is.
LEMMA RestingOrder ==
    ASSUME LaneSound, LaneSound', PhaseInvariant, NEW d \in Databases,
           AnswersPlaced(d), AnsweredBelow(d), Calm(d, db'),
           \A u \in Inputs : ~IsUnread(d, u) /\ ~IsOpenSteer(d, u)
    PROVE  SteerOrderInvariant'
<1> USE PhaseFacts
<1>1. AnswersPlaced(db') /\ AnsweredBelow(db')
    BY CalmKeepsAnswers DEF Calm
<1>2. \A u \in Inputs : ~IsUnread(db', u) /\ ~IsOpenSteer(db', u)
    BY DEF Calm
<1> QED
    BY <1>1, <1>2, OrderNext

\* The user edits, moves, resolves or deletes rows of the queue, or releases them.
LEMMA QueueEditsOrder ==
    ASSUME LaneSound, LaneSound', PhaseInvariant, SteerOrderInvariant,
           \/ \E i \in Inputs : Update(i) \/ ResolveBlocked(i) \/ Retry(i) \/ Delete(i)
           \/ \E i, j \in Inputs : Move(i, j)
           \/ \E h \in Inputs : ResumeQueue(h)
    PROVE  SteerOrderInvariant'
<1> USE PhaseFacts
<1>1. ASSUME NEW i \in Inputs, Update(i) \/ ResolveBlocked(i) \/ Retry(i) \/ Delete(i)
      PROVE  SteerOrderInvariant'
  <2>1. /\ db.mode[i] = "queue" /\ db.state[i] # "none"
        /\ db' = SetState(db, i, "pending") \/ db' = DeleteRow(db, i)
        /\ inst' = inst /\ turn' = turn
      BY <1>1
      DEF Update, ResolveBlocked, Retry, Delete, WaitingQueue, QueueRows, ClaimStanding,
          WaitingStates
  <2>2. "pending" \in RowStates
      BY DEF RowStates
  <2>3. Calm(db, db')
      BY <2>1, <2>2, QueueEditsAreCalm
  <2>4. AnswersKept(db, db')
    <3>1. CASE db' = SetState(db, i, "pending")
        BY <2>1, <3>1, RowsKeepCarriage
    <3>2. CASE db' = DeleteRow(db, i)
        BY <3>2, DeleteRowKeepsCarriage
    <3> QED
        BY <2>1, <3>1, <3>2
  <2> QED
      BY <2>1, <2>3, <2>4, QuietOrder DEF TurnsStay
<1>2. ASSUME NEW i \in Inputs, NEW j \in Inputs, Move(i, j) PROVE SteerOrderInvariant'
  <2>1. db' \in Moves(db, i, j) /\ UNCHANGED <<inst, turn>>
      BY <1>2 DEF Move
  <2>2. AnswersKept(db, db')
      BY <2>1, MovesKeepCarriage
  <2>3. Untouched(db, db')
      BY <2>1, MovesRows, MovesLeaveMessages DEF Untouched
  <2>4. \A k \in Inputs : db'.aseq[k] = db.aseq[k] /\ db.aseq[k] \in Nat
      BY <2>2 DEF AnswersKept, Databases
  <2>5. Calm(db, db')
      BY <2>3, <2>4, UntouchedIsCalm DEF SteerRows
  <2> QED
      BY <2>1, <2>2, <2>5, QuietOrder DEF TurnsStay
<1>3. ASSUME NEW h \in Inputs, ResumeQueue(h) PROVE SteerOrderInvariant'
    BY <1>3, CalmOfItself, CarriageOfItself, QuietOrder DEF ResumeQueue, TurnsStay
<1> QED
    BY <1>1, <1>2, <1>3

\* Steps that change no row and no message.
LEMMA IdleOrder ==
    ASSUME LaneSound, LaneSound', PhaseInvariant, SteerOrderInvariant,
           \/ \E u \in Inputs : SteerPrepare(u)
           \/ SteerDrop \/ DrainIdle \/ NextIfReady \/ UNCHANGED vars
    PROVE  SteerOrderInvariant'
<1> USE PhaseFacts
<1>1. UNCHANGED <<db, inst, turn>>
    BY DEF SteerPrepare, SteerDrop, DrainIdle, NextIfReady, vars
<1> QED
    BY <1>1, CalmOfItself, CarriageOfItself, QuietOrder DEF TurnsStay

LEMMA FinalizeOrder ==
    ASSUME LaneSound, LaneSound', PhaseInvariant, SteerOrderInvariant, NEW i \in Inputs,
           Finalize(i)
    PROVE  SteerOrderInvariant'
<1> USE PhaseFacts
<1>1. /\ turn[i].stage = "finishing" /\ turn' = [turn EXCEPT ![i] = NoTurn]
      /\ UNCHANGED <<db, inst>>
    BY DEF Finalize
<1>2. turn'[i].stage = "none" /\ \A r \in Runs \ {i} : turn'[r] = turn[r]
    BY <1>1 DEF NoTurn
<1>3. \A a \in Inputs : Answering(a)' => Answering(a)
    BY <1>1, <1>2 DEF Answering, Running, PreStream, InStream
<1>4. \A a \in Inputs : db'.aseq[a] = db.aseq[a] /\ db.aseq[a] \in Nat
    BY <1>1 DEF Databases
<1>5. Calm(db, db')
    BY <1>1, CalmOfItself
<1> QED
    BY <1>1, <1>3, <1>4, <1>5, CalmStep

\* Stop, and the answer of the user to a paused message.
LEMMA SignalOrder ==
    ASSUME LaneSound, LaneSound', PhaseInvariant, SteerOrderInvariant,
           Cancel \/ \E a \in Inputs : Respond(a)
    PROVE  SteerOrderInvariant'
<1> USE PhaseFacts
<1>1. ASSUME Calm(db, db'), inst'.openSteer = inst.openSteer, db'.aseq = db.aseq,
             \A a \in Inputs : Answering(a)' => Answering(a)
      PROVE  SteerOrderInvariant'
  <2>1. \A a \in Inputs : db'.aseq[a] = db.aseq[a] /\ db.aseq[a] \in Nat
      BY <1>1 DEF Databases
  <2> QED
      BY <1>1, <2>1, CalmStep
<1>2. ASSUME NEW astatus, db' = [db EXCEPT !.astatus = astatus] PROVE Calm(db, db') /\ db'.aseq = db.aseq
  <2>1. Untouched(db, db') /\ db'.aseq = db.aseq
    <3>1. db.tail \in Nat /\ db.tail >= db.tail
        BY DEF Databases
    <3> QED
        BY <1>2, <3>1 DEF Untouched, RowsKept, MessagesKept, Databases
  <2>2. \A j \in Inputs : db'.aseq[j] <= db.aseq[j]
      BY <2>1 DEF Databases
  <2> QED
      BY <2>1, <2>2, UntouchedIsCalm
<1>3. ASSUME NEW r \in Runs, turn' = Stopped(r), db' = db, inst'.openSteer = inst.openSteer
      PROVE  SteerOrderInvariant'
  <2>1. TurnsStay
      BY <1>3 DEF TurnsStay, Stopped, Turns
  <2> QED
      BY <1>3, <2>1, CalmOfItself, CarriageOfItself, QuietOrder
<1>4. CASE /\ UNCHANGED turn
           /\ db' = [db EXCEPT !.astatus = [i \in Inputs |->
                        IF db.astatus[i] = "paused" THEN "error" ELSE db.astatus[i]]]
           /\ inst' = [inst EXCEPT !.status = "idle"]
  <2>1. \A a \in Inputs : db'.astatus[a] # "paused"
      BY <1>4 DEF Databases
  <2>2. \A a \in Inputs : Answering(a)' => Answering(a)
      BY <1>4, <2>1 DEF Answering, Running
  <2>3. inst'.openSteer = inst.openSteer
      BY <1>4 DEF Instances
  <2>4. Calm(db, db') /\ db'.aseq = db.aseq
      BY <1>2, <1>4
  <2> QED
      BY <1>1, <2>2, <2>3, <2>4
<1>5. ASSUME NEW a \in Inputs, Respond(a) PROVE SteerOrderInvariant'
  <2>1. /\ db.astatus[a] = "paused" /\ db' = [db EXCEPT !.astatus[a] = "pending"]
        /\ \A r \in Runs \ {Resumed} : turn'[r] = turn[r]
        /\ turn'[Resumed].answer = a /\ inst'.openSteer = inst.openSteer
      BY <1>5 DEF Respond, Instances
  <2>2. \A b \in Inputs \ {a} : db'.astatus[b] = db.astatus[b]
      BY <2>1 DEF Databases
  <2>3. \A b \in Inputs : Answering(b)' => Answering(b)
      BY <2>1, <2>2 DEF Answering, Running
  <2>4. Calm(db, db') /\ db'.aseq = db.aseq
      BY <1>2, <2>1
  <2> QED
      BY <1>1, <2>1, <2>3, <2>4
<1>6. CASE Cancel
  <2>1. CASE inst.active # None /\ turn' = Stopped(inst.active) /\ UNCHANGED <<db, inst>>
      BY <1>3, <2>1 DEF Instances
  <2>2. CASE /\ inst.controller # None /\ turn' = Stopped(inst.controller)
             /\ inst' = [inst EXCEPT !.controller = None] /\ UNCHANGED db
      BY <1>3, <2>2 DEF Instances
  <2> QED
      BY <1>4, <1>6, <2>1, <2>2 DEF Cancel
<1> QED
    BY <1>5, <1>6

\* One steer row is open at most: when the pump finds none, none is, and no message is unread.
LEMMA NoSteerOpen ==
    ASSUME LaneSound, LaneSound', PhaseInvariant, SteerOrderInvariant, NextSteer(db) = {}
    PROVE  \A u \in Inputs : ~IsUnread(db, u) /\ ~IsOpenSteer(db, u)
<1> USE PhaseFacts
<1>1. ASSUME NEW i \in Inputs, IsOpenSteer(db, i) PROVE FALSE
  <2>1. \A j \in WaitingSteer(db) : IsOpenSteer(db, j)
    <3>1. ASSUME NEW j \in WaitingSteer(db) PROVE IsOpenSteer(db, j)
      <4>1. j \in Inputs /\ db.mode[j] = "steer" /\ db.state[j] \in {"pending", "blocked"}
          BY DEF WaitingSteer
      <4>2. db.state[j] # "blocked"
          BY <4>1 DEF ClaimStanding
      <4> QED
          BY <4>1, <4>2 DEF IsOpenSteer
    <3> QED
        BY <3>1
  <2>2. \A j \in WaitingSteer(db) : j = i
      BY <1>1, <2>1 DEF SteerOrderInvariant, WaitingSteer
  <2>3. i \in NextSteer(db)
      BY <1>1, <2>2 DEF NextSteer, WaitingSteer, IsOpenSteer
  <2> QED
      BY <2>3
<1>2. \A u \in Inputs : ~IsUnread(db, u)
    BY <1>1 DEF BoundaryInvariant, Placed
<1> QED
    BY <1>1, <1>2

\* Row i is launched from a database where no message is unread.
LEMMA LaunchOrder ==
    ASSUME LaneSound, LaneSound', PhaseInvariant, NEW d \in Databases, NEW i \in Inputs,
           NEW source, Launch(d, i, source), source # "steer" => d.mode[i] = "queue",
           AnswersPlaced(d), AnsweredBelow(d),
           \A u \in Inputs : ~IsUnread(d, u) /\ ~IsOpenSteer(d, u)
    PROVE  SteerOrderInvariant'
<1> USE PhaseFacts
<1>1. CASE db' = d
    BY <1>1, CalmOfItself, RestingOrder
<1>2. CASE source = "steer" /\ db' = Consume(SetAssistant(d, i, "error"), i)
  <2> DEFINE w == SetAssistant(d, i, "error")
  <2>1. "error" \in AssistantStates
      BY DEF AssistantStates
  <2>2. w \in Databases
      BY <2>1, SetAssistantType
  <2>3. Calm(d, w)
      BY <2>1, AnswersAreCalm
  <2>4. db' = Consume(w, i)
      BY <1>2
  <2> HIDE DEF w
  <2>5. Calm(w, db')
      BY <2>2, <2>4, ConsumeIsCalm
  <2>6. Calm(d, db')
      BY <2>2, <2>3, <2>5, CalmIsTransitive
  <2> QED
      BY <2>6, RestingOrder
<1>3. CASE source # "steer" /\ db' = Release(d, i, "retry_required")
  <2>1. "retry_required" \in RowStates
      BY DEF RowStates
  <2>2. Calm(d, db')
      BY <1>3, <2>1, QueueEditsAreCalm
  <2> QED
      BY <2>2, RestingOrder
<1> QED
    BY <1>1, <1>2, <1>3 DEF Launch

\* The pump claims a row: no steer row is left open, and the answer of a steer row is
\* reserved at the end of the transcript.
LEMMA DrainLaunchOrder ==
    ASSUME LaneSound, LaneSound', PhaseInvariant, SteerOrderInvariant, NEW i \in Inputs,
           DrainLaunch(i)
    PROVE  SteerOrderInvariant'
<1> USE PhaseFacts
<1> DEFINE d == Claim(db, i)
           source == IF db.mode[i] = "steer" THEN "steer" ELSE "queue"
<1>1. i \in NextInput(db) /\ Launch(d, i, source) /\ ~HasClaimed(db)
    BY DEF DrainLaunch, Drainable, DrainReady
<1>2. d \in Databases /\ RowWritten(db, d, i, "claimed", db.mode[i])
    BY ClaimType, ClaimRows
<1>3. AnswersPlaced(db) /\ AnsweredBelow(db)
    BY DEF SteerOrderInvariant
<1>4. CASE db.mode[i] = "queue"
  <2>1. NextSteer(db) = {}
      BY <1>1, <1>4 DEF NextInput, NextSteer, WaitingSteer
  <2>2. d = SetState(db, i, "claimed") /\ "claimed" \in RowStates
      BY <1>4 DEF Claim, RowStates
  <2>3. Calm(db, d)
      BY <1>4, <2>2, QueueEditsAreCalm
  <2>4. source = "queue"
      BY <1>4
  <2> HIDE DEF d, source
  <2>5. \A u \in Inputs : ~IsUnread(db, u) /\ ~IsOpenSteer(db, u)
      BY <2>1, NoSteerOpen
  <2>6. \A u \in Inputs : ~IsUnread(d, u) /\ ~IsOpenSteer(d, u)
      BY <2>3, <2>5 DEF Calm
  <2>7. AnswersPlaced(d)
      BY <1>3, <2>3 DEF Calm
  <2>8. AnsweredBelow(d)
      BY <1>2, <1>3, <2>3, CalmKeepsAnswers
  <2>9. d.mode[i] = "queue"
      BY <1>2, <1>4 DEF RowWritten
  <2> QED
      BY <1>1, <1>2, <2>6, <2>7, <2>8, <2>9, LaunchOrder
<1>5. CASE db.mode[i] = "steer"
  <2>1. db.state[i] = "pending" /\ IsOpenSteer(db, i)
      BY <1>1, <1>5 DEF NextInput, NextSteer, NextQueue, IsOpenSteer
  <2>2. /\ AnswerWritten(db, d, i, db.tail + 1, "pending")
        /\ CarriageKept(db, d)
      BY <1>5, <2>1, ClaimKeepsCarriage
  <2>3. Placed(d)
      BY <1>5, <2>1, ClaimSteerStory DEF BoundaryInvariant
  <2>4. d.tail = db.tail + 1 /\ d.seq = db.seq
      BY <1>5 DEF Claim, ClaimSteer, WriteAssistant, Databases
  <2>5. source = "steer"
      BY <1>5
  <2> HIDE DEF d, source
  <2>6. \A j \in Inputs : ~IsOpenSteer(d, j)
    <3>1. ASSUME NEW j \in Inputs, IsOpenSteer(d, j) PROVE FALSE
      <4>1. j # i /\ IsOpenSteer(db, j)
          BY <1>2, <3>1 DEF IsOpenSteer, RowWritten
      <4> QED
          BY <2>1, <4>1 DEF SteerOrderInvariant
    <3> QED
        BY <3>1
  <2>7. \A u \in Inputs : ~IsUnread(d, u) /\ ~IsOpenSteer(d, u)
      BY <2>3, <2>6 DEF Placed
  <2>8. db.tail \in Nat /\ \A j \in Inputs : db.aseq[j] \in Nat /\ db.seq[j] \in Nat
      BY DEF Databases
  <2>9. AnswersPlaced(d)
      BY <1>3, <2>2, <2>4, <2>8 DEF AnswersPlaced, AnswerWritten
  <2>10. ASSUME NEW j \in SteerRows(d, "claimed"), NEW u \in d.msgs[j] PROVE d.seq[u] < d.aseq[j]
    <3>1. j \in Inputs /\ d.state[j] = "claimed"
        BY DEF SteerRows
    <3>2. j = i
        BY <1>1, <1>2, <3>1 DEF HasClaimed, RowWritten
    <3>3. d.aseq[j] = db.tail + 1
        BY <2>2, <3>2 DEF AnswerWritten
    <3>4. u \in Inputs
        BY <1>2, <3>1 DEF Databases
    <3>5. db.seq[u] <= db.tail
        BY <3>4 DEF BoundaryInvariant, Placed
    <3> QED
        BY <2>4, <2>8, <3>3, <3>4, <3>5
  <2>11. AnsweredBelow(d)
      BY <2>10 DEF AnsweredBelow
  <2> QED
      BY <1>1, <1>2, <2>5, <2>7, <2>9, <2>11, LaunchOrder
<1> QED
    BY <1>4, <1>5

\* A message is submitted to the queue.
LEMMA QueueOrder ==
    ASSUME LaneSound, LaneSound', PhaseInvariant, SteerOrderInvariant, NEW u \in Inputs,
           NEW src \in {"send", "queue"}, Queue(u, src)
    PROVE  SteerOrderInvariant'
<1> USE PhaseFacts
<1>1. u = hist.submitted + 1
    BY DEF Queue
<1>2. ASSUME NEW s \in {"pending", "claimed"}, NEW d, d = Enqueue(db, u, s)
      PROVE  d \in Databases /\ AnswersKept(db, d) /\ Calm(db, d) /\ d.mode[u] = "queue"
  <2>1. /\ d \in Databases /\ AnswersKept(db, d) /\ RowWritten(db, d, u, s, "queue")
        /\ \A j \in Inputs \ {u} : d.msgs[j] = db.msgs[j]
      BY <1>1, <1>2, EnqueuedRow
  <2>2. MessagesKept(db, d)
      BY <1>2, RowsLeaveMessages
  <2>3. Calm(db, d)
      BY <2>1, <2>2, QueueRowIsCalm
  <2> QED
      BY <2>1, <2>3 DEF RowWritten
<1>3. CASE Claimable(src) /\ Launch(Enqueue(db, u, "claimed"), u, src)
  <2> DEFINE d == Enqueue(db, u, "claimed")
  <2>1. Launch(d, u, src)
      BY <1>3
  <2>2. d \in Databases /\ Calm(db, d) /\ d.mode[u] = "queue"
      BY <1>2
  <2> HIDE DEF d
  <2>3. NextSteer(db) = {}
    <3>1. \A i \in NextSteer(db) : i \in Inputs /\ db.mode[i] = "steer"
        BY DEF NextSteer, WaitingSteer
    <3>2. \A i \in NextSteer(db) : i \notin pump.held
        BY <3>1 DEF ReplayStanding
    <3>3. NextInput(db) \ pump.held = {}
        BY <1>3 DEF Claimable
    <3> QED
        BY <3>2, <3>3 DEF NextInput
  <2>4. \A v \in Inputs : ~IsUnread(db, v) /\ ~IsOpenSteer(db, v)
      BY <2>3, NoSteerOpen
  <2>5. \A v \in Inputs : ~IsUnread(d, v) /\ ~IsOpenSteer(d, v)
      BY <2>2, <2>4 DEF Calm
  <2>6. AnswersPlaced(d)
      BY <2>2 DEF Calm, SteerOrderInvariant
  <2>7. AnsweredBelow(d)
      BY <2>2, CalmKeepsAnswers DEF SteerOrderInvariant
  <2> QED
      BY <2>1, <2>2, <2>5, <2>6, <2>7, LaunchOrder
<1>4. CASE db' = Enqueue(db, u, "pending") /\ UNCHANGED <<inst, turn>>
  <2>1. AnswersKept(db, db') /\ Calm(db, db')
      BY <1>2, <1>4
  <2> QED
      BY <1>4, <2>1, QuietOrder DEF TurnsStay
<1> QED
    BY <1>3, <1>4 DEF Queue

\* A visible steer message goes below every answer there is, into the one open row.
LEMMA AcceptVisibleSteerOrder ==
    ASSUME LaneSound, LaneSound', PhaseInvariant, SteerOrderInvariant,
           NEW u \in Inputs, u = hist.submitted + 1, NEW seen, AcceptVisibleSteer(u, seen)
    PROVE  SteerOrderInvariant'
<1> USE PhaseFacts
<1>1. /\ db' \in {AcceptSteer(db, u, inst.openSteer), AcceptSteer(Materialize(db), u, inst.openSteer)}
      /\ turn' = turn \/ turn' = HandOff
      /\ inst'.openSteer = OpenAfter(u)
    BY DEF AcceptVisibleSteer, Instances
<1>2. Calm(db, Materialize(db))
  <2>1. ASSUME NEW c \in Unmaterialized(db), NEW j \in SteerRows(db, "claimed"), c \in db.msgs[j]
        PROVE  FALSE
    <3>1. c \in Inputs /\ db.mode[c] = "queue" /\ db.state[c] = "claimed"
        BY DEF Unmaterialized, QueueRows
    <3>2. j \in Inputs /\ Carries(j, c) /\ c # j
        BY <2>1, <3>1 DEF SteerRows, Carries
    <3>3. db.state[c] = "none"
        BY <3>1, <3>2 DEF PhaseInvariant, CarriersStand
    <3> QED
        BY <3>1, <3>3
  <2> QED
      BY <2>1, MaterializeIsCalm
<1>3. PICK d \in Databases : /\ db' = AcceptSteer(d, u, inst.openSteer) /\ RowsKept(db, d)
                             /\ AnswersKept(db, d) /\ Calm(db, d)
  <2>1. Materialize(db) \in Databases /\ RowsKept(db, Materialize(db))
      BY MaterializeType, MaterializeRows
  <2>2. AnswersKept(db, Materialize(db))
      BY MaterializeKeepsCarriage
  <2>3. AnswersKept(db, db) /\ RowsKept(db, db) /\ Calm(db, db)
      BY CarriageOfItself, CalmOfItself DEF RowsKept
  <2> QED
      BY <1>1, <1>2, <2>1, <2>2, <2>3
<1>4. AnswersPlaced(d) /\ AnsweredBelow(d)
    BY <1>3, CalmKeepsAnswers DEF Calm, SteerOrderInvariant
<1>5. /\ MessageWritten(d, db', u, "pending", "unread")
      /\ IF IsOpenSteer(d, inst.openSteer)
         THEN /\ RowsKept(d, db')
              /\ LinkWritten(d, db', inst.openSteer, d.msgs[inst.openSteer] \cup {u})
         ELSE RowWritten(d, db', u, "pending", "steer") /\ LinkWritten(d, db', u, {u})
    BY <1>3, AcceptSteerEffect
<1>6. db'.aseq = d.aseq /\ db'.aseq = db.aseq /\ db'.astatus = db.astatus
  <2>1. AnswersKept(d, db')
      BY <1>3 DEF AnswersKept, AcceptSteer, WriteUserMessage
  <2> QED
      BY <1>3, <2>1 DEF AnswersKept
<1>7. /\ d.tail \in Nat /\ \A j \in Inputs : d.aseq[j] \in Nat /\ d.seq[j] \in Nat
      /\ \A j \in Inputs : d.msgs[j] \subseteq Inputs /\ db'.msgs[j] \subseteq Inputs
    BY DEF Databases
<1>8. AnswersPlaced(db')
    BY <1>4, <1>5, <1>6, <1>7 DEF AnswersPlaced, MessageWritten
<1>9. \A k \in Inputs : ~Carries(k, u)
    BY NextSubmission
<1>10. ASSUME NEW j \in SteerRows(db', "claimed"), NEW v \in db'.msgs[j]
       PROVE  db'.seq[v] < db'.aseq[j]
  <2>1. j \in Inputs /\ db'.mode[j] = "steer" /\ db'.state[j] = "claimed" /\ v \in Inputs
      BY <1>7 DEF SteerRows
  <2>2. j \in SteerRows(d, "claimed") /\ db'.msgs[j] = d.msgs[j]
    <3>1. CASE IsOpenSteer(d, inst.openSteer)
      <4>1. d.mode[j] = "steer" /\ d.state[j] = "claimed"
          BY <1>5, <2>1, <3>1 DEF RowsKept
      <4>2. j # inst.openSteer
          BY <3>1, <4>1 DEF IsOpenSteer
      <4> QED
          BY <1>5, <2>1, <3>1, <4>1, <4>2 DEF LinkWritten, SteerRows
    <3>2. CASE ~IsOpenSteer(d, inst.openSteer)
      <4>1. j # u /\ d.mode[j] = "steer" /\ d.state[j] = "claimed"
          BY <1>5, <2>1, <3>2 DEF RowWritten
      <4> QED
          BY <1>5, <2>1, <3>2, <4>1 DEF LinkWritten, SteerRows
    <3> QED
        BY <3>1, <3>2
  <2>3. v # u
    <3>1. d.msgs[j] = db.msgs[j] /\ db.mode[j] = "steer" /\ db.state[j] = "claimed"
        BY <1>3, <2>2 DEF Calm, SteerRows
    <3>2. v = u => Carries(j, u)
        BY <2>2, <3>1 DEF Carries
    <3> QED
        BY <1>9, <2>1, <3>2
  <2>4. d.seq[v] < d.aseq[j]
      BY <1>4, <2>2 DEF AnsweredBelow
  <2> QED
      BY <1>5, <1>6, <2>1, <2>3, <2>4 DEF MessageWritten
<1>11. AnsweredBelow(db')
    BY <1>10 DEF AnsweredBelow
<1>12. ASSUME NEW j \in Inputs, IsOpenSteer(db', j) PROVE inst'.openSteer = j
  <2>1. \A k \in Inputs : IsOpenSteer(d, k) => inst.openSteer = k
      BY <1>3 DEF SteerOrderInvariant, Calm
  <2>2. IsOpenSteer(d, inst.openSteer) <=> IsOpenSteer(db, inst.openSteer)
      BY <1>3 DEF IsOpenSteer, RowsKept
  <2>3. CASE IsOpenSteer(d, inst.openSteer)
    <3>1. IsOpenSteer(d, j)
        BY <1>5, <1>12, <2>3 DEF RowsKept, IsOpenSteer
    <3> QED
        BY <1>1, <2>1, <2>2, <2>3, <3>1 DEF OpenAfter
  <2>4. CASE ~IsOpenSteer(d, inst.openSteer)
    <3>1. j # u => IsOpenSteer(d, j)
        BY <1>5, <1>12, <2>4 DEF RowWritten, IsOpenSteer
    <3>2. j = u
        BY <2>1, <2>4, <3>1
    <3> QED
        BY <1>1, <2>2, <2>4, <3>2 DEF OpenAfter
  <2> QED
      BY <2>3, <2>4
<1>13. TurnsStay
    BY <1>1, HandOffsStay
<1>14. ASSUME NEW a \in Inputs, NEW v \in Inputs, Answering(a)', IsUnread(db', v)
       PROVE  db'.aseq[a] < db'.seq[v]
  <2>1. Answering(a)
      BY <1>6, <1>13, <1>14 DEF Answering, Running, TurnsStay
  <2>2. CASE v = u
    <3>1. db'.seq[v] = d.tail + 1
        BY <1>5, <2>2 DEF MessageWritten
    <3>2. d.aseq[a] <= d.tail
        BY <1>4 DEF AnswersPlaced
    <3> QED
        BY <1>6, <1>7, <3>1, <3>2
  <2>3. CASE v # u
    <3>1. IsUnread(d, v) /\ db'.seq[v] = d.seq[v]
        BY <1>5, <1>14, <2>3 DEF MessageWritten, IsUnread, Exists
    <3>2. IsUnread(db, v) /\ d.seq[v] = db.seq[v]
        BY <1>3, <3>1 DEF Calm
    <3> QED
        BY <1>6, <2>1, <3>1, <3>2 DEF SteerOrderInvariant
  <2> QED
      BY <2>2, <2>3
<1> QED
    BY <1>8, <1>11, <1>12, <1>14, OrderNext

LEMMA SteerOrder ==
    ASSUME LaneSound, LaneSound', PhaseInvariant, SteerOrderInvariant,
           (\E u \in Inputs : SteerText(u)) \/ SteerAccept
    PROVE  SteerOrderInvariant'
<1>1. CASE SteerAccept
  <2>1. PICK u \in Inputs : u = call.item
      BY <1>1 DEF SteerAccept, LaneSound, OwnershipInvariant, LaneKnowsItem
  <2>2. u = hist.submitted + 1
      BY <1>1, <2>1 DEF SteerAccept, LaneSound, ClaimInvariant, SteerCallKept
  <2> QED
      BY <1>1, <2>1, <2>2, AcceptVisibleSteerOrder DEF SteerAccept
<1> QED
    BY <1>1, AcceptVisibleSteerOrder DEF SteerText

\* The run goes on: it moves its answer only while no message is unread.
LEMMA GoOnOrder ==
    ASSUME LaneSound, LaneSound', PhaseInvariant, SteerOrderInvariant,
           NEW r \in Inputs, r \in Running,
           TurnUserFact(r) \/ TurnReserve(r) \/ TurnRegister(r) \/ ProviderStart(r)
    PROVE  SteerOrderInvariant'
<1> USE PhaseFacts, RunFacts, RunRowFacts
<1>1. /\ \A k \in Runs \ {r} : turn'[k] = turn[k]
      /\ inst'.openSteer = inst.openSteer
  <2>1. \A k \in Runs \ {r} : turn'[k] = turn[k]
      BY DEF TurnUserFact, TurnReserve, TurnRegister, ProviderStart, Turns
  <2>2. inst'.openSteer = inst.openSteer
      BY DEF TurnUserFact, TurnReserve, TurnRegister, ProviderStart, Instances
  <2> QED
      BY <2>1, <2>2
<1>2. ASSUME Calm(db, db'), \A j \in Inputs : db'.astatus[j] # "paused",
             \A u \in Inputs : IsUnread(db, u) => db'.aseq[r] <= db.aseq[r]
      PROVE  SteerOrderInvariant'
  <2>1. \A a \in Inputs : Answering(a)' => a = r
    <3>1. ASSUME NEW a \in Inputs, Answering(a)', a # r PROVE FALSE
      <4>1. turn'[a] = turn[a] /\ turn'[Resumed] = turn[Resumed]
          BY <1>1, <3>1
      <4> QED
          BY <1>2, <3>1, <4>1 DEF Answering, Running, PreStream, InStream
    <3> QED
        BY <3>1
  <2>2. Answering(r)
      BY DEF Answering
  <2> QED
      BY <1>1, <1>2, <2>1, <2>2, CalmStep
<1>3. \A j \in Inputs : db.aseq[j] \in Nat /\ db.astatus[j] # "paused"
    BY DEF Databases
<1>4. ASSUME Calm(db, db'), AnswersKept(db, db') PROVE SteerOrderInvariant'
    BY <1>2, <1>3, <1>4 DEF AnswersKept
<1>5. CASE TurnUserFact(r)
  <2>1. turn[r].stage = "preparing" /\ db' = AppendUserFact(db, r)
      BY <1>5 DEF TurnUserFact
  <2>2. db.mode[r] = "queue" /\ turn[r].source # "steer"
      BY <2>1
  <2>3. SteerRows(db, "claimed") = {}
      BY <2>2, ClaimedSteer
  <2>4. Calm(db, db')
      BY <2>1, <2>2, <2>3, UserFactIsCalm
  <2>5. AnswersKept(db, db')
      BY <2>1, MessagesKeepCarriage
  <2> QED
      BY <1>4, <2>4, <2>5
<1>6. CASE TurnReserve(r)
  <2> DEFINE w == WriteAssistant(db, r)
  <2>1. CASE db' = db
      BY <1>4, <2>1, CalmOfItself, CarriageOfItself
  <2>2. CASE turn[r].source # "steer" /\ (db' = w \/ db' = Consume(w, r))
    <3>1. /\ turn[r].stage \in PreStream /\ turn[r].signal = "live"
        BY <1>6 DEF TurnReserve, PreStream
    <3>2. \A u \in Inputs : ~IsUnread(db, u)
        BY <2>2, <3>1 DEF BoundaryInvariant, TextStanding
    <3>3. r \notin SteerRows(db, "claimed")
        BY <2>2, ClaimedSteer
    <3>4. w \in Databases /\ Calm(db, w) /\ AnswerWritten(db, w, r, db.tail + 1, "pending")
        BY <3>3, WriteAssistantType, AnswersAreCalm, AnswersKeepCarriage DEF AssistantStates
    <3>5. RowsKept(db, w) /\ db.state[r] # "none"
        BY <1>6, MessagesRows DEF TurnReserve
    <3> HIDE DEF w
    <3>6. \A j \in Inputs : w.astatus[j] # "paused"
        BY <1>3, <3>4 DEF AnswerWritten
    <3>7. Calm(w, Consume(w, r))
        BY <3>4, ConsumeIsCalm
    <3>8. Calm(w, w)
        BY <3>4, CalmOfItself
    <3>9. AnswersKept(w, Consume(w, r))
        BY <3>4, <3>5, ConsumeKeepsCarriage DEF RowsKept
    <3>10. Calm(w, db') /\ \A j \in Inputs : db'.astatus[j] # "paused"
        BY <2>2, <3>6, <3>7, <3>8, <3>9 DEF AnswersKept
    <3>11. Calm(db, db')
        BY <3>4, <3>10, CalmIsTransitive
    <3> QED
        BY <1>2, <3>2, <3>10, <3>11
  <2> QED
      BY <1>6, <2>1, <2>2 DEF TurnReserve
<1>7. CASE TurnRegister(r)
    BY <1>4, <1>7, CalmOfItself, CarriageOfItself DEF TurnRegister
<1>8. CASE ProviderStart(r)
  <2>1. CASE db' = db
      BY <1>4, <2>1, CalmOfItself, CarriageOfItself
  <2>2. CASE db' = Consume(db, r) /\ Unsettled(r)
      BY <1>4, <2>2, ConsumeIsCalm, ConsumeKeepsCarriage
  <2> QED
      BY <1>8, <2>1, <2>2 DEF ProviderStart
<1> QED
    BY <1>5, <1>6, <1>7, <1>8

\* The run ends, and its own answer at most is left waiting, where it stood.
LEMMA RunEndOrder ==
    ASSUME LaneSound, LaneSound', PhaseInvariant, SteerOrderInvariant,
           NEW r \in Inputs, r \in Running, RunLeaves(r)
    PROVE  SteerOrderInvariant'
<1> USE PhaseFacts, RunFacts
<1>1. turn' = Ended(r) /\ RunWrites(db, db', r) /\ Calm(db, db') /\ inst'.openSteer = inst.openSteer
    BY DEF RunLeaves
<1>2. /\ \A k \in Runs \ {r} : turn'[k] = turn[k]
      /\ turn'[r].stage = "finishing"
    BY <1>1 DEF Ended
<1>3. \A k \in Runs : ~(k \in Running)'
    BY <1>2 DEF Running, PreStream, InStream
<1>4. \A a \in Inputs : Answering(a)' => db'.astatus[a] = "paused"
    BY <1>3 DEF Answering
<1>5. \A a \in Inputs : Answering(a)' => a = r
    BY <1>1, <1>4 DEF RunWrites
<1>6. db'.astatus[r] = "paused" => db'.aseq[r] = db.aseq[r]
    BY DEF RunLeaves
<1>7. Answering(r) /\ db.aseq[r] \in Nat
    BY DEF Answering, Databases
<1> QED
    BY <1>1, <1>4, <1>5, <1>6, <1>7, CalmStep

LEMMA ResumedRunOrder ==
    ASSUME LaneSound, LaneSound', PhaseInvariant, SteerOrderInvariant, TurnStep(Resumed)
    PROVE  SteerOrderInvariant'
<1> USE PhaseFacts
<1>1. Resumed \in Running /\ turn[Resumed].stage # "none"
    BY RunningStage DEF Running, PreStream, InStream
<1>2. PICK i \in Inputs : turn[Resumed].answer = i
    BY <1>1 DEF PhaseInvariant
<1>3. Answering(i)
    BY <1>1, <1>2 DEF Answering
<1>4. ASSUME Calm(db, db'), inst'.openSteer = inst.openSteer,
             \A a \in Inputs : db'.aseq[a] = db.aseq[a] /\ (Answering(a)' => Answering(a))
      PROVE  SteerOrderInvariant'
  <2>1. \A a \in Inputs : db.aseq[a] \in Nat
      BY DEF Databases
  <2> QED
      BY <1>4, <2>1, CalmStep
<1>5. CASE TurnRegister(Resumed) \/ ProviderStart(Resumed)
  <2>1. db' = db /\ inst'.openSteer = inst.openSteer
      BY <1>5 DEF TurnRegister, ProviderStart, Unsettled, Instances
  <2>2. turn'[Resumed].answer = i /\ \A k \in Inputs : turn'[k] = turn[k]
      BY <1>2, <1>5 DEF TurnRegister, ProviderStart, Turns
  <2>3. \A a \in Inputs : Answering(a)' => Answering(a)
      BY <1>3, <2>1, <2>2 DEF Answering, Running
  <2> QED
      BY <1>4, <2>1, <2>3, CalmOfItself
<1>6. CASE ~(TurnRegister(Resumed) \/ ProviderStart(Resumed))
  <2>1. /\ turn' = Ended(Resumed) /\ inst'.openSteer = inst.openSteer
        /\ \E s \in AssistantStates : db' = SetAssistant(db, i, s)
      BY <1>2, <1>6, ResumedRunLeaves
  <2>2. PICK s \in AssistantStates : db' = SetAssistant(db, i, s)
      BY <2>1
  <2>3. Calm(db, db')
      BY <2>2, AnswersAreCalm
  <2>4. /\ \A j \in Inputs : db'.aseq[j] = db.aseq[j]
        /\ \A j \in Inputs \ {i} : db'.astatus[j] = db.astatus[j]
    <3> DEFINE t == IF db.aseq[i] = 0 THEN db.astatus[i] ELSE s
    <3>1. AnswerWritten(db, SetAssistant(db, i, s), i, db.aseq[i], t)
        BY AnswersKeepCarriage
    <3> HIDE DEF t
    <3> QED
        BY <2>2, <3>1 DEF AnswerWritten
  <2>5. turn'[Resumed].stage = "none" /\ \A k \in Inputs : turn'[k] = turn[k]
      BY <2>1 DEF Ended, NoTurn
  <2>6. \A a \in Inputs : Answering(a)' => Answering(a)
    <3>1. ASSUME NEW a \in Inputs, Answering(a)', a # i PROVE Answering(a)
        BY <2>4, <2>5, <3>1 DEF Answering, Running, PreStream, InStream
    <3> QED
        BY <1>3, <3>1
  <2> QED
      BY <1>4, <2>1, <2>3, <2>4, <2>6
<1> QED
    BY <1>5, <1>6

\* A crash closes every steer row, so no message is unread after it.
LEMMA CrashWithOrder ==
    ASSUME LaneSound, LaneSound', PhaseInvariant, NEW d \in Databases, CrashWith(d),
           RowsKept(db, d), Placed(d), AnswersPlaced(d)
    PROVE  SteerOrderInvariant'
<1> USE PhaseFacts
<1>1. db' = Recover(d)
    BY DEF CrashWith
<1>2. \A i \in Inputs : d.mode[i] = "steer" => d.state[i] \notin {"blocked", "retry_required"}
    BY DEF RowsKept, ClaimStanding
<1>3. \A i \in Inputs : ~IsOpenSteer(db', i) /\ db'.state[i] # "claimed"
  <2>1. ASSUME NEW i \in Inputs, d.mode[i] = "steer" PROVE db'.state[i] # "pending"
    <3>1. d.state[i] \in {"none", "pending", "claimed", "consumed"}
        BY <1>2, <2>1 DEF Databases, RowStates
    <3> QED
        BY <1>1, <2>1, <3>1, RecoverEffect, RecoverRows
  <2>2. \A i \in Inputs : db'.state[i] # "claimed" /\ db'.mode[i] = d.mode[i]
      BY <1>1, RecoverRows
  <2> QED
      BY <2>1, <2>2 DEF IsOpenSteer
<1>4. Placed(db')
    BY <1>1, RecoverStory
<1>5. AnswersPlaced(db')
  <2>1. db'.tail = d.tail
      BY <1>1, RecoverEffect
  <2>2. \A j \in Inputs : db'.aseq[j] = d.aseq[j]
      BY <1>1, RecoverKeepsCarriage
  <2> QED
      BY <2>1, <2>2 DEF AnswersPlaced
<1>6. AnsweredBelow(db')
    BY <1>3 DEF AnsweredBelow, SteerRows
<1>7. \A u \in Inputs : ~IsUnread(db', u) /\ ~IsOpenSteer(db', u)
    BY <1>3, <1>4 DEF Placed
<1> QED
    BY <1>5, <1>6, <1>7, CalmOfItself, RestingOrder

LEMMA CrashesOrder ==
    ASSUME LaneSound, LaneSound', PhaseInvariant, SteerOrderInvariant,
           Restart \/ \E r \in Runs : RestartMidRollback(r)
    PROVE  SteerOrderInvariant'
<1> USE PhaseFacts
<1>1. Placed(db) /\ AnswersPlaced(db)
    BY DEF BoundaryInvariant, SteerOrderInvariant
<1>2. CASE Restart
    BY <1>1, <1>2, CrashWithOrder DEF Restart, RowsKept
<1>3. ASSUME NEW r \in Runs, RestartMidRollback(r) PROVE SteerOrderInvariant'
  <2> DEFINE d == Rollback(db, r)
  <2>1. /\ r \in Inputs /\ CrashWith(d) /\ r \in Running /\ turn[r].source = "queue"
      BY <1>3, LaunchedRuns DEF RestartMidRollback, Undone, Unsettled, Running
  <2>2. d \in Databases /\ RowsKept(db, d) /\ Placed(d)
      BY <1>1, <2>1, RollbackEffect
  <2>3. SteerRows(db, "claimed") = {}
      BY <2>1, ClaimedSteer
  <2>4. AnswersPlaced(d)
      BY <1>1, <2>1, <2>3, RollbackIsCalm
  <2> HIDE DEF d
  <2> QED
      BY <2>1, <2>2, <2>4, CrashWithOrder
<1> QED
    BY <1>2, <1>3

-----------------------------------------------------------------------------
(* Answers in order, without promotions. *)

LEMMA OrderNextStep ==
    ASSUME "promote" \notin Events, LaneSound, LaneSound', PhaseInvariant, LaneAsked,
           SteerOrderInvariant, [Next]_vars
    PROVE  SteerOrderInvariant'
<1>1. CASE Admission
  <2>1. ASSUME NEW i \in Inputs, PromoteClaim(i) PROVE FALSE
      BY <2>1 DEF PromoteClaim
  <2>2. ~PromoteBlock /\ ~PromoteFail /\ ~PromoteFinish
      BY DEF PromoteBlock, PromoteFail, PromoteFinish, LaneAsked
  <2>3. ASSUME NEW u \in Inputs, SteerText(u) PROVE SteerOrderInvariant'
      BY <2>3, SteerOrder
  <2>4. CASE SteerAccept
      BY <2>4, SteerOrder
  <2>5. ASSUME NEW u \in Inputs, SteerPrepare(u) PROVE SteerOrderInvariant'
      BY <2>5, IdleOrder
  <2>6. CASE SteerDrop
      BY <2>6, IdleOrder
  <2>7. ASSUME NEW u \in Inputs, NEW src \in {"send", "queue"}, Queue(u, src)
        PROVE  SteerOrderInvariant'
      BY <2>7, QueueOrder
  <2>8. ASSUME NEW i \in Inputs,
               Update(i) \/ ResolveBlocked(i) \/ Retry(i) \/ Delete(i) \/ ResumeQueue(i)
        PROVE  SteerOrderInvariant'
      BY <2>8, QueueEditsOrder
  <2>9. ASSUME NEW i \in Inputs, NEW j \in Inputs, Move(i, j) PROVE SteerOrderInvariant'
      BY <2>9, QueueEditsOrder
  <2> QED
      BY <1>1, <2>1, <2>2, <2>3, <2>4, <2>5, <2>6, <2>7, <2>8, <2>9 DEF Admission
<1>2. ASSUME NEW i \in Inputs, DrainLaunch(i) PROVE SteerOrderInvariant'
    BY <1>2, DrainLaunchOrder
<1>3. CASE DrainIdle \/ NextIfReady \/ UNCHANGED vars
    BY <1>3, IdleOrder
<1>4. ASSUME NEW r \in Runs, TurnStep(r) PROVE SteerOrderInvariant'
  <2>1. CASE r = Resumed
      BY <1>4, <2>1, ResumedRunOrder
  <2>2. CASE r # Resumed
    <3>1. r \in Inputs /\ r \in Running
        BY <1>4, <2>2, LaunchedRuns, RunningStage
    <3>2. CASE TurnUserFact(r) \/ TurnReserve(r) \/ TurnRegister(r) \/ ProviderStart(r)
        BY <3>1, <3>2, GoOnOrder
    <3>3. CASE RunLeaves(r)
        BY <3>1, <3>3, RunEndOrder
    <3> QED
        BY <1>4, <3>1, <3>2, <3>3, BlockLeaves, StreamEndLeaves, AbortedLeaves, FailedLeaves
        DEF TurnStep
  <2> QED
      BY <2>1, <2>2
<1>5. ASSUME NEW i \in Inputs, Finalize(i) PROVE SteerOrderInvariant'
    BY <1>5, FinalizeOrder
<1>6. CASE Cancel \/ \E a \in Inputs : Respond(a)
    BY <1>6, SignalOrder
<1>7. CASE Restart \/ \E r \in Runs : RestartMidRollback(r)
    BY <1>7, CrashesOrder
<1> QED
    BY <1>1, <1>2, <1>3, <1>4, <1>5, <1>6, <1>7 DEF Next, Drain

LEMMA OrderInit == Init => SteerOrderInvariant
<1> SUFFICES ASSUME Init PROVE SteerOrderInvariant
    OBVIOUS
<1>1. /\ db.tail = 0
      /\ \A i \in Inputs : db.aseq[i] = 0 /\ db.seq[i] = 0 /\ db.state[i] = "none"
    BY DEF Init, EmptyDatabase
<1> QED
    BY <1>1 DEF SteerOrderInvariant, AnswersPlaced, AnsweredBelow, SteerRows, IsOpenSteer,
                IsUnread, Exists

\* While nothing is promoted, one steer row is open at most, the claimed one is answered
\* below its messages, and every steer message that is still unread stands below the answer
\* under way, for any number of inputs and every other event.
THEOREM SteerOrderHolds ==
    ASSUME "promote" \notin Events PROVE Spec => []SteerOrderInvariant
<1>1. Init => SteerOrderInvariant
    BY OrderInit
<1>2. LaneSound /\ LaneSound' /\ PhaseInvariant /\ LaneAsked /\ SteerOrderInvariant /\ [Next]_vars
        => SteerOrderInvariant'
    BY OrderNextStep
<1> QED
    BY <1>1, <1>2, LaneIsSound, PhasesHold, LanesAreAsked, PTL DEF Spec

\* While nothing is promoted, a steer message is answered by a message below it, and never by
\* one written above: claimSteerInput reserves the answer below what it reads, and a message
\* that comes later stands below the answer under way.
THEOREM SteerAnsweredInOrder ==
    ASSUME "promote" \notin Events PROVE Spec => []SteerBetweenAnswers
<1>1. LaneSound /\ PhaseInvariant /\ SteerOrderInvariant => SteerBetweenAnswers
  <2> SUFFICES ASSUME LaneSound, PhaseInvariant, SteerOrderInvariant
               PROVE  SteerBetweenAnswers
      OBVIOUS
  <2>1. ASSUME NEW r \in Running, NEW u \in Inputs, turn[r].answer # None, IsUnread(db, u)
        PROVE  db.aseq[turn[r].answer] < db.seq[u]
    <3>1. r \in Runs /\ turn[r].stage # "none"
        BY DEF Running, PreStream, InStream
    <3>2. PICK a \in Inputs : a = turn[r].answer
      <4>1. CASE r = Resumed
          BY <3>1, <4>1 DEF PhaseInvariant
      <4>2. CASE r # Resumed
          BY <3>1, <4>2, LaunchedRuns DEF PhaseInvariant, AnswerStanding
      <4> QED
          BY <4>1, <4>2
    <3>3. Answering(a)
      <4>1. CASE r = Resumed
          BY <3>2, <4>1 DEF Answering
      <4>2. CASE r # Resumed
        <5>1. turn[r].answer = r
            BY <3>1, <4>2, LaunchedRuns DEF PhaseInvariant, AnswerStanding
        <5> QED
            BY <3>2, <5>1 DEF Answering
      <4> QED
          BY <4>1, <4>2
    <3> QED
        BY <2>1, <3>2, <3>3 DEF SteerOrderInvariant
  <2> QED
      BY <2>1 DEF SteerBetweenAnswers, SteerOrderInvariant, AnsweredBelow
<1> QED
    BY <1>1, SteerOrderHolds, LaneIsSound, PhasesHold, PTL

-----------------------------------------------------------------------------
(* The head of the queue behind a claim. *)

LEMMA HeadWithoutClaim ==
    ASSUME NEW d, NEW held, \A i \in QueueRows(d) : d.state[i] # "claimed"
    PROVE  HeadTaken(d, held)
BY DEF HeadTaken

\* No row is newly claimed, none stops waiting, and no hold is lifted; rows that begin to wait
\* stand behind.
LEMMA HeadByKeeping ==
    ASSUME NEW d \in Databases, NEW e, NEW held, NEW held2, HeadTaken(d, held),
           held \cap WaitingQueue(d) \subseteq held2,
           WaitingQueue(e) = WaitingQueue(d),
           \A i \in QueueRows(e) : e.state[i] = "claimed" => i \in QueueRows(d) /\ d.state[i] = "claimed",
           \A i \in QueueRows(d) : i \in QueueRows(e) => e.order[i] = d.order[i]
    PROVE  HeadTaken(e, held2)
<1>1. \A h \in WaitingQueue(d) : h \in QueueRows(d) /\ h \in QueueRows(e)
    BY DEF WaitingQueue
<1>2. \A h \in QueueHead(e) : h \in QueueHead(d)
    BY <1>1 DEF QueueHead
<1>3. \A h \in QueueHead(d) : h \in WaitingQueue(d)
    BY DEF QueueHead
<1> QED
    BY <1>1, <1>2, <1>3 DEF HeadTaken

\* Places of the queue are at most the number of its rows.
LEMMA DensePlaces ==
    ASSUME NEW d \in Databases, DenseOrder(d), NEW i \in QueueRows(d)
    PROVE  d.order[i] < Cardinality(QueueRows(d)) + 1
<1>1. Cardinality(QueueRows(d)) \in Nat
    BY QueueRowsAreFinite
<1>2. d.order[i] \in 1 .. Cardinality(QueueRows(d))
    BY DEF DenseOrder
<1> QED
    BY <1>1, <1>2

\* A new row stands behind the rows there are.
LEMMA EnqueuedBehind ==
    ASSUME NEW d \in Databases, DenseOrder(d), NEW u \in Inputs, u \notin QueueRows(d),
           NEW s \in ActiveStates
    PROVE  LET e == Enqueue(d, u, s)
           IN  /\ QueueRows(e) = QueueRows(d) \cup {u}
               /\ \A i \in QueueRows(d) : /\ e.order[i] = d.order[i] /\ e.order[i] < e.order[u]
                                          /\ e.state[i] = d.state[i]
               /\ e.state[u] = s
<1> DEFINE e == Enqueue(d, u, s)
<1>1. /\ e.mode = [d.mode EXCEPT ![u] = "queue"] /\ e.state = [d.state EXCEPT ![u] = s]
      /\ e.order = [d.order EXCEPT ![u] = Cardinality(QueueRows(d)) + 1]
    BY DEF Enqueue, Databases
<1> HIDE DEF e
<1>2. QueueRows(e) = QueueRows(d) \cup {u}
    BY <1>1 DEF QueueRows, Databases
<1>3. \A i \in QueueRows(d) : i \in Inputs /\ i # u
    BY DEF QueueRows
<1>4. \A i \in QueueRows(d) : e.order[i] = d.order[i] /\ e.state[i] = d.state[i]
    BY <1>1, <1>3 DEF Databases
<1>5. e.order[u] = Cardinality(QueueRows(d)) + 1 /\ e.state[u] = s
    BY <1>1 DEF Databases
<1>6. \A i \in QueueRows(d) : e.order[i] < e.order[u]
    BY <1>4, <1>5, DensePlaces
<1> QED
    BY <1>2, <1>4, <1>5, <1>6 DEF e

\* A row that joins the queue at its end leaves its head where it is.
LEMMA HeadByEnqueueing ==
    ASSUME NEW d \in Databases, DenseOrder(d), NEW u \in Inputs, u \notin QueueRows(d),
           NEW s \in ActiveStates
    PROVE  LET e == Enqueue(d, u, s)
           IN  /\ \A h \in QueueHead(e) : h \in QueueHead(d) \/ (h = u /\ WaitingQueue(d) = {})
               /\ \A h \in QueueHead(e) : h # u => e.state[h] = d.state[h]
<1> DEFINE e == Enqueue(d, u, s)
<1>1. /\ QueueRows(e) = QueueRows(d) \cup {u}
      /\ \A i \in QueueRows(d) : /\ e.order[i] = d.order[i] /\ e.order[i] < e.order[u]
                                 /\ e.state[i] = d.state[i]
      /\ e.state[u] = s
    BY EnqueuedBehind
<1>2. \A i \in QueueRows(e) : e.order[i] \in Nat
  <2>1. e \in Databases
      BY EnqueueType DEF ActiveStates, WaitingStates, RowStates
  <2> HIDE DEF e
  <2> QED
      BY <2>1 DEF Databases, QueueRows
<1> HIDE DEF e
<1>3. \A h \in WaitingQueue(d) : h \in QueueRows(d) /\ h \in WaitingQueue(e)
    BY <1>1 DEF WaitingQueue
<1>4. \A h \in QueueHead(e) : h \in QueueRows(e) /\ h \in WaitingQueue(e)
    BY DEF QueueHead, WaitingQueue
<1>5. ASSUME NEW h \in QueueHead(e)
      PROVE  h \in QueueHead(d) \/ (h = u /\ WaitingQueue(d) = {})
  <2>1. CASE h = u
    <3>1. ASSUME NEW k \in WaitingQueue(d) PROVE FALSE
      <4>1. k \in QueueRows(d) /\ k \in WaitingQueue(e)
          BY <1>3
      <4>2. e.order[u] <= e.order[k]
          BY <1>5, <2>1, <4>1 DEF QueueHead
      <4>3. e.order[k] < e.order[u] /\ e.order[k] \in Nat /\ e.order[u] \in Nat
          BY <1>1, <1>2, <4>1
      <4> QED
          BY <4>2, <4>3
    <3> QED
        BY <2>1, <3>1
  <2>2. CASE h # u
    <3>1. h \in QueueRows(d) /\ h \in WaitingQueue(d)
        BY <1>1, <1>4, <1>5, <2>2 DEF WaitingQueue
    <3>2. \A k \in WaitingQueue(d) : d.order[h] <= d.order[k]
        BY <1>1, <1>3, <1>5, <3>1 DEF QueueHead
    <3> QED
        BY <3>1, <3>2 DEF QueueHead
  <2> QED
      BY <2>1, <2>2
<1>6. ASSUME NEW h \in QueueHead(e), h # u PROVE e.state[h] = d.state[h]
    BY <1>1, <1>4, <1>6
<1> QED
    BY <1>5, <1>6 DEF e

\* The pump takes the head of the queue.
LEMMA HeadByClaiming ==
    ASSUME NEW d \in Databases, DenseOrder(d), NEW i \in NextQueue(d), NEW held, ~HasClaimed(d)
    PROVE  HeadTaken(SetState(d, i, "claimed"), held)
<1> DEFINE e == SetState(d, i, "claimed")
<1>1. i \in Inputs /\ i \in QueueHead(d) /\ i \in QueueRows(d) /\ d.state[i] = "pending"
    BY DEF NextQueue, QueueHead, WaitingQueue, QueueRows
<1>2. QueueKept(d, e)
    BY <1>1, StateKeepsQueue DEF ActiveStates, WaitingStates
<1>3. RowWritten(d, e, i, "claimed", d.mode[i])
    BY <1>1, RowsOf
<1> HIDE DEF e
<1>4. ASSUME NEW k \in QueueRows(e), e.state[k] = "claimed" PROVE k = i
    BY <1>3, <1>4 DEF RowWritten, HasClaimed, QueueRows
<1>5. ASSUME NEW h \in QueueHead(e) PROVE e.order[i] < e.order[h]
  <2>1. h \in WaitingQueue(e) /\ h \in QueueRows(e)
      BY DEF QueueHead, WaitingQueue
  <2>2. h # i
      BY <1>1, <1>3, <2>1 DEF WaitingQueue, WaitingStates, RowWritten
  <2>3. h \in WaitingQueue(d)
      BY <1>2, <1>3, <2>1, <2>2 DEF WaitingQueue, QueueKept, RowWritten, QueueRows
  <2>4. d.order[i] <= d.order[h] /\ d.order[i] # d.order[h]
      BY <1>1, <2>2, <2>3, DenseIsOrdered DEF QueueHead, Ordered, WaitingQueue
  <2>5. d.order[i] \in Nat /\ d.order[h] \in Nat
      BY <1>1, <2>3 DEF Databases, WaitingQueue, QueueRows
  <2> QED
      BY <1>1, <1>2, <2>3, <2>4, <2>5 DEF QueueKept, WaitingQueue
<1> QED
    BY <1>4, <1>5 DEF HeadTaken, e

\* A message that is started at once passes held rows only.
LEMMA HeadByStarting ==
    ASSUME NEW d \in Databases, DenseOrder(d), NEW u \in Inputs, u \notin QueueRows(d), NEW held,
           ~HasBlocking(d), ~HasRetryRequired(d), NextQueue(d) \subseteq held
    PROVE  HeadTaken(Enqueue(d, u, "claimed"), held)
<1> DEFINE e == Enqueue(d, u, "claimed")
<1>1. /\ \A h \in QueueHead(e) : h \in QueueHead(d) \/ (h = u /\ WaitingQueue(d) = {})
      /\ \A h \in QueueHead(e) : h # u => e.state[h] = d.state[h]
    BY HeadByEnqueueing DEF ActiveStates
<1>2. e.state[u] = "claimed"
    BY EnqueuedBehind DEF ActiveStates
<1> HIDE DEF e
<1>3. ASSUME NEW h \in QueueHead(e) PROVE h \in held
  <2>1. h # u
      BY <1>2 DEF QueueHead, WaitingQueue, WaitingStates
  <2>2. h \in QueueHead(d) /\ h \in QueueRows(d) /\ d.state[h] \in WaitingStates
      BY <1>1, <2>1 DEF QueueHead, WaitingQueue
  <2>3. d.state[h] = "pending"
      BY <2>2 DEF WaitingStates, HasBlocking, HasRetryRequired, QueueRows
  <2> QED
      BY <2>2, <2>3 DEF NextQueue
<1> QED
    BY <1>3 DEF HeadTaken, e

\* A claim given back for Retry stands at the head again, or behind a held row.
LEMMA GivenBackHead ==
    ASSUME NEW d \in Databases, NEW e, NEW held, HeadTaken(d, held), QueueKept(d, e),
           NEW r \in QueueRows(d), d.state[r] = "claimed",
           RowWritten(d, e, r, "retry_required", d.mode[r])
    PROVE  NextQueue(e) \subseteq held
<1>1. SUFFICES ASSUME NEW h \in NextQueue(e) PROVE h \in held
    OBVIOUS
<1>2. r \in Inputs /\ r \in WaitingQueue(e)
    BY DEF WaitingQueue, QueueKept, QueueRows, RowWritten, WaitingStates
<1>3. h \in Inputs /\ h \in WaitingQueue(e) /\ h \in QueueRows(d) /\ e.state[h] = "pending"
    BY DEF NextQueue, QueueHead, WaitingQueue, QueueKept, QueueRows
<1>4. h # r
    BY <1>2, <1>3 DEF RowWritten
<1>5. h \in WaitingQueue(d)
    BY <1>3, <1>4 DEF RowWritten, WaitingQueue, WaitingStates
<1>6. \A k \in WaitingQueue(d) : k \in WaitingQueue(e) /\ k \in QueueRows(d)
    BY <1>2 DEF WaitingQueue, QueueKept, RowWritten, WaitingStates, QueueRows
<1>7. h \in QueueHead(d)
    BY <1>3, <1>5, <1>6 DEF NextQueue, QueueHead, QueueKept
<1>8. d.order[r] < d.order[h] \/ h \in held
    BY <1>7 DEF HeadTaken
<1>9. d.order[h] <= d.order[r]
    BY <1>2, <1>3 DEF NextQueue, QueueHead, QueueKept
<1>10. d.order[h] \in Nat /\ d.order[r] \in Nat
    BY <1>2, <1>3 DEF Databases
<1> QED
    BY <1>8, <1>9, <1>10

\* A step that leaves the queue and its holds as they are.
LEMMA HeadByResting ==
    ASSUME LaneSound, LaneSound', PhaseInvariant, HeadTaken(db, pump.held),
           RowsKept(db, db'), QueueKept(db, db'), pump'.held = pump.held
    PROVE  HeadTaken(db', pump'.held)
<1> USE PhaseFacts
<1>1. WaitingQueue(db') = WaitingQueue(db)
    BY DEF WaitingQueue, QueueKept, RowsKept
<1> QED
    BY <1>1, HeadByKeeping DEF QueueKept, RowsKept

LEMMA HeadStays ==
    ASSUME LaneSound, LaneSound', PhaseInvariant, HeadTaken(db, pump.held), db' = db,
           pump'.held = pump.held
    PROVE  HeadTaken(db', pump'.held)
BY HeadByResting DEF RowsKept, QueueKept

\* No claim is left to be given back.
LEMMA HeadBySettling ==
    ASSUME LaneSound', call'.lane # "promote",
           \A i \in Inputs : pump'.launched # i \/ turn'[i].fenced
    PROVE  HeadTaken(db', pump'.held)
<1>1. \A i \in Inputs : db'.state[i] # "claimed"
    BY DEF LaneSound, ClaimInvariant, ClaimStanding, Promoting
<1> QED
    BY <1>1, HeadWithoutClaim DEF QueueRows

LEMMA AdmissionHead ==
    ASSUME HeadUndisturbed, LaneSound, LaneSound', PhaseInvariant, LaneAsked, DenseOrder(db),
           HeadTaken(db, pump.held), call'.lane # "promote", Admission
    PROVE  HeadTaken(db', pump'.held)
<1> USE PhaseFacts
<1>1. ASSUME NEW u \in Inputs, u = hist.submitted + 1, NEW seen, AcceptVisibleSteer(u, seen)
      PROVE  HeadTaken(db', pump'.held)
  <2>1. pump'.held = pump.held
      BY <1>1, WakeupsKeepHolds DEF AcceptVisibleSteer
  <2>2. PICK d \in Databases : /\ db' = AcceptSteer(d, u, inst.openSteer) /\ RowsKept(db, d)
                               /\ QueueKept(db, d)
    <3>1. db' \in {AcceptSteer(db, u, inst.openSteer), AcceptSteer(Materialize(db), u, inst.openSteer)}
        BY <1>1 DEF AcceptVisibleSteer
    <3>2. Materialize(db) \in Databases /\ RowsKept(db, Materialize(db)) /\ QueueKept(db, Materialize(db))
        BY MaterializeType, MaterializeRows, MessagesKeepQueue
    <3>3. RowsKept(db, db) /\ QueueKept(db, db)
        BY DEF RowsKept, QueueKept
    <3> QED
        BY <3>1, <3>2, <3>3
  <2>3. db.state[u] = "none" /\ d.state[u] = "none"
      BY <1>1, <2>2, FreshRow DEF RowsKept, Unsubmitted, OwnershipInvariant
  <2>4. QueueKept(d, db') /\ \A k \in Inputs \ {u} : db'.mode[k] = d.mode[k] /\ db'.state[k] = d.state[k]
    <3>1. QueueKept(d, db')
        BY <2>2, <2>3, AcceptSteerKeepsQueue
    <3>2. RowsKept(d, db') \/ RowWritten(d, db', u, "pending", "steer")
        BY <2>2, AcceptSteerRows
    <3> QED
        BY <3>1, <3>2 DEF RowsKept, RowWritten
  <2>5. QueueKept(db, db') /\ \A k \in QueueRows(db) : db'.state[k] = db.state[k]
    <3>1. \A k \in QueueRows(db) : k \in Inputs /\ k # u
        BY <2>3 DEF QueueRows, ActiveStates, WaitingStates
    <3>2. QueueKept(db, db')
        BY <2>2, <2>4 DEF QueueKept
    <3>3. d.state = db.state
        BY <2>2 DEF RowsKept
    <3> QED
        BY <2>4, <3>1, <3>2, <3>3
  <2>6. WaitingQueue(db') = WaitingQueue(db)
    <3>1. QueueRows(db') = QueueRows(db)
        BY <2>5 DEF QueueKept
    <3>2. \A k : k \in WaitingQueue(db') <=> k \in WaitingQueue(db)
        BY <2>5, <3>1, Zenon DEF WaitingQueue
    <3> QED
        BY <3>2
  <2> QED
      BY <2>1, <2>5, <2>6, HeadByKeeping DEF QueueKept
<1>2. ASSUME NEW u \in Inputs, SteerText(u) PROVE HeadTaken(db', pump'.held)
    BY <1>1, <1>2 DEF SteerText
<1>3. CASE SteerAccept
  <2>1. PICK u \in Inputs : u = call.item
      BY <1>3 DEF SteerAccept, OwnershipInvariant, LaneKnowsItem
  <2>2. u = hist.submitted + 1
      BY <1>3, <2>1 DEF SteerAccept, ClaimInvariant, SteerCallKept
  <2> QED
      BY <1>1, <1>3, <2>1, <2>2 DEF SteerAccept
<1>4. ASSUME NEW u \in Inputs, SteerPrepare(u) PROVE HeadTaken(db', pump'.held)
    BY <1>4, HeadStays DEF SteerPrepare
<1>9. CASE SteerDrop
    BY <1>9, HeadStays DEF SteerDrop
<1>5. ASSUME NEW u \in Inputs, NEW src \in {"send", "queue"}, Queue(u, src)
      PROVE  HeadTaken(db', pump'.held)
  <2>1. u = hist.submitted + 1 /\ db.state[u] = "none" /\ u \notin QueueRows(db)
      BY <1>5, FreshRow
      DEF Queue, Unsubmitted, OwnershipInvariant, QueueRows, ActiveStates, WaitingStates
  <2>2. CASE Claimable(src) /\ Launch(Enqueue(db, u, "claimed"), u, src)
    <3>1. /\ pump'.held = pump.held /\ pump'.launched = u
          /\ db' = Enqueue(db, u, "claimed") \/ turn'[u].fenced
        BY <2>2 DEF Launch, Pumps
    <3>2. CASE db' = Enqueue(db, u, "claimed")
      <4>1. NextQueue(db) \subseteq pump.held
        <5>1. \A i \in NextSteer(db) : i \in Inputs /\ db.mode[i] = "steer" /\ i \notin pump.held
            BY DEF NextSteer, WaitingSteer, ReplayStanding
        <5>2. NextInput(db) \ pump.held = {}
            BY <2>2 DEF Claimable
        <5> QED
            BY <5>1, <5>2 DEF NextInput
      <4> QED
          BY <2>1, <2>2, <3>1, <3>2, <4>1, HeadByStarting DEF Claimable
    <3>3. CASE turn'[u].fenced
        BY <3>1, <3>3, HeadBySettling
    <3> QED
        BY <3>1, <3>2, <3>3
  <2>3. CASE db' = Enqueue(db, u, "pending") /\ pump' = Schedule(pump, turn, inst.status, "enqueue")
    <3>1. pump'.held = pump.held
        BY <2>3, WakeupsKeepHolds
    <3>2. /\ \A h \in QueueHead(db') : h \in QueueHead(db) \/ (h = u /\ WaitingQueue(db) = {})
        BY <2>1, <2>3, HeadByEnqueueing DEF ActiveStates, WaitingStates
    <3>3. /\ QueueRows(db') = QueueRows(db) \cup {u} /\ db'.state[u] = "pending"
          /\ \A i \in QueueRows(db) : /\ db'.order[i] = db.order[i] /\ db'.order[i] < db'.order[u]
                                      /\ db'.state[i] = db.state[i]
        BY <2>1, <2>3, EnqueuedBehind DEF ActiveStates, WaitingStates
    <3>4. ASSUME NEW i \in QueueRows(db'), NEW h \in QueueHead(db'), db'.state[i] = "claimed"
          PROVE  db'.order[i] < db'.order[h] \/ h \in pump.held
      <4>1. i \in QueueRows(db) /\ db.state[i] = "claimed"
          BY <3>3, <3>4
      <4>2. CASE h = u
          BY <3>3, <4>1, <4>2
      <4>3. CASE h \in QueueHead(db)
          BY <3>3, <4>1, <4>3 DEF HeadTaken, QueueHead, WaitingQueue
      <4> QED
          BY <3>2, <4>2, <4>3
    <3> QED
        BY <3>1, <3>4 DEF HeadTaken
  <2> QED
      BY <1>5, <2>2, <2>3 DEF Queue
<1>6. ASSUME NEW i \in Inputs, Update(i) \/ ResolveBlocked(i) \/ Retry(i)
      PROVE  HeadTaken(db', pump'.held)
  <2>1. /\ db' = SetState(db, i, "pending") /\ pump'.held = pump.held
        /\ db.mode[i] = "queue" /\ db.state[i] \in WaitingStates
      BY <1>6, WakeupsKeepHolds
      DEF Update, ResolveBlocked, Retry, WaitingQueue, QueueRows, ClaimStanding, WaitingStates
  <2>2. QueueKept(db, db') /\ RowWritten(db, db', i, "pending", db.mode[i])
      BY <2>1, StateKeepsQueue, RowsOf DEF ActiveStates, WaitingStates
  <2>3. WaitingQueue(db') = WaitingQueue(db)
      BY <2>1, <2>2 DEF WaitingQueue, WaitingStates, QueueKept, RowWritten, QueueRows
  <2>4. \A k \in QueueRows(db') : db'.state[k] = "claimed" => db.state[k] = "claimed"
      BY <2>2 DEF RowWritten, QueueRows
  <2> QED
      BY <2>1, <2>2, <2>3, <2>4, HeadByKeeping DEF QueueKept
<1>7. ASSUME NEW h \in Inputs, ResumeQueue(h) PROVE HeadTaken(db', pump'.held)
    BY <1>7, HeadWithoutClaim DEF ResumeQueue, HasClaimed, QueueRows
<1>8. /\ \A i, j \in Inputs : ~Move(i, j) /\ ~Delete(i) /\ ~PromoteClaim(i)
      /\ ~PromoteBlock /\ ~PromoteFail /\ ~PromoteFinish
  <2>1. "promote" \notin Events /\ "move" \notin Events /\ "delete" \notin Events
      BY DEF HeadUndisturbed
  <2>2. call.lane # "promote"
      BY <2>1 DEF LaneAsked
  <2>3. \A i, j \in Inputs : ~Move(i, j) /\ ~Delete(i) /\ ~PromoteClaim(i)
      BY <2>1 DEF Move, Delete, PromoteClaim
  <2>4. ~PromoteBlock /\ ~PromoteFail
      BY <2>2 DEF PromoteBlock, PromoteFail
  <2>5. ~PromoteFinish
      BY <2>2 DEF PromoteFinish
  <2> QED
      BY <2>3, <2>4, <2>5
<1>10. /\ \A i, j \in Inputs : ~Move(i, j)
       /\ \A i \in Inputs : ~Delete(i) /\ ~PromoteClaim(i)
       /\ ~(PromoteBlock \/ PromoteFail \/ PromoteFinish)
    BY <1>8
<1>11. CASE \E u \in Inputs : SteerText(u) \/ SteerPrepare(u)
                              \/ \E src \in {"send", "queue"} : Queue(u, src)
    BY <1>2, <1>4, <1>5, <1>11
<1>12. CASE \E i \in Inputs : Update(i) \/ Delete(i) \/ ResolveBlocked(i) \/ Retry(i)
                                 \/ ResumeQueue(i)
    BY <1>6, <1>7, <1>10, <1>12
<1> QED
    BY <1>3, <1>9, <1>10, <1>11, <1>12, Zenon DEF Admission

\* Steps of the pump, of the turn, of Stop and of the answer to an interaction.
LEMMA RestingHead ==
    ASSUME LaneSound, LaneSound', PhaseInvariant, HeadTaken(db, pump.held),
           \/ DrainIdle \/ NextIfReady \/ UNCHANGED vars
           \/ \E i \in Inputs : Finalize(i)
           \/ Cancel
           \/ \E a \in Inputs : Respond(a)
    PROVE  HeadTaken(db', pump'.held)
<1> USE PhaseFacts
<1>1. ASSUME NEW astatus, db' = [db EXCEPT !.astatus = astatus]
      PROVE  RowsKept(db, db') /\ QueueKept(db, db')
    BY <1>1 DEF RowsKept, QueueKept, QueueRows, Databases
<1>2. CASE DrainIdle
  <2> DEFINE back == GiveBack(pump, turn, inst.status)
  <2>1. back \in Pumps /\ back.held = pump.held
      BY GiveBackType, WakeupsKeepHolds DEF Wakes, Pumps, CanDrainFrom, Instances
  <2>2. pump' = back \/ pump' = Schedule(back, turn, inst.status, "enqueue")
      BY <1>2 DEF DrainIdle
  <2> HIDE DEF back
  <2>3. pump'.held = pump.held
      BY <2>1, <2>2, WakeupsKeepHolds
  <2> QED
      BY <1>2, <2>3, HeadStays DEF DrainIdle
<1>3. CASE NextIfReady
  <2> DEFINE p == [pump EXCEPT !.next = FALSE]
  <2>1. p \in Pumps /\ p.held = pump.held
      BY DEF Pumps
  <2>2. pump' = p \/ pump' = Schedule(p, turn, inst.status, "completed")
      BY <1>3 DEF NextIfReady
  <2> HIDE DEF p
  <2>3. pump'.held = pump.held
      BY <2>1, <2>2, WakeupsKeepHolds
  <2> QED
      BY <1>3, <2>3, HeadStays DEF NextIfReady
<1>4. CASE UNCHANGED vars
    BY <1>4, HeadStays DEF vars
<1>5. ASSUME NEW i \in Inputs, Finalize(i) PROVE HeadTaken(db', pump'.held)
  <2> DEFINE back == GiveBack(pump, turn', inst.status)
  <2>1. back \in Pumps /\ back.held = pump.held
      BY GiveBackType, WakeupsKeepHolds
  <2>2. \E n, r : pump' = [back EXCEPT !.next = n, !.resumed = r]
      BY <1>5 DEF Finalize
  <2> HIDE DEF back
  <2>3. pump'.held = pump.held
      BY <2>1, <2>2 DEF Pumps
  <2> QED
      BY <1>5, <2>3, HeadStays DEF Finalize
<1>6. CASE Cancel
  <2>1. CASE UNCHANGED <<db, pump>>
      BY <2>1, HeadStays
  <2>2. CASE /\ db' = [db EXCEPT !.astatus = [i \in Inputs |->
                        IF db.astatus[i] = "paused" THEN "error" ELSE db.astatus[i]]]
             /\ pump' = Schedule(pump, turn, "idle", "completed")
      BY <1>1, <2>2, WakeupsKeepHolds, HeadByResting
  <2> QED
      BY <1>6, <2>1, <2>2 DEF Cancel
<1>7. ASSUME NEW a \in Inputs, Respond(a) PROVE HeadTaken(db', pump'.held)
  <2>1. db' = [db EXCEPT !.astatus = [db.astatus EXCEPT ![a] = "pending"]] /\ pump' = pump
      BY <1>7 DEF Respond
  <2> QED
      BY <1>1, <2>1, HeadByResting
<1> QED
    BY <1>2, <1>3, <1>4, <1>5, <1>6, <1>7

\* The pump takes the head of the queue, or a steer row when no row of the queue is claimed.
LEMMA DrainLaunchHead ==
    ASSUME LaneSound, LaneSound', PhaseInvariant, DenseOrder(db), call'.lane # "promote",
           NEW i \in Inputs, DrainLaunch(i)
    PROVE  HeadTaken(db', pump'.held)
<1> USE PhaseFacts
<1>1. /\ i \in NextInput(db) /\ ~HasClaimed(db)
      /\ Launch(Claim(db, i), i, IF db.mode[i] = "steer" THEN "steer" ELSE "queue")
    BY DEF DrainLaunch, Drainable, DrainReady
<1>2. /\ pump'.held = pump.held /\ pump'.launched = i
      /\ db' = Claim(db, i) \/ turn'[i].fenced
    BY <1>1 DEF Launch, Pumps
<1>3. CASE turn'[i].fenced
    BY <1>2, <1>3, HeadBySettling
<1>4. CASE db' = Claim(db, i)
  <2>1. CASE db.mode[i] = "steer"
    <3>1. RowWritten(db, db', i, "claimed", "steer")
        BY <1>4, <2>1, ClaimRows
    <3>2. \A k \in QueueRows(db') : db'.state[k] # "claimed"
        BY <1>1, <3>1 DEF QueueRows, RowWritten, HasClaimed
    <3> QED
        BY <3>2, HeadWithoutClaim
  <2>2. CASE db.mode[i] # "steer"
    <3>1. i \in NextQueue(db) /\ db' = SetState(db, i, "claimed")
        BY <1>1, <1>4, <2>2 DEF NextInput, NextSteer, WaitingSteer, Claim
    <3> QED
        BY <1>1, <3>1, HeadByClaiming
  <2> QED
      BY <2>1, <2>2
<1> QED
    BY <1>2, <1>3, <1>4

\* A turn leaves its row claimed, or settles it.
LEMMA TurnHead ==
    ASSUME LaneSound, LaneSound', PhaseInvariant, HeadTaken(db, pump.held), call'.lane # "promote",
           NEW r \in Runs, TurnStep(r)
    PROVE  HeadTaken(db', pump'.held)
<1> USE PhaseFacts
<1>1. CASE r = Resumed
  <2>1. Resumed \in Running /\ turn[Resumed].stage # "none"
      BY <1>1, RunningStage DEF Running, PreStream, InStream
  <2>2. PICK i \in Inputs : turn[Resumed].answer = i
      BY <2>1 DEF PhaseInvariant
  <2>3. CASE TurnRegister(Resumed) \/ ProviderStart(Resumed)
      BY <2>3, HeadStays DEF TurnRegister, ProviderStart, Unsettled
  <2>4. CASE ~(TurnRegister(Resumed) \/ ProviderStart(Resumed))
    <3>1. \E s \in AssistantStates : db' = SetAssistant(db, i, s)
        BY <1>1, <2>2, <2>4, ResumedRunLeaves
    <3>2. RowsKept(db, db') /\ QueueKept(db, db')
        BY <3>1, MessagesRows, MessagesKeepQueue
    <3>3. pump' = pump \/ \E t, status : pump' = Schedule(pump, t, status, "completed")
        BY <1>1
        DEF TurnStep, TurnBlock, TurnUserFact, TurnReserve, TurnRegister, ProviderStart, StreamEnd,
            AbortedPreStream, FailedPreStream
    <3>4. pump'.held = pump.held
        BY <3>3, WakeupsKeepHolds
    <3> QED
        BY <3>2, <3>4, HeadByResting
  <2> QED
      BY <2>3, <2>4
<1>2. CASE r # Resumed
  <2>1. r \in Inputs /\ r \in Running /\ pump.launched = r
    <3>1. r \in Inputs /\ r \in Running
        BY <1>2, LaunchedRuns, RunningStage
    <3>2. turn[r].stage # "none"
        BY <3>1 DEF Running, PreStream, InStream
    <3> QED
        BY <3>1, <3>2 DEF OwnershipInvariant, LeaseOwnership
  <2>2. ASSUME turn'[r].fenced, pump'.launched = r PROVE HeadTaken(db', pump'.held)
      BY <2>2, HeadBySettling
  <2>3. CASE TurnUserFact(r) \/ TurnReserve(r) \/ TurnRegister(r) \/ ProviderStart(r)
    <3>1. pump' = pump
        BY <2>3 DEF TurnUserFact, TurnReserve, TurnRegister, ProviderStart
    <3>2. \/ db' = db \/ db' = AppendUserFact(db, r) \/ db' = WriteAssistant(db, r)
          \/ turn'[r].fenced
      <4>1. turn[r].source \in {"send", "queue", "steer"}
          BY <2>1, RunRowFacts
      <4>2. CASE TurnReserve(r)
          BY <4>1, <4>2 DEF TurnReserve, Turns
      <4>3. CASE ProviderStart(r)
          BY <4>3 DEF ProviderStart, Turns
      <4> QED
          BY <2>3, <4>2, <4>3 DEF TurnUserFact, TurnRegister
    <3>3. CASE db' = db
        BY <3>1, <3>3, HeadStays
    <3>4. CASE db' = AppendUserFact(db, r) \/ db' = WriteAssistant(db, r)
        BY <3>1, <3>4, MessagesRows, MessagesKeepQueue, HeadByResting
    <3> QED
        BY <2>1, <2>2, <3>1, <3>2, <3>3, <3>4
  <2>4. CASE RunLeaves(r)
    <3>1. turn'[r].stage = "finishing" /\ turn'[r].fenced
        BY <1>2, <2>4 DEF RunLeaves, Ended, Turns
    <3>2. LeaseOwnership'
        BY DEF LaneSound, OwnershipInvariant
    <3>3. pump'.launched = r
        BY <2>1, <3>1, <3>2 DEF LeaseOwnership
    <3> QED
        BY <2>2, <3>1, <3>3
  <2> QED
      BY <2>1, <2>3, <2>4, BlockLeaves, StreamEndLeaves, AbortedLeaves, FailedLeaves
      DEF TurnStep
<1> QED
    BY <1>1, <1>2

LEMMA HeadStep ==
    ASSUME HeadUndisturbed, LaneSound, LaneSound', PhaseInvariant, LaneAsked, LaneAsked',
           DenseOrder(db), HeadTaken(db, pump.held), [Next]_vars
    PROVE  HeadTaken(db', pump'.held)
<1>1. call'.lane # "promote"
    BY DEF HeadUndisturbed, LaneAsked
<1>2. CASE Restart \/ \E r \in Runs : RestartMidRollback(r)
  <2>1. pump'.launched = None
      BY <1>2 DEF Restart, RestartMidRollback, CrashWith, RestedPump
  <2> QED
      BY <1>1, <2>1, NoneIsNoRun, HeadBySettling
<1> QED
    BY <1>1, <1>2, AdmissionHead, DrainLaunchHead, TurnHead, RestingHead DEF Next, Drain

-----------------------------------------------------------------------------
(* A stopped turn meets no steer row. *)

\* A turn is found stopped before the provider where it was before, or Stop came just now.
LEMMA StoppedTurn ==
    ASSUME LaneSound, LaneSound', PhaseInvariant, [Next]_vars, NEW i \in Inputs,
           turn'[i].stage \in PreStream, turn'[i].signal = "stopped"
    PROVE  /\ turn[i].stage = turn'[i].stage /\ turn[i].source = turn'[i].source
           /\ turn[i].signal = "stopped" \/ (turn[i].signal = "live" /\ Cancel)
<1> USE PhaseFacts
<1>1. ASSUME NEW k \in Inputs, NEW source, NEW d, Launch(d, k, source) PROVE turn'[i] = turn[i]
  <2>1. \A r \in Runs \ {k} : turn'[r] = turn[r]
      BY <1>1 DEF Launch
  <2>2. turn'[k].stage = "finishing" \/ turn'[k].signal = "live"
      BY <1>1 DEF Launch
  <2> QED
      BY <2>1, <2>2 DEF PreStream
<1>2. turn' = HandOff => turn'[i] = turn[i]
  <2> HAVE turn' = HandOff
  <2>1. CASE i = inst.controller
      BY <2>1 DEF HandOff, Turns
  <2>2. CASE i # inst.controller
      BY <2>2 DEF HandOff
  <2> QED
      BY <2>1, <2>2
<1>3. CASE Admission
  <2>1. ASSUME NEW u, NEW seen, AcceptVisibleSteer(u, seen) PROVE turn' = turn \/ turn' = HandOff
      BY <2>1 DEF AcceptVisibleSteer
  <2>2. ASSUME NEW u \in Inputs, NEW src \in {"send", "queue"}, Queue(u, src)
        PROVE  turn'[i] = turn[i]
      BY <1>1, <2>2 DEF Queue
  <2>3. ASSUME NEW k \in Inputs,
               \/ PromoteClaim(k) \/ Update(k) \/ Delete(k) \/ ResolveBlocked(k) \/ Retry(k)
               \/ ResumeQueue(k)
        PROVE  turn' = turn
      BY <2>3 DEF PromoteClaim, Update, Delete, ResolveBlocked, Retry, ResumeQueue
  <2>4. ASSUME NEW k \in Inputs, NEW j \in Inputs, Move(k, j) PROVE turn' = turn
      BY <2>4 DEF Move
  <2>5. ASSUME PromoteBlock \/ PromoteFail \/ PromoteFinish \/ SteerDrop
        PROVE  turn' = turn \/ turn' = HandOff
      BY <2>5 DEF PromoteBlock, PromoteFail, PromoteFinish, SteerDrop
  <2>6. ASSUME NEW u \in Inputs, SteerText(u) \/ SteerPrepare(u) \/ SteerAccept
        PROVE  turn' = turn \/ turn' = HandOff
      BY <2>1, <2>6 DEF SteerText, SteerPrepare, SteerAccept
  <2>7. turn'[i] = turn[i]
      BY <1>2, <1>3, <2>2, <2>3, <2>4, <2>5, <2>6 DEF Admission
  <2> QED
      BY <2>7
<1>4. CASE Drain \/ NextIfReady \/ UNCHANGED vars
    BY <1>1, <1>4 DEF Drain, DrainIdle, DrainLaunch, NextIfReady, vars
<1>5. ASSUME NEW r \in Runs, TurnStep(r) PROVE turn'[i] = turn[i]
  <2>1. CASE r # i
      BY <1>5, <2>1
      DEF TurnStep, TurnBlock, TurnUserFact, TurnReserve, TurnRegister, ProviderStart, StreamEnd,
          AbortedPreStream, FailedPreStream, Ended
  <2>2. CASE r = i
    <3>1. turn' = Ended(i) => turn'[i].stage = "finishing"
        BY DEF Ended
    <3>2. /\ turn' # Ended(i)
        BY <3>1 DEF PreStream
    <3>3. TurnUserFact(i) \/ TurnReserve(i) \/ TurnRegister(i) \/ ProviderStart(i)
        BY <1>5, <2>2, <3>2
        DEF TurnStep, TurnBlock, StreamEnd, AbortedPreStream, FailedPreStream
    <3>4. turn'[i].signal = "live"
        BY <3>3 DEF TurnUserFact, TurnReserve, TurnRegister, ProviderStart, Turns
    <3> QED
        BY <3>4
  <2> QED
      BY <2>1, <2>2
<1>6. ASSUME NEW k \in Inputs, Finalize(k) PROVE turn'[i] = turn[i]
    BY <1>6 DEF Finalize, NoTurn, PreStream
<1>7. CASE Cancel
  <2>1. ASSUME NEW r \in Runs, turn' = Stopped(r)
        PROVE  /\ turn[i].stage = turn'[i].stage /\ turn[i].source = turn'[i].source
               /\ turn[i].signal \in {"stopped", "live"}
      BY <2>1 DEF Stopped, Turns
  <2>2. inst.active # None => inst.active \in Runs
      BY DEF Instances
  <2>3. inst.controller # None => inst.controller \in Runs
      BY DEF Instances
  <2> QED
      BY <1>7, <2>1, <2>2, <2>3 DEF Cancel
<1>8. ASSUME NEW a \in Inputs, Respond(a) PROVE turn'[i] = turn[i]
    BY <1>8 DEF Respond
<1>9. CASE Restart \/ \E r \in Runs : RestartMidRollback(r)
  <2>1. turn'[i].stage = "none"
      BY <1>9 DEF Restart, RestartMidRollback, CrashWith, NoTurn
  <2> QED
      BY <2>1 DEF PreStream
<1> QED
    BY <1>3, <1>4, <1>5, <1>6, <1>7, <1>8, <1>9 DEF Next

\* Nobody hands a steer message to a turn that was stopped before the provider.
LEMMA StoppedRefuses ==
    ASSUME LaneSound, StoppedAlone, NEW i \in Inputs, turn[i].stage \in PreStream,
           turn[i].source # "steer", turn[i].signal = "stopped", NEW u, NEW seen
    PROVE  ~AcceptVisibleSteer(u, seen)
<1> SUFFICES ASSUME AcceptVisibleSteer(u, seen) PROVE FALSE
    OBVIOUS
<1>1. OwnershipInvariant /\ TypeOK /\ i \in Runs
    BY NoneIsNoRun DEF LaneSound, OwnershipInvariant
<1>2. i \in Running /\ turn[i].stage # "none"
    BY <1>1 DEF Running, PreStream
<1>3. \A r \in Running : r = i
    BY <1>1, <1>2 DEF OwnershipInvariant
<1>4. inst.active = None
    BY <1>1, <1>3 DEF OwnershipInvariant, ControllerOwnership, PreStream, InStream
<1>5. ~CanHandOff
    BY <1>1, <1>3 DEF OwnershipInvariant, ControllerOwnership, CanHandOff
<1>6. ~IsOpenSteer(db, inst.openSteer)
    BY DEF StoppedAlone, IsOpenSteer
<1>7. pump.lease = "turn"
    BY <1>1, <1>2, NoneIsNoRun DEF OwnershipInvariant, LeaseOwnership
<1> QED
    BY <1>4, <1>5, <1>6, <1>7 DEF AcceptVisibleSteer

LEMMA StoppedStep ==
    ASSUME HeadUndisturbed, LaneSound, LaneSound', PhaseInvariant, LaneAsked, SteerClaimable,
           StoppedAlone, [Next]_vars
    PROVE  StoppedAlone'
<1> USE PhaseFacts
<1> SUFFICES ASSUME NEW i \in Inputs, turn'[i].stage \in PreStream, turn'[i].source # "steer",
                    turn'[i].signal = "stopped", NEW j \in Inputs, IsOpenSteer(db', j)
             PROVE  FALSE
    BY DEF StoppedAlone, IsOpenSteer
<1>1. /\ turn[i].stage \in PreStream /\ turn[i].source # "steer"
      /\ turn[i].signal = "stopped" \/ (turn[i].signal = "live" /\ Cancel)
    BY StoppedTurn
<1>2. i \in Running /\ turn[i].stage # "none"
    BY <1>1 DEF Running, PreStream
<1>3. pump.launched = i /\ pump.lease = "turn"
    BY <1>2, NoneIsNoRun DEF OwnershipInvariant, LeaseOwnership
<1>4. \A r \in Running : r = i
    BY <1>2 DEF OwnershipInvariant
<1>5. ~IsOpenSteer(db, j)
  <2>1. CASE turn[i].signal = "stopped"
      BY <1>1, <2>1 DEF StoppedAlone
  <2>2. CASE turn[i].signal = "live"
    <3>1. \A u \in Inputs : ~IsUnread(db, u)
        BY <1>1, <2>2 DEF BoundaryInvariant, TextStanding
    <3>2. db.msgs[j] \subseteq Inputs
        BY DEF Databases
    <3>3. ~CanClaimSteer(db, j)
        BY <3>1, <3>2 DEF CanClaimSteer
    <3> QED
        BY <1>2, <3>3 DEF SteerClaimable
  <2> QED
      BY <1>1, <2>1, <2>2
<1>6. ASSUME db'.mode = db.mode, db'.state = db.state PROVE FALSE
    BY <1>5, <1>6 DEF IsOpenSteer
<1>7. ASSUME NEW k \in Inputs, NEW s, RowWritten(db, db', k, s, "queue") PROVE FALSE
    BY <1>5, <1>7 DEF IsOpenSteer, RowWritten
<1>8. CASE Cancel
    BY <1>6, <1>8 DEF Cancel, Databases
<1>9. ASSUME ~Cancel PROVE turn[i].signal = "stopped"
    BY <1>1, <1>9
<1>10. CASE Admission /\ ~Cancel
  <2>1. ASSUME NEW u, NEW seen, AcceptVisibleSteer(u, seen) PROVE FALSE
      BY <1>1, <1>9, <1>10, <2>1, StoppedRefuses
  <2>2. ASSUME NEW u \in Inputs, NEW src \in {"send", "queue"}, Queue(u, src) PROVE FALSE
    <3>1. db' = Enqueue(db, u, "pending")
        BY <1>3, <2>2 DEF Queue, Claimable
    <3> QED
        BY <1>7, <3>1, RowsOf
  <2>3. ASSUME NEW k \in Inputs, Update(k) \/ ResolveBlocked(k) \/ Retry(k) PROVE FALSE
    <3>1. db' = SetState(db, k, "pending") /\ db.mode[k] = "queue"
        BY <2>3
        DEF Update, ResolveBlocked, Retry, WaitingQueue, QueueRows, ClaimStanding, WaitingStates
    <3> QED
        BY <1>7, <3>1, RowsOf
  <2>4. ASSUME NEW k \in Inputs, ResumeQueue(k) \/ SteerPrepare(k) \/ SteerDrop PROVE FALSE
      BY <1>6, <2>4 DEF ResumeQueue, SteerPrepare, SteerDrop
  <2>5. ASSUME NEW k \in Inputs, NEW l \in Inputs,
               Move(k, l) \/ Delete(k) \/ PromoteClaim(k)
        PROVE  FALSE
      BY <2>5 DEF HeadUndisturbed, Move, Delete, PromoteClaim
  <2>6. ASSUME PromoteBlock \/ PromoteFail \/ PromoteFinish PROVE FALSE
      BY <2>6 DEF HeadUndisturbed, LaneAsked, PromoteBlock, PromoteFail, PromoteFinish
  <2>7. ASSUME NEW u \in Inputs, SteerText(u) \/ SteerAccept PROVE FALSE
      BY <2>1, <2>7 DEF SteerText, SteerAccept
  <2>8. CASE \E u \in Inputs : SteerText(u) \/ SteerPrepare(u)
                              \/ \E src \in {"send", "queue"} : Queue(u, src)
      BY <2>2, <2>4, <2>7, <2>8
  <2>9. CASE \E k \in Inputs : Update(k) \/ Delete(k) \/ ResolveBlocked(k) \/ Retry(k)
                                 \/ ResumeQueue(k)
      BY <2>3, <2>4, <2>5, <2>9
  <2>10. CASE SteerAccept \/ SteerDrop \/ \E k \in Inputs : PromoteClaim(k)
      BY <2>4, <2>5, <2>7, <2>10
  <2>11. CASE \E k, l \in Inputs : Move(k, l)
      BY <2>5, <2>11
  <2> QED
      BY <1>10, <2>6, <2>8, <2>9, <2>10, <2>11 DEF Admission
<1>11. CASE Drain \/ NextIfReady \/ UNCHANGED vars
    BY <1>3, <1>6, <1>11 DEF Drain, DrainIdle, DrainLaunch, NextIfReady, vars
<1>12. ASSUME NEW r \in Runs, TurnStep(r), ~Cancel PROVE FALSE
  <2>1. r = i
      BY <1>4, <1>12, RunningStage
  <2>2. turn' # Ended(i)
    <3>1. turn' = Ended(i) => turn'[i].stage = "finishing"
        BY DEF Ended
    <3> QED
        BY <3>1 DEF PreStream
  <2>3. TurnUserFact(i) \/ TurnReserve(i) \/ TurnRegister(i) \/ ProviderStart(i)
      BY <1>12, <2>1, <2>2
      DEF TurnStep, TurnBlock, StreamEnd, AbortedPreStream, FailedPreStream
  <2> QED
      BY <1>9, <1>12, <2>3 DEF TurnUserFact, TurnReserve, TurnRegister, ProviderStart
<1>13. CASE \E k \in Inputs : Finalize(k)
    BY <1>6, <1>13 DEF Finalize
<1>14. CASE \E a \in Inputs : Respond(a)
    BY <1>6, <1>14 DEF Respond, Databases
<1>15. CASE Restart \/ \E r \in Runs : RestartMidRollback(r)
    BY <1>15 DEF Restart, RestartMidRollback, CrashWith, NoTurn, PreStream
<1> QED
    BY <1>8, <1>10, <1>11, <1>12, <1>13, <1>14, <1>15 DEF Next

-----------------------------------------------------------------------------
(* A wakeup is kept, or comes later. *)

\* A wakeup that finds the session idle takes the lease or is kept by the turn that holds it:
\* that turn has settled its claim.
LEMMA Woken ==
    ASSUME LaneSound', NEW p \in Pumps, NEW t, NEW status,
           \/ \E reason \in {"enqueue", "completed"} : pump' = Schedule(p, t, status, reason)
           \/ pump' = Request(p, t, status),
           status = "idle", inst'.status = "idle", \A k \in Inputs : t[k].fenced = turn'[k].fenced
    PROVE  WakeupComes'
<1>1. CASE p.lease = "free"
  <2>1. pump'.lease = "drain"
      BY <1>1 DEF Schedule, Request, Pumps
  <2> QED
      BY <2>1 DEF WakeupComes
<1>2. CASE p.lease # "free"
  <2>1. PICK reason \in {"enqueue", "completed"} : pump' = Schedule(p, t, status, reason)
      BY <1>2 DEF Request
  <2>2. p.lease \in {"drain", "turn"} /\ p.launched \in Inputs \cup {None}
      BY <1>2 DEF Pumps
  <2>3. pump'.lease = p.lease /\ pump'.launched = p.launched
      BY <1>2, <2>1 DEF Schedule, Pumps
  <2>4. CASE p.lease = "turn"
    <3>1. OwnershipInvariant' /\ ClaimInvariant'
        BY DEF LaneSound
    <3>2. p.launched # None /\ p.launched \in Inputs
        BY <2>2, <2>3, <2>4, <3>1 DEF OwnershipInvariant, LeaseOwnership
    <3> DEFINE k == p.launched
    <3>3. turn'[k].stage # "none"
        BY <2>3, <3>1, <3>2 DEF OwnershipInvariant, LeaseOwnership
    <3>4. k \in Runs
        BY <3>2, NoneIsNoRun
    <3>5. turn'[k].stage \notin PreStream \cup InStream
      <4>1. (k \notin Running)'
          BY <3>1 DEF OwnershipInvariant, RunIsGenerating
      <4> QED
          BY <3>4, <4>1 DEF Running
    <3>6. turn'[k].stage \in Stages
        BY <3>1, <3>4 DEF OwnershipInvariant, TypeOK, Turns
    <3>7. turn'[k].stage = "finishing"
        BY <3>3, <3>5, <3>6 DEF Stages, PreStream, InStream
    <3>8. t[k].fenced
        BY <3>1, <3>2, <3>7 DEF ClaimInvariant, ClaimStanding
    <3>9. ShouldDefer(p, t, status, reason)
        BY <3>2, <3>8 DEF ShouldDefer, CanDrainFrom
    <3>10. pump'.deferred # "none"
        BY <1>2, <2>1, <3>9 DEF Schedule, Pumps
    <3> QED
        BY <2>3, <2>4, <3>10 DEF WakeupComes
  <2> QED
      BY <2>2, <2>3, <2>4 DEF WakeupComes
<1> QED
    BY <1>1, <1>2

\* An idle session runs nothing.
LEMMA IdleRests ==
    ASSUME OwnershipInvariant, inst.status # "generating"
    PROVE  Running = {} /\ inst.active = None /\ inst.controller = None
BY DEF OwnershipInvariant, RunIsGenerating, ControllerOwnership

LEMMA NothingStartable ==
    ASSUME NextSteer(db') = {}, NextQueue(db') \subseteq pump'.held
    PROVE  ~CouldStart'
<1>1. NextInput(db') = NextQueue(db')
    BY DEF NextInput
<1>2. \A i \in NextQueue(db') : db'.mode[i] = "queue"
    BY DEF NextQueue, QueueHead, WaitingQueue, QueueRows
<1>3. Startable' = {}
    BY <1>1, <1>2 DEF Startable
<1> QED
    BY <1>3 DEF CouldStart

\* A row given back for Retry leaves nothing to start when no steer row is open.
LEMMA GivenBackStartsNothing ==
    ASSUME NEW d \in Databases, NEW r \in Inputs, HeadTaken(d, pump'.held), QueueKept(d, db'),
           d.mode[r] = "queue", d.state[r] = "claimed",
           RowWritten(d, db', r, "retry_required", d.mode[r]),
           \A j \in Inputs : ~IsOpenSteer(d, j)
    PROVE  ~CouldStart'
<1>1. r \in QueueRows(d)
    BY DEF QueueRows, ActiveStates
<1>2. NextQueue(db') \subseteq pump'.held
    BY <1>1, GivenBackHead
<1>3. NextSteer(db') = {}
    BY DEF NextSteer, WaitingSteer, RowWritten, IsOpenSteer
<1> QED
    BY <1>2, <1>3, NothingStartable

\* Steps that change nothing the pump looks at.
LEMMA WakeupStays ==
    ASSUME CouldStart => WakeupComes, UNCHANGED <<db, inst, pump, turn>>
    PROVE  CouldStart' => WakeupComes'
BY DEF CouldStart, WakeupComes, Startable

\* A launch that fails before the turn owns anything, and a message started at once.
LEMMA QueueWakes ==
    ASSUME LaneSound, LaneSound', PhaseInvariant, SteerOrderInvariant, DenseOrder(db),
           NEW u \in Inputs, NEW src \in {"send", "queue"}, Queue(u, src)
    PROVE  CouldStart' => WakeupComes'
<1> USE PhaseFacts
<1>1. SUFFICES ASSUME CouldStart' PROVE WakeupComes'
    OBVIOUS
<1>2. inst'.status = "idle"
    BY <1>1 DEF CouldStart
<1>3. CASE UNCHANGED <<inst, turn>> /\ pump' = Schedule(pump, turn, inst.status, "enqueue")
    BY <1>2, <1>3, Woken
<1>4. CASE Claimable(src) /\ Launch(Enqueue(db, u, "claimed"), u, src)
  <2> DEFINE d == Enqueue(db, u, "claimed")
  <2>1. u \notin QueueRows(db) /\ db.state[u] = "none"
      BY FreshRow
      DEF Queue, Unsubmitted, OwnershipInvariant, QueueRows, ActiveStates, WaitingStates
  <2>2. \A i \in NextSteer(db) : i \in Inputs /\ db.mode[i] = "steer" /\ i \notin pump.held
      BY DEF NextSteer, WaitingSteer, ReplayStanding
  <2>3. NextInput(db) \ pump.held = {}
      BY <1>4 DEF Claimable
  <2>4. NextSteer(db) = {} /\ NextQueue(db) \subseteq pump.held
      BY <2>2, <2>3 DEF NextInput
  <2>5. \A j \in Inputs : ~IsOpenSteer(db, j)
      BY <2>4, NoSteerOpen
  <2>6. HeadTaken(d, pump.held)
      BY <1>4, <2>1, <2>4, HeadByStarting DEF Claimable
  <2>7. d \in Databases /\ RowWritten(db, d, u, "claimed", "queue")
      BY EnqueueType, RowsOf DEF RowStates
  <2>8. /\ pump'.held = pump.held
        /\ db' = Release(d, u, "retry_required")
      BY <1>2, <1>4 DEF Launch, Pumps
  <2> HIDE DEF d
  <2>9. d.mode[u] = "queue" /\ d.state[u] = "claimed" /\ \A j \in Inputs : ~IsOpenSteer(d, j)
      BY <2>5, <2>7 DEF RowWritten, IsOpenSteer
  <2>10. QueueKept(d, db') /\ RowWritten(d, db', u, "retry_required", d.mode[u])
      BY <2>7, <2>8, <2>9, StateKeepsQueue, RowsOf DEF ActiveStates, WaitingStates
  <2> QED
      BY <1>1, <2>6, <2>7, <2>8, <2>9, <2>10, GivenBackStartsNothing
<1> QED
    BY <1>3, <1>4 DEF Queue

LEMMA DrainWakes ==
    ASSUME LaneSound, LaneSound', PhaseInvariant, SteerOrderInvariant, DenseOrder(db),
           NEW i \in Inputs, DrainLaunch(i)
    PROVE  CouldStart' => WakeupComes'
<1> USE PhaseFacts
<1>1. SUFFICES ASSUME CouldStart' PROVE WakeupComes'
    OBVIOUS
<1>2. inst'.status = "idle"
    BY <1>1 DEF CouldStart
<1> DEFINE d == Claim(db, i)
           source == IF db.mode[i] = "steer" THEN "steer" ELSE "queue"
<1>3. i \in NextInput(db) /\ Launch(d, i, source) /\ ~HasClaimed(db)
    BY DEF DrainLaunch, Drainable, DrainReady
<1>4. /\ pump'.held = pump.held /\ pump'.lease = "turn" /\ pump'.launched = i
      /\ db' = IF source = "steer" THEN Consume(SetAssistant(d, i, "error"), i)
               ELSE Release(d, i, "retry_required")
  <2>1. /\ pump'.held = pump.held /\ pump'.lease = "turn" /\ pump'.launched = i
      BY <1>3 DEF Launch, Pumps
  <2>2. ~(inst'.status = "generating")
      BY <1>2
  <2> QED
      BY <1>3, <2>1, <2>2 DEF Launch
<1>5. d \in Databases /\ RowWritten(db, d, i, "claimed", db.mode[i])
    BY ClaimType, ClaimRows
<1>6. CASE db.mode[i] = "steer"
  <2> DEFINE w == SetAssistant(d, i, "error")
  <2>1. w \in Databases /\ RowsKept(d, w)
      BY <1>5, SetAssistantType, MessagesRows DEF AssistantStates
  <2>2. db' = Consume(w, i)
      BY <1>4, <1>6
  <2> HIDE DEF w
  <2>3. db'.state[i] \in {"consumed", "none"}
      BY <2>1, <2>2, ConsumeRows DEF RowWritten
  <2> QED
      BY <1>4, <2>3 DEF WakeupComes
<1>7. CASE db.mode[i] = "queue"
  <2>1. i \in NextQueue(db) /\ NextSteer(db) = {}
      BY <1>3, <1>7 DEF NextInput, NextSteer, WaitingSteer
  <2>2. d = SetState(db, i, "claimed") /\ db' = Release(d, i, "retry_required")
      BY <1>4, <1>7 DEF Claim
  <2> HIDE DEF d, source
  <2>3. HeadTaken(d, pump.held)
      BY <1>3, <2>1, <2>2, HeadByClaiming
  <2>4. \A j \in Inputs : ~IsOpenSteer(db, j)
      BY <2>1, NoSteerOpen
  <2>5. d.mode[i] = "queue" /\ d.state[i] = "claimed" /\ \A j \in Inputs : ~IsOpenSteer(d, j)
      BY <1>5, <1>7, <2>4 DEF RowWritten, IsOpenSteer
  <2>6. QueueKept(d, db') /\ RowWritten(d, db', i, "retry_required", d.mode[i])
      BY <1>5, <2>2, <2>5, StateKeepsQueue, RowsOf DEF ActiveStates, WaitingStates
  <2> QED
      BY <1>1, <1>4, <1>5, <2>3, <2>5, <2>6, GivenBackStartsNothing
<1> QED
    BY <1>6, <1>7

\* The calls a user makes.
LEMMA AdmissionWakes ==
    ASSUME HeadUndisturbed, LaneSound, LaneSound', PhaseInvariant, SteerOrderInvariant,
           LaneAsked, DenseOrder(db), CouldStart => WakeupComes, Admission
    PROVE  CouldStart' => WakeupComes'
<1> USE PhaseFacts
<1>1. SUFFICES ASSUME CouldStart' PROVE WakeupComes'
    OBVIOUS
<1>2. inst'.status = "idle"
    BY <1>1 DEF CouldStart
<1>3. ASSUME NEW u, NEW seen, AcceptVisibleSteer(u, seen) PROVE WakeupComes'
  <2>1. inst.status = "idle"
      BY <1>2, <1>3 DEF AcceptVisibleSteer, Instances
  <2>2. inst.active = None /\ ~CanHandOff
      BY <2>1, IdleRests DEF CanHandOff
  <2>3. /\ turn' = turn
        /\ pump' = Schedule(pump, turn, inst.status, "enqueue") \/ pump' = Request(pump, turn, inst.status)
      BY <1>3, <2>2 DEF AcceptVisibleSteer
  <2> QED
      BY <1>2, <2>1, <2>3, Woken
<1>4. ASSUME NEW u \in Inputs, SteerText(u) \/ SteerAccept PROVE WakeupComes'
    BY <1>3, <1>4 DEF SteerText, SteerAccept
<1>5. ASSUME NEW u \in Inputs, SteerPrepare(u) \/ SteerDrop PROVE WakeupComes'
    BY <1>1, <1>5, WakeupStays DEF SteerPrepare, SteerDrop
<1>6. ASSUME NEW u \in Inputs, NEW src \in {"send", "queue"}, Queue(u, src) PROVE WakeupComes'
    BY <1>1, <1>6, QueueWakes
<1>7. ASSUME NEW i \in Inputs, Update(i) \/ ResolveBlocked(i) \/ Retry(i) PROVE WakeupComes'
  <2>1. /\ UNCHANGED <<inst, turn>>
        /\ pump' = Schedule(pump, turn, inst.status, "enqueue") \/ pump' = Request(pump, turn, inst.status)
      BY <1>7 DEF Update, ResolveBlocked, Retry
  <2> QED
      BY <1>2, <2>1, Woken
<1>8. ASSUME NEW h \in Inputs, ResumeQueue(h) PROVE WakeupComes'
  <2> DEFINE p == [pump EXCEPT !.held = @ \ WaitingQueue(db), !.resumed = @ \cup {h}]
  <2>1. p \in Pumps
      BY <1>8 DEF Pumps
  <2>2. UNCHANGED <<inst, turn>> /\ pump' = Schedule(p, turn, inst.status, "enqueue")
      BY <1>8 DEF ResumeQueue
  <2> HIDE DEF p
  <2> QED
      BY <1>2, <2>1, <2>2, Woken
<1>9. ASSUME NEW i \in Inputs, NEW j \in Inputs, Move(i, j) \/ Delete(i) \/ PromoteClaim(i)
      PROVE  FALSE
    BY <1>9 DEF HeadUndisturbed, Move, Delete, PromoteClaim
<1>10. ASSUME PromoteBlock \/ PromoteFail \/ PromoteFinish PROVE FALSE
    BY <1>10 DEF HeadUndisturbed, LaneAsked, PromoteBlock, PromoteFail, PromoteFinish
<1>11. CASE \E u \in Inputs : SteerText(u) \/ SteerPrepare(u)
                              \/ \E src \in {"send", "queue"} : Queue(u, src)
    BY <1>4, <1>5, <1>6, <1>11
<1>12. CASE \E i \in Inputs : Update(i) \/ Delete(i) \/ ResolveBlocked(i) \/ Retry(i)
                                 \/ ResumeQueue(i)
    BY <1>7, <1>8, <1>9, <1>12
<1>13. CASE SteerAccept \/ SteerDrop \/ \E i \in Inputs : PromoteClaim(i)
  <2>1. 1 \in Inputs
      BY StoreAssumption DEF Inputs
  <2> QED
      BY <1>4, <1>5, <1>9, <1>13, <2>1
<1>14. CASE \E i, j \in Inputs : Move(i, j)
    BY <1>9, <1>14
<1> QED
    BY <1>10, <1>11, <1>12, <1>13, <1>14 DEF Admission

\* A drain that starts nothing has nothing to start.
LEMMA DrainIdleWakes ==
    ASSUME LaneSound, LaneSound', PhaseInvariant, LaneAsked, HeadUndisturbed, SteerClaimable,
           DrainIdle
    PROVE  CouldStart' => WakeupComes'
<1> USE PhaseFacts
<1>1. SUFFICES ASSUME CouldStart' PROVE FALSE
    OBVIOUS
<1>2. UNCHANGED <<db, inst>> /\ pump'.held = pump.held
  <2> DEFINE back == GiveBack(pump, turn, inst.status)
  <2>1. back \in Pumps /\ back.held = pump.held
      BY GiveBackType, WakeupsKeepHolds
  <2>2. pump' = back \/ pump' = Schedule(back, turn, inst.status, "enqueue")
      BY DEF DrainIdle
  <2> HIDE DEF back
  <2> QED
      BY <2>1, <2>2, WakeupsKeepHolds DEF DrainIdle
<1>3. CouldStart
    BY <1>1, <1>2 DEF CouldStart, Startable
<1>4. ~HasClaimed(db)
  <2>1. pump.launched = None /\ call.lane # "promote"
      BY DEF DrainIdle, OwnershipInvariant, LeaseOwnership, HeadUndisturbed, LaneAsked
  <2> QED
      BY <2>1, NoneIsNoRun DEF HasClaimed, ClaimStanding, Promoting
<1>5. DrainReady
    BY <1>3, <1>4 DEF CouldStart, DrainReady, CanDrainFrom, ProjectedStatus
<1>6. PICK s \in Startable : TRUE
    BY <1>3 DEF CouldStart
<1>7. db.mode[s] = "steer" => CanClaimSteer(db, s)
  <2> HAVE db.mode[s] = "steer"
  <2>1. IsOpenSteer(db, s) /\ s \in Inputs
      BY DEF Startable, NextInput, NextSteer, NextQueue, WaitingSteer, QueueHead, WaitingQueue,
             QueueRows, IsOpenSteer
  <2> QED
      BY <1>3, <2>1 DEF SteerClaimable, CouldStart
<1>8. s \in Drainable
    BY <1>7 DEF Startable, Drainable, CanClaim
<1> QED
    BY <1>5, <1>8 DEF DrainIdle

\* A wakeup that was deferred, or the look for what comes next, follows each turn.
LEMMA PumpWakes ==
    ASSUME LaneSound, LaneSound', PhaseInvariant, CouldStart => WakeupComes,
           NextIfReady \/ \E i \in Inputs : Finalize(i)
    PROVE  CouldStart' => WakeupComes'
<1> USE PhaseFacts
<1>1. SUFFICES ASSUME CouldStart' PROVE WakeupComes'
    OBVIOUS
<1>2. inst'.status = "idle" /\ ~HasInteraction(db')
    BY <1>1 DEF CouldStart
<1>3. CASE NextIfReady
  <2> DEFINE p == [pump EXCEPT !.next = FALSE]
  <2>1. p \in Pumps
      BY DEF Pumps
  <2>2. inst.status = "idle" /\ ProjectedStatus = "idle" /\ ~HasInteraction(db)
      BY <1>2, <1>3 DEF NextIfReady, ProjectedStatus
  <2>3. pump' = Schedule(p, turn, inst.status, "completed") /\ turn' = turn
      BY <1>3, <2>2 DEF NextIfReady
  <2> HIDE DEF p
  <2> QED
      BY <1>2, <2>1, <2>2, <2>3, Woken
<1>4. ASSUME NEW i \in Inputs, Finalize(i) PROVE WakeupComes'
  <2> DEFINE back == GiveBack(pump, turn', inst.status)
             freed == [pump EXCEPT !.lease = "free", !.launched = None, !.wake = "none",
                                   !.again = FALSE, !.deferred = "none"]
             again == db.state[i] \in {"pending", "retry_required"}
             resumed == IF db.state[i] \in {"none", "consumed"} THEN back.resumed \ {i} ELSE back.resumed
  <2>1. /\ pump.launched = i /\ UNCHANGED <<db, inst>>
        /\ pump' = [back EXCEPT !.next = pump.next \/ (~again /\ NextInput(db) # {}),
                                !.resumed = resumed]
      BY <1>4 DEF Finalize
  <2>2. back \in Pumps /\ back.held = pump.held
      BY GiveBackType, WakeupsKeepHolds
  <2>3. pump.deferred # "none" => back.lease = "drain"
    <3>1. freed \in Pumps /\ freed.lease = "free"
        BY DEF Pumps, Wakes
    <3>2. pump.deferred # "none" => back = Schedule(freed, turn', inst.status, pump.deferred)
        BY DEF GiveBack
    <3> HIDE DEF freed, back
    <3> QED
        BY <3>1, <3>2 DEF Schedule, Pumps
  <2> HIDE DEF back, resumed
  <2>4. /\ pump'.held = pump.held /\ pump'.lease = back.lease
        /\ pump'.next = (pump.next \/ (~again /\ NextInput(db) # {}))
      BY <2>1, <2>2 DEF Pumps
  <2>5. CouldStart
      BY <1>1, <2>1, <2>4 DEF CouldStart, Startable
  <2>6. NextInput(db) # {}
      BY <2>5 DEF CouldStart, Startable
  <2>7. pump.lease = "turn"
      BY <2>1, NoneIsNoRun DEF OwnershipInvariant, LeaseOwnership
  <2>8. pump.next \/ pump.deferred # "none" \/ db.state[i] \in {"none", "consumed"}
      BY <2>1, <2>5, <2>7 DEF WakeupComes
  <2> QED
      BY <2>3, <2>4, <2>6, <2>8 DEF WakeupComes
<1> QED
    BY <1>3, <1>4

\* Stop, the answer to an interaction, and a restart, which holds every row it finds.
LEMMA OutsideWakes ==
    ASSUME LaneSound, LaneSound', PhaseInvariant, SteerOrderInvariant, SteerOrderInvariant',
           CouldStart => WakeupComes,
           \/ Cancel \/ (\E a \in Inputs : Respond(a)) \/ UNCHANGED vars
           \/ Restart \/ \E r \in Runs : RestartMidRollback(r)
    PROVE  CouldStart' => WakeupComes'
<1> USE PhaseFacts
<1>1. SUFFICES ASSUME CouldStart' PROVE WakeupComes'
    OBVIOUS
<1>2. inst'.status = "idle"
    BY <1>1 DEF CouldStart
<1>3. CASE Cancel
  <2>1. \/ inst.active # None /\ UNCHANGED inst
        \/ inst.controller # None /\ inst' = [inst EXCEPT !.controller = None]
        \/ UNCHANGED turn /\ pump' = Schedule(pump, turn, "idle", "completed")
      BY <1>3 DEF Cancel
  <2>2. CASE inst.active # None \/ inst.controller # None
    <3>1. inst.status = "generating"
        BY <2>2, IdleRests
    <3>2. UNCHANGED turn /\ pump' = Schedule(pump, turn, "idle", "completed")
        BY <1>2, <2>1, <3>1 DEF Instances
    <3> QED
        BY <1>2, <3>2, Woken
  <2> QED
      BY <1>2, <2>1, <2>2, Woken
<1>4. ASSUME NEW a \in Inputs, Respond(a) PROVE FALSE
    BY <1>2, <1>4 DEF Respond, Instances
<1>5. CASE UNCHANGED vars
    BY <1>1, <1>5, WakeupStays DEF vars
<1>6. ASSUME NEW d \in Databases, CrashWith(d), RowsKept(db, d) PROVE FALSE
  <2>1. db' = Recover(d) /\ pump'.held = HeldByRestart(d)
      BY <1>6 DEF CrashWith, RestedPump
  <2>2. NextQueue(db') \subseteq pump'.held
    <3>1. ASSUME NEW i \in NextQueue(db') PROVE i \in pump'.held
      <4>1. i \in Inputs /\ db'.mode[i] = "queue" /\ db'.state[i] = "pending"
          BY DEF NextQueue, QueueHead, WaitingQueue, QueueRows
      <4>2. d.mode[i] = "queue"
          BY <2>1, <4>1, RecoverRows
      <4> QED
          BY <2>1, <4>1, <4>2, RecoverRows
    <3> QED
        BY <3>1
  <2>3. NextSteer(db') = {}
    <3>1. ASSUME NEW i \in Inputs, d.mode[i] = "steer" PROVE db'.state[i] # "pending"
      <4>1. d.state[i] \notin {"blocked", "retry_required"}
          BY <1>6, <3>1 DEF RowsKept, ClaimStanding
      <4>2. d.state[i] \in {"none", "pending", "claimed", "consumed"}
          BY <4>1 DEF Databases, RowStates
      <4> QED
          BY <2>1, <3>1, <4>2, RecoverEffect, RecoverRows
    <3>2. db'.mode = d.mode
        BY <2>1, RecoverRows
    <3> QED
        BY <3>1, <3>2 DEF NextSteer, WaitingSteer
  <2> QED
      BY <1>1, <2>2, <2>3, NothingStartable
<1>7. CASE Restart
    BY <1>6, <1>7 DEF Restart, RowsKept
<1>8. ASSUME NEW r \in Runs, RestartMidRollback(r) PROVE FALSE
  <2>1. r \in Inputs /\ CrashWith(Rollback(db, r))
      BY <1>8, LaunchedRuns DEF RestartMidRollback, Undone, Unsettled
  <2> QED
      BY <1>6, <2>1, RollbackEffect
<1> QED
    BY <1>3, <1>4, <1>5, <1>7, <1>8

\* A claim that is given back before the provider was stopped, and no steer row is open.
LEMMA AbortedWakes ==
    ASSUME LaneSound, LaneSound', PhaseInvariant, StoppedAlone, HeadTaken(db, pump.held),
           NEW r \in Inputs, r \in Running, NEW late \in BOOLEAN, AbortedPreStream(r, late),
           db'.state[r] = "retry_required"
    PROVE  ~CouldStart'
<1> USE PhaseFacts, RunFacts, RunRowFacts
<1> DEFINE t == turn[r]
           handoff == t.signal = "handoff"
           written ==
             CASE late /\ t.stage = "preparing" /\ db.msgs[r] = {} -> AppendUserFact(db, r)
               [] late /\ t.stage = "factual" /\ t.source # "steer" /\ ~handoff ->
                      WriteAssistant(db, r)
               [] OTHER -> db
           settled ==
             IF ~Unsettled(r) THEN written
             ELSE IF Exists(written, r) \/ t.source = "steer" THEN Consume(written, r)
             ELSE Release(written, r, "retry_required")
<1>1. db' = IF handoff THEN DeleteAssistant(settled, r) ELSE SetAssistant(settled, r, "error")
    BY NoneIsNoRun DEF AbortedPreStream
<1>2. turn[r].stage \in PreStream /\ turn[r].signal # "live" /\ pump' = pump
    BY DEF AbortedPreStream
<1>3. written \in Databases /\ RowsKept(db, written) /\ QueueKept(db, written)
  <2>1. written \in {AppendUserFact(db, r), WriteAssistant(db, r), db}
      OBVIOUS
  <2>2. AppendUserFact(db, r) \in Databases /\ WriteAssistant(db, r) \in Databases
      BY AppendUserFactType, WriteAssistantType
  <2>3. RowsKept(db, db) /\ QueueKept(db, db)
      BY DEF RowsKept, QueueKept
  <2> HIDE DEF written
  <2> QED
      BY <2>1, <2>2, <2>3, MessagesRows, MessagesKeepQueue
<1>4. Exists(db, r) => Exists(written, r)
  <2>1. Exists(db, r) => Exists(AppendUserFact(db, r), r) /\ Exists(WriteAssistant(db, r), r)
      BY DEF Exists, AppendUserFact, WriteUserMessage, WriteAssistant, Databases
  <2> QED
      BY <2>1
<1> HIDE DEF written
<1>5. db'.state[r] = settled.state[r] /\ RowsKept(settled, db') /\ QueueKept(settled, db')
  <2>1. settled \in Databases
    <3>1. Consume(written, r) \in Databases /\ Release(written, r, "retry_required") \in Databases
        BY <1>3, ConsumeType, ReleaseType DEF RowStates
    <3> QED
        BY <1>3, <3>1
  <2> HIDE DEF settled
  <2>2. RowsKept(settled, db') /\ QueueKept(settled, db')
      BY <1>1, <2>1, MessagesRows, MessagesKeepQueue
  <2> QED
      BY <2>2 DEF RowsKept
<1>6. ~turn[r].fenced /\ settled = Release(written, r, "retry_required") /\ ~Exists(written, r)
      /\ turn[r].source # "steer"
  <2>1. CASE ~Unsettled(r)
      BY <1>3, <1>5, <2>1 DEF RowsKept
  <2>2. CASE Unsettled(r) /\ (Exists(written, r) \/ t.source = "steer")
    <3>1. settled = Consume(written, r)
        BY <2>2
    <3>2. settled.state[r] \in {"consumed", "none"}
        BY <1>3, <3>1, ConsumeRows DEF RowWritten
    <3> QED
        BY <1>5, <3>2
  <2>3. CASE Unsettled(r) /\ ~(Exists(written, r) \/ t.source = "steer")
      BY <2>3
  <2> QED
      BY <2>1, <2>2, <2>3
<1>7. db.state[r] = "claimed" /\ db.mode[r] = "queue"
    BY <1>6
<1>8. turn[r].signal = "stopped"
  <2>1. turn[r].signal # "handoff"
      BY <1>2, <1>4, <1>6 DEF BoundaryInvariant, TextStanding
  <2>2. turn[r].signal \in {"live", "stopped", "handoff"}
      BY DEF Turns
  <2> QED
      BY <1>2, <2>1, <2>2
<1>9. \A j \in Inputs : ~IsOpenSteer(db, j)
    BY <1>2, <1>6, <1>8 DEF StoppedAlone
<1>10. QueueKept(db, db') /\ RowWritten(db, db', r, "retry_required", "queue")
  <2>1. QueueKept(written, settled) /\ RowWritten(written, settled, r, "retry_required", "queue")
      BY <1>3, <1>6, <1>7, StateKeepsQueue, RowsOf DEF RowsKept, ActiveStates, WaitingStates
  <2>2. RowWritten(db, db', r, "retry_required", "queue")
      BY <1>3, <1>5, <2>1 DEF RowsKept, RowWritten
  <2>3. QueueKept(db, db')
      BY <1>3, <1>5, <2>1 DEF QueueKept
  <2> QED
      BY <2>2, <2>3
<1> QED
    BY <1>2, <1>7, <1>9, <1>10, GivenBackStartsNothing

\* A turn that ends has settled its row, shows an error, blocks the queue or leaves nothing
\* to start; a resumed run wakes the pump.
LEMMA TurnWakes ==
    ASSUME LaneSound, LaneSound', PhaseInvariant, StoppedAlone, HeadTaken(db, pump.held),
           NEW r \in Runs, TurnStep(r)
    PROVE  CouldStart' => WakeupComes'
<1> USE PhaseFacts
<1>1. SUFFICES ASSUME CouldStart' PROVE WakeupComes'
    OBVIOUS
<1>2. inst'.status = "idle" /\ ~HasBlocking(db')
    BY <1>1 DEF CouldStart
<1>3. (r \notin Running)'
    BY <1>2, IdleRests DEF LaneSound, OwnershipInvariant, RunIsGenerating
<1>4. r \in Running
    BY RunningStage
<1>5. ~(TurnUserFact(r) \/ TurnReserve(r) \/ TurnRegister(r) \/ ProviderStart(r))
  <2>1. ASSUME TurnUserFact(r) \/ TurnReserve(r) \/ TurnRegister(r) \/ ProviderStart(r)
        PROVE  turn'[r].stage \in PreStream \cup InStream
      BY <2>1 DEF TurnUserFact, TurnReserve, TurnRegister, ProviderStart, PreStream, InStream, Turns
  <2> QED
      BY <1>3, <2>1 DEF Running
<1>6. \/ TurnBlock(r)
      \/ \E result \in Results : StreamEnd(r, result)
      \/ \E late \in BOOLEAN : AbortedPreStream(r, late)
      \/ FailedPreStream(r)
    BY <1>5 DEF TurnStep
<1>7. ~FailedPreStream(r)
    BY <1>2 DEF FailedPreStream, Cleared, Instances
<1>8. ASSUME NEW result \in Results, StreamEnd(r, result) PROVE result \in {"completed", "aborted"}
    BY <1>2, <1>8 DEF StreamEnd, Cleared, Instances, StatusAfter, Results
<1>9. CASE r = Resumed
  <2>1. ~TurnBlock(Resumed)
      BY DEF TurnBlock, OwnershipInvariant, ResumedSkipsPreparation, InStream
  <2>2. \E status : pump' = Schedule(pump, turn', status, "completed") /\ status = "idle"
      BY <1>2, <1>6, <1>7, <1>8, <1>9, <2>1 DEF StreamEnd, AbortedPreStream
  <2> QED
      BY <1>2, <2>2, Woken
<1>10. CASE r # Resumed
  <2>1. r \in Inputs
      BY <1>10, LaunchedRuns
  <2>2. RunLeaves(r) /\ pump' = pump
      BY <1>4, <1>6, <1>7, <1>10, <2>1, BlockLeaves, StreamEndLeaves, AbortedLeaves
      DEF TurnBlock, StreamEnd, AbortedPreStream
  <2>3. pump.launched = r /\ pump.lease = "turn"
    <3>1. turn[r].stage # "none"
        BY <1>4 DEF Running, PreStream, InStream
    <3> QED
        BY <2>1, <3>1, NoneIsNoRun DEF OwnershipInvariant, LeaseOwnership
  <2>4. CASE db'.state[r] \in {"none", "consumed"}
      BY <2>2, <2>3, <2>4 DEF WakeupComes
  <2>5. CASE db'.state[r] = "blocked"
      BY <1>2, <2>1, <2>5 DEF HasBlocking
  <2>6. CASE db'.state[r] = "retry_required"
    <3>1. ~TurnBlock(r)
      <4>1. TurnBlock(r) => RowWritten(db, db', r, "blocked", db.mode[r])
          BY <2>1, RowsOf DEF TurnBlock
      <4> QED
          BY <2>1, <2>6, <4>1 DEF RowWritten
    <3>2. ASSUME NEW result \in Results, StreamEnd(r, result) PROVE FALSE
      <4>1. ~Undone(r, result)
          BY <1>8, <3>2 DEF Undone
      <4> DEFINE answered == SetAssistant(db, turn[r].answer, AnswerStatus[result])
      <4>2. db' = IF Unsettled(r) THEN Consume(answered, r) ELSE answered
          BY <3>2, <4>1 DEF StreamEnd
      <4>3. answered \in Databases /\ RowsKept(db, answered)
        <5>1. AnswerStatus[result] \in AssistantStates /\ turn[r].answer = r
            BY <1>4, <2>1, RunFacts DEF AnswerStatus, Results, AssistantStates
        <5> QED
            BY <2>1, <5>1, SetAssistantType, MessagesRows
      <4> HIDE DEF answered
      <4>4. db'.state[r] \in {"none", "consumed"}
        <5>1. CASE Unsettled(r)
            BY <2>1, <4>2, <4>3, <5>1, ConsumeRows DEF RowWritten
        <5>2. CASE ~Unsettled(r)
            BY <1>4, <2>1, <4>2, <4>3, <5>2, RunRowFacts DEF RowsKept
        <5> QED
            BY <5>1, <5>2
      <4> QED
          BY <2>6, <4>4
    <3>3. ASSUME NEW late \in BOOLEAN, AbortedPreStream(r, late) PROVE FALSE
        BY <1>1, <1>4, <2>1, <2>6, <3>3, AbortedWakes
    <3> QED
        BY <1>6, <1>7, <3>1, <3>2, <3>3
  <2> QED
      BY <2>2, <2>4, <2>5, <2>6 DEF RunLeaves
<1> QED
    BY <1>9, <1>10

LEMMA WakeupStep ==
    ASSUME HeadUndisturbed, LaneSound, LaneSound', PhaseInvariant, SteerOrderInvariant,
           SteerOrderInvariant', LaneAsked, LaneAsked', DenseOrder(db), SteerClaimable,
           WakeupInvariant, [Next]_vars
    PROVE  WakeupInvariant'
<1> USE DEF WakeupInvariant
<1>1. HeadTaken(db', pump'.held)
    BY HeadStep
<1>2. StoppedAlone'
    BY StoppedStep
<1>3. CouldStart' => WakeupComes'
    BY AdmissionWakes, DrainWakes, DrainIdleWakes, PumpWakes, TurnWakes, OutsideWakes
    DEF Next, Drain
<1>4. HeadTaken(db, pump.held)'
    BY <1>1 DEF HeadTaken, QueueHead, WaitingQueue, QueueRows
<1> QED
    BY <1>2, <1>3, <1>4

LEMMA WakeupInit == Init => WakeupInvariant
<1> SUFFICES ASSUME Init PROVE WakeupInvariant
    OBVIOUS
<1>1. \A i \in Inputs : db.state[i] = "none" /\ turn[i].stage = "none"
    BY NoneIsNoRun DEF Init, EmptyDatabase, NoTurn
<1>2. NextInput(db) = {}
    BY <1>1 DEF NextInput, NextSteer, NextQueue, QueueHead, WaitingQueue, QueueRows, WaitingSteer
<1> QED
    BY <1>1, <1>2
    DEF WakeupInvariant, CouldStart, Startable, HeadTaken, QueueRows, StoppedAlone, IsOpenSteer,
        PreStream, ActiveStates, WaitingStates

-----------------------------------------------------------------------------
(* An open steer row can be claimed. *)

\* No steer row opens, and what the open ones carry stays unread.
UnreadKept(d, e) ==
    \A i \in Inputs : IsOpenSteer(e, i) =>
        /\ IsOpenSteer(d, i) /\ e.msgs[i] = d.msgs[i]
        /\ \A u \in d.msgs[i] : IsUnread(d, u) => IsUnread(e, u)

LEMMA UnreadKeptTwice ==
    ASSUME NEW d, NEW e, NEW f, UnreadKept(d, e), UnreadKept(e, f)
    PROVE  UnreadKept(d, f)
BY DEF UnreadKept

LEMMA UntouchedKeepsUnread ==
    ASSUME NEW d, NEW e, Untouched(d, e)
    PROVE  UnreadKept(d, e)
BY DEF UnreadKept, Untouched, RowsKept, MessagesKept, IsOpenSteer, IsUnread, Exists

LEMMA QueueRowKeepsUnread ==
    ASSUME NEW d \in Databases, NEW e \in Databases, NEW i \in Inputs, NEW s, NEW L,
           RowWritten(d, e, i, s, "queue"), MessagesKept(d, e), LinkWritten(d, e, i, L)
    PROVE  UnreadKept(d, e)
<1>1. ASSUME NEW j \in Inputs, IsOpenSteer(e, j)
      PROVE  IsOpenSteer(d, j) /\ e.msgs[j] = d.msgs[j]
    BY <1>1 DEF RowWritten, LinkWritten, IsOpenSteer
<1>2. \A u : IsUnread(d, u) => IsUnread(e, u)
    BY DEF MessagesKept, IsUnread, Exists
<1> QED
    BY <1>1, <1>2 DEF UnreadKept

\* A queue row changes its state, is given back, deleted or submitted.
LEMMA QueueEditsKeepUnread ==
    ASSUME NEW d \in Databases, NEW i \in Inputs, NEW s \in RowStates, d.mode[i] = "queue"
    PROVE  /\ UnreadKept(d, SetState(d, i, s)) /\ UnreadKept(d, Release(d, i, s))
           /\ UnreadKept(d, DeleteRow(d, i))
<1>1. UnreadKept(d, SetState(d, i, s))
    BY SetStateType, RowsOf, RowsLeaveMessages, QueueRowKeepsUnread
<1>2. UnreadKept(d, Release(d, i, s))
    BY ReleaseType, RowsOf, RowsLeaveMessages, QueueRowKeepsUnread
<1>3. UnreadKept(d, DeleteRow(d, i))
    BY DeleteRowType, DeleteRowRows, DeleteRowLeavesMessages, QueueRowKeepsUnread
<1> QED
    BY <1>1, <1>2, <1>3

\* The text of a queue row is written: no open steer row carries it.
LEMMA UserFactKeepsUnread ==
    ASSUME NEW d \in Databases, NEW i \in Inputs, d.mode[i] = "queue",
           \A j \in Inputs : IsOpenSteer(d, j) => i \notin d.msgs[j]
    PROVE  UnreadKept(d, AppendUserFact(d, i))
<1> DEFINE e == AppendUserFact(d, i)
<1>1. /\ MessageWritten(d, e, i, "sent", "none") /\ RowsKept(d, e)
      /\ LinkWritten(d, e, i, {i})
    BY AppendUserFactEffect
<1> HIDE DEF e
<1>2. ASSUME NEW j \in Inputs, IsOpenSteer(e, j)
      PROVE  /\ IsOpenSteer(d, j) /\ e.msgs[j] = d.msgs[j]
             /\ \A u \in d.msgs[j] : IsUnread(d, u) => IsUnread(e, u)
  <2>1. IsOpenSteer(d, j) /\ j # i
      BY <1>1, <1>2 DEF RowsKept, IsOpenSteer
  <2>2. i \notin d.msgs[j] /\ d.msgs[j] \subseteq Inputs
      BY <2>1 DEF Databases
  <2> QED
      BY <1>1, <2>1, <2>2 DEF LinkWritten, MessageWritten, IsUnread, Exists
<1>3. UnreadKept(d, e)
    BY <1>2 DEF UnreadKept
<1> QED
    BY <1>3 DEF e

\* A claim is settled: a steer row settles the messages it has read.
LEMMA ConsumeKeepsUnread ==
    ASSUME NEW d \in Databases, NEW i \in Inputs,
           d.mode[i] = "steer" => \A u \in d.msgs[i] : ~IsUnread(d, u)
    PROVE  UnreadKept(d, Consume(d, i))
<1>1. CASE d.mode[i] = "queue"
    BY <1>1, QueueEditsKeepUnread DEF Consume, RowStates
<1>2. CASE d.mode[i] = "steer"
  <2> DEFINE e == Consume(d, i)
  <2>1. /\ e.msgs = d.msgs /\ e.seq = d.seq /\ e.receipt = d.receipt
        /\ \A u \in Inputs \ d.msgs[i] : e.status[u] = d.status[u]
      BY <1>2 DEF Consume, SetMessages, SetState, Databases
  <2>2. RowWritten(d, e, i, "consumed", "steer")
      BY <1>2, ConsumeRows
  <2> HIDE DEF e
  <2>3. ASSUME NEW j \in Inputs, IsOpenSteer(e, j)
        PROVE  /\ IsOpenSteer(d, j) /\ e.msgs[j] = d.msgs[j]
               /\ \A u \in d.msgs[j] : IsUnread(d, u) => IsUnread(e, u)
    <3>1. IsOpenSteer(d, j) /\ d.msgs[j] \subseteq Inputs
        BY <2>2, <2>3 DEF RowWritten, IsOpenSteer, Databases
    <3>2. \A u \in Inputs : IsUnread(d, u) => u \notin d.msgs[i]
        BY <1>2
    <3> QED
        BY <2>1, <3>1, <3>2 DEF IsUnread, Exists
  <2>4. UnreadKept(d, e)
      BY <2>3 DEF UnreadKept
  <2> QED
      BY <2>4 DEF e
<1> QED
    BY <1>1, <1>2 DEF Databases

\* The messages of a claimed steer row have been read: its answer stands below them and
\* above every message that is unread.
LEMMA ClaimedIsRead ==
    ASSUME LaneSound, LaneSound', PhaseInvariant, SteerOrderInvariant,
           NEW i \in SteerRows(db, "claimed"), NEW u \in db.msgs[i]
    PROVE  ~IsUnread(db, u)
<1> USE PhaseFacts
<1>1. i \in Inputs /\ db.mode[i] = "steer" /\ db.state[i] = "claimed" /\ i \in Runs
    BY DEF SteerRows
<1>2. pump.launched = i /\ ~turn[i].fenced
    BY <1>1 DEF ClaimStanding
<1>3. turn[i].stage \notin {"none", "finishing"} /\ turn[i].stage \in Stages
    BY <1>1, <1>2 DEF ClaimStanding, OwnershipInvariant, LeaseOwnership, Turns
<1>4. i \in Running
    BY <1>1, <1>3 DEF Running, Stages, PreStream, InStream
<1>5. Answering(i)
    BY <1>4 DEF Answering
<1>6. u \in Inputs
    BY <1>1 DEF Databases
<1>7. db.seq[u] < db.aseq[i] /\ db.seq[u] \in Nat /\ db.aseq[i] \in Nat
    BY <1>1, <1>6 DEF SteerOrderInvariant, AnsweredBelow, Databases
<1>8. IsUnread(db, u) => db.aseq[i] < db.seq[u]
    BY <1>1, <1>5, <1>6 DEF SteerOrderInvariant
<1> QED
    BY <1>7, <1>8

\* No other row carries the message of a claimed queue row.
LEMMA OwnMessageOnly ==
    ASSUME PhaseInvariant, NEW i \in Inputs, db.mode[i] = "queue", db.state[i] # "none",
           NEW j \in Inputs, IsOpenSteer(db, j)
    PROVE  i \notin db.msgs[j]
<1>1. ASSUME i \in db.msgs[j] PROVE FALSE
  <2>1. Carries(j, i) /\ i # j
      BY <1>1 DEF Carries, IsOpenSteer
  <2>2. db.state[i] = "none"
      BY <2>1 DEF PhaseInvariant, CarriersStand
  <2> QED
      BY <2>2
<1> QED
    BY <1>1

\* A row that can be claimed stays one; the others rest in an error until the session runs.
LEMMA ClaimableStays ==
    ASSUME SteerClaimable, UnreadKept(db, db'),
           \/ Running # {}
           \/ /\ inst'.status = inst.status /\ (Running = {} => Running' = {})
              /\ HasInteraction(db') => HasInteraction(db)
           \/ /\ inst'.status = "error" /\ Running' = {} /\ ~HasInteraction(db')
    PROVE  SteerClaimable'
<1>1. ASSUME NEW i \in Inputs, IsOpenSteer(db', i)
      PROVE  \/ CanClaimSteer(db', i)
             \/ inst'.status = "error" /\ Running' = {} /\ ~HasInteraction(db')
  <2>1. /\ IsOpenSteer(db, i) /\ db'.msgs[i] = db.msgs[i]
        /\ \A u \in db.msgs[i] : IsUnread(db, u) => IsUnread(db', u)
      BY <1>1 DEF UnreadKept
  <2>2. CASE CanClaimSteer(db, i)
      BY <2>1, <2>2 DEF CanClaimSteer
  <2>3. CASE inst.status = "error" /\ Running = {} /\ ~HasInteraction(db)
      BY <2>3
  <2> QED
      BY <2>1, <2>2, <2>3 DEF SteerClaimable
<1> QED
    BY <1>1 DEF SteerClaimable, IsOpenSteer, CanClaimSteer, IsUnread, Exists, HasInteraction

LEMMA NoneIsClaimable ==
    ASSUME \A i \in Inputs : ~IsOpenSteer(db', i)
    PROVE  SteerClaimable'
BY DEF SteerClaimable, IsOpenSteer

\* Steps that leave the turns alone, up to the signals, and open no interaction.
LEMMA ClaimableRests ==
    ASSUME SteerClaimable, UnreadKept(db, db'), inst'.status = inst.status, TurnsStay,
           HasInteraction(db') => HasInteraction(db)
    PROVE  SteerClaimable'
<1>1. Running' \subseteq Running
    BY DEF TurnsStay, Running
<1> QED
    BY <1>1, ClaimableStays

\* The steps of the user on the rows of the queue.
LEMMA QueueEditsClaimable ==
    ASSUME LaneSound, LaneSound', PhaseInvariant, SteerClaimable,
           \/ \E i \in Inputs : Update(i) \/ ResolveBlocked(i) \/ Retry(i) \/ Delete(i)
           \/ \E i, j \in Inputs : Move(i, j)
           \/ \E h \in Inputs : ResumeQueue(h)
    PROVE  SteerClaimable'
<1> USE PhaseFacts
<1>1. ASSUME NEW i \in Inputs, Update(i) \/ ResolveBlocked(i) \/ Retry(i) \/ Delete(i)
      PROVE  SteerClaimable'
  <2>1. /\ db.mode[i] = "queue"
        /\ db' = SetState(db, i, "pending") \/ db' = DeleteRow(db, i)
        /\ inst' = inst /\ turn' = turn
      BY <1>1
      DEF Update, ResolveBlocked, Retry, Delete, WaitingQueue, QueueRows, ClaimStanding,
          WaitingStates
  <2>2. "pending" \in RowStates
      BY DEF RowStates
  <2>3. UnreadKept(db, db')
      BY <2>1, <2>2, QueueEditsKeepUnread
  <2>4. AnswersKept(db, db')
    <3>1. CASE db' = SetState(db, i, "pending")
        BY <3>1 DEF AnswersKept, SetState
    <3>2. CASE db' = DeleteRow(db, i)
        BY <3>2, DeleteRowKeepsCarriage
    <3> QED
        BY <2>1, <3>1, <3>2
  <2> QED
      BY <2>1, <2>3, <2>4, ClaimableRests DEF TurnsStay, HasInteraction, AnswersKept
<1>2. ASSUME NEW i \in Inputs, NEW j \in Inputs, Move(i, j) PROVE SteerClaimable'
  <2>1. db' \in Moves(db, i, j) /\ UNCHANGED <<inst, turn>>
      BY <1>2 DEF Move
  <2>2. AnswersKept(db, db')
      BY <2>1, MovesKeepCarriage
  <2>3. UnreadKept(db, db')
      BY <2>1, MovesRows, MovesLeaveMessages, UntouchedKeepsUnread DEF Untouched
  <2> QED
      BY <2>1, <2>2, <2>3, ClaimableRests DEF TurnsStay, HasInteraction, AnswersKept
<1>3. ASSUME NEW h \in Inputs, ResumeQueue(h) PROVE SteerClaimable'
  <2>1. UnreadKept(db, db')
      BY <1>3 DEF ResumeQueue, UnreadKept
  <2> QED
      BY <1>3, <2>1, ClaimableRests DEF ResumeQueue, TurnsStay
<1> QED
    BY <1>1, <1>2, <1>3

LEMMA IdleClaimable ==
    ASSUME SteerClaimable,
           \/ \E u \in Inputs : SteerPrepare(u)
           \/ SteerDrop \/ DrainIdle \/ NextIfReady \/ UNCHANGED vars
    PROVE  SteerClaimable'
<1>1. UNCHANGED <<db, inst, turn>>
    BY DEF SteerPrepare, SteerDrop, DrainIdle, NextIfReady, vars
<1>2. UnreadKept(db, db')
    BY <1>1 DEF UnreadKept
<1> QED
    BY <1>1, <1>2, ClaimableRests DEF TurnsStay

LEMMA FinalizeClaimable ==
    ASSUME SteerClaimable, LaneSound, NEW i \in Inputs, Finalize(i)
    PROVE  SteerClaimable'
<1>1. turn' = [turn EXCEPT ![i] = NoTurn] /\ UNCHANGED <<db, inst>>
    BY DEF Finalize
<1>2. Running' \subseteq Running
    BY <1>1 DEF Running, NoTurn, PreStream, InStream, LaneSound, OwnershipInvariant, TypeOK
<1>3. UnreadKept(db, db')
    BY <1>1 DEF UnreadKept
<1> QED
    BY <1>1, <1>2, <1>3, ClaimableStays

\* Stop and the answer of the user: a session in error with nothing to answer has no owner.
LEMMA SignalClaimable ==
    ASSUME LaneSound, LaneSound', PhaseInvariant, SteerClaimable,
           Cancel \/ \E a \in Inputs : Respond(a)
    PROVE  SteerClaimable'
<1> USE PhaseFacts
<1>1. ASSUME NEW astatus, db' = [db EXCEPT !.astatus = astatus] PROVE UnreadKept(db, db')
    BY <1>1 DEF UnreadKept, IsOpenSteer, IsUnread, Exists, Databases
<1>2. ASSUME HasInteraction(db), UnreadKept(db, db') PROVE SteerClaimable'
  <2>1. \A i \in Inputs : IsOpenSteer(db, i) => CanClaimSteer(db, i)
      BY <1>2 DEF SteerClaimable
  <2> QED
      BY <1>2, <2>1 DEF SteerClaimable, UnreadKept, IsOpenSteer, CanClaimSteer, IsUnread, Exists
<1>3. ASSUME NEW a \in Inputs, Respond(a) PROVE SteerClaimable'
    BY <1>1, <1>2, <1>3 DEF Respond, HasInteraction
<1>4. CASE Cancel
  <2>1. CASE inst.active # None \/ inst.controller # None
    <3>1. Running # {}
        BY <2>1 DEF OwnershipInvariant, ControllerOwnership
    <3>2. db' = db
        BY <1>4, <2>1 DEF Cancel
    <3> QED
        BY <3>1, <3>2, ClaimableStays DEF UnreadKept
  <2>2. CASE inst.active = None /\ inst.controller = None
      BY <1>1, <1>2, <1>4, <2>2 DEF Cancel
  <2> QED
      BY <2>1, <2>2
<1> QED
    BY <1>3, <1>4

\* A row is launched from a database where no steer row is open.
LEMMA LaunchClaimable ==
    ASSUME NEW d \in Databases, NEW i \in Inputs, NEW source, Launch(d, i, source),
           source # "steer" => d.mode[i] = "queue", \A j \in Inputs : ~IsOpenSteer(d, j)
    PROVE  SteerClaimable'
<1>1. CASE db' = d
    BY <1>1, NoneIsClaimable
<1>2. CASE source = "steer" /\ db' = Consume(SetAssistant(d, i, "error"), i)
  <2>1. SetAssistant(d, i, "error") \in Databases /\ RowsKept(d, SetAssistant(d, i, "error"))
      BY SetAssistantType, MessagesRows DEF AssistantStates
  <2> DEFINE w == SetAssistant(d, i, "error")
  <2>2. RowWritten(w, db', i, IF w.mode[i] = "steer" THEN "consumed" ELSE "none", w.mode[i])
      BY <1>2, <2>1, ConsumeRows
  <2> HIDE DEF w
  <2>3. w.mode = d.mode /\ w.state = d.state
      BY <2>1 DEF RowsKept, w
  <2>4. \A j \in Inputs : ~IsOpenSteer(db', j)
      BY <2>2, <2>3 DEF RowWritten, IsOpenSteer
  <2> QED
      BY <2>4, NoneIsClaimable
<1>3. CASE source # "steer" /\ db' = Release(d, i, "retry_required")
  <2>1. RowWritten(d, db', i, "retry_required", d.mode[i])
      BY <1>3, RowsOf
  <2>2. \A j \in Inputs : ~IsOpenSteer(db', j)
      BY <2>1 DEF RowWritten, IsOpenSteer
  <2> QED
      BY <2>2, NoneIsClaimable
<1> QED
    BY <1>1, <1>2, <1>3 DEF Launch

\* The pump claims the one steer row that is open, or a queue row when none is.
LEMMA DrainLaunchClaimable ==
    ASSUME LaneSound, LaneSound', PhaseInvariant, SteerOrderInvariant, NEW i \in Inputs,
           DrainLaunch(i)
    PROVE  SteerClaimable'
<1> USE PhaseFacts
<1> DEFINE d == Claim(db, i)
           source == IF db.mode[i] = "steer" THEN "steer" ELSE "queue"
<1>1. i \in NextInput(db) /\ Launch(d, i, source)
    BY DEF DrainLaunch, Drainable
<1>2. d \in Databases /\ RowWritten(db, d, i, "claimed", db.mode[i])
    BY ClaimType, ClaimRows
<1>3. source # "steer" => d.mode[i] = "queue"
    BY <1>2 DEF RowWritten
<1> HIDE DEF d, source
<1>4. \A j \in Inputs \ {i} : ~IsOpenSteer(db, j)
  <2>1. CASE db.mode[i] = "steer"
    <3>1. IsOpenSteer(db, i)
        BY <1>1, <2>1 DEF NextInput, NextSteer, NextQueue, IsOpenSteer
    <3> QED
        BY <3>1 DEF SteerOrderInvariant
  <2>2. CASE db.mode[i] = "queue"
    <3>1. NextSteer(db) = {}
        BY <1>1, <2>2 DEF NextInput, NextSteer, WaitingSteer
    <3> QED
        BY <3>1, NoSteerOpen
  <2> QED
      BY <2>1, <2>2
<1>5. \A j \in Inputs : ~IsOpenSteer(d, j)
    BY <1>2, <1>4 DEF RowWritten, IsOpenSteer
<1> QED
    BY <1>1, <1>2, <1>3, <1>5, LaunchClaimable

LEMMA QueueClaimable ==
    ASSUME LaneSound, LaneSound', PhaseInvariant, SteerOrderInvariant, SteerClaimable,
           NEW u \in Inputs, NEW src \in {"send", "queue"}, Queue(u, src)
    PROVE  SteerClaimable'
<1> USE PhaseFacts
<1>1. u = hist.submitted + 1
    BY DEF Queue
<1>2. ASSUME NEW s \in {"pending", "claimed"}, NEW d, d = Enqueue(db, u, s)
      PROVE  /\ d \in Databases /\ AnswersKept(db, d) /\ UnreadKept(db, d)
             /\ d.mode[u] = "queue" /\ RowWritten(db, d, u, s, "queue")
  <2>1. d \in Databases /\ AnswersKept(db, d) /\ RowWritten(db, d, u, s, "queue")
      BY <1>1, <1>2, EnqueuedRow
  <2>2. MessagesKept(db, d) /\ LinkWritten(db, d, u, {})
      BY <1>2, RowsLeaveMessages
  <2>3. UnreadKept(db, d)
      BY <2>1, <2>2, QueueRowKeepsUnread
  <2> QED
      BY <2>1, <2>3 DEF RowWritten
<1>3. CASE Claimable(src) /\ Launch(Enqueue(db, u, "claimed"), u, src)
  <2> DEFINE d == Enqueue(db, u, "claimed")
  <2>1. Launch(d, u, src)
      BY <1>3
  <2>2. d \in Databases /\ UnreadKept(db, d) /\ d.mode[u] = "queue"
      BY <1>2
  <2> HIDE DEF d
  <2>3. NextSteer(db) = {}
    <3>1. \A i \in NextSteer(db) : i \in Inputs /\ db.mode[i] = "steer"
        BY DEF NextSteer, WaitingSteer
    <3>2. \A i \in NextSteer(db) : i \notin pump.held
        BY <3>1 DEF ReplayStanding
    <3>3. NextInput(db) \ pump.held = {}
        BY <1>3 DEF Claimable
    <3> QED
        BY <3>2, <3>3 DEF NextInput
  <2>4. \A v \in Inputs : ~IsOpenSteer(d, v)
      BY <2>2, <2>3, NoSteerOpen DEF UnreadKept
  <2> QED
      BY <2>1, <2>2, <2>4, LaunchClaimable
<1>4. CASE db' = Enqueue(db, u, "pending") /\ UNCHANGED <<inst, turn>>
  <2>1. AnswersKept(db, db') /\ UnreadKept(db, db')
      BY <1>2, <1>4
  <2> QED
      BY <1>4, <2>1, ClaimableRests DEF TurnsStay, HasInteraction, AnswersKept
<1> QED
    BY <1>3, <1>4 DEF Queue

\* A new steer message is unread, in a row of its own or in the open one.
LEMMA AcceptVisibleSteerClaimable ==
    ASSUME LaneSound, LaneSound', PhaseInvariant, SteerClaimable,
           NEW u \in Inputs, NEW seen, AcceptVisibleSteer(u, seen)
    PROVE  SteerClaimable'
<1> USE PhaseFacts
<1>1. /\ db' \in {AcceptSteer(db, u, inst.openSteer), AcceptSteer(Materialize(db), u, inst.openSteer)}
      /\ turn' = turn \/ turn' = HandOff
      /\ inst'.status = inst.status
    BY DEF AcceptVisibleSteer, Instances
<1>2. Materialize(db) \in Databases /\ UnreadKept(db, Materialize(db)) /\ AnswersKept(db, Materialize(db))
  <2>1. CASE Unmaterialized(db) = {}
      BY <2>1 DEF Materialize, UnreadKept, AnswersKept
  <2>2. CASE Unmaterialized(db) # {}
    <3>1. PICK c \in Unmaterialized(db) : Materialize(db) = AppendUserFact(db, c)
        BY <2>2 DEF Materialize
    <3>2. c \in Inputs /\ db.mode[c] = "queue" /\ db.state[c] = "claimed"
        BY DEF Unmaterialized, QueueRows
    <3>3. \A j \in Inputs : IsOpenSteer(db, j) => c \notin db.msgs[j]
        BY <3>2, OwnMessageOnly
    <3> QED
        BY <3>1, <3>2, <3>3, UserFactKeepsUnread, MaterializeType, MaterializeKeepsCarriage
  <2> QED
      BY <2>1, <2>2
<1>3. PICK d \in Databases : /\ db' = AcceptSteer(d, u, inst.openSteer) /\ UnreadKept(db, d)
                             /\ AnswersKept(db, d)
  <2>1. UnreadKept(db, db) /\ AnswersKept(db, db)
      BY DEF UnreadKept, AnswersKept
  <2> QED
      BY <1>1, <1>2, <2>1
<1>4. /\ MessageWritten(d, db', u, "pending", "unread")
      /\ IF IsOpenSteer(d, inst.openSteer)
         THEN /\ RowsKept(d, db')
              /\ LinkWritten(d, db', inst.openSteer, d.msgs[inst.openSteer] \cup {u})
         ELSE RowWritten(d, db', u, "pending", "steer") /\ LinkWritten(d, db', u, {u})
    BY <1>3, AcceptSteerEffect
<1>5. IsUnread(db', u) /\ \A v \in Inputs : IsUnread(d, v) => IsUnread(db', v)
  <2>1. d.tail \in Nat
      BY DEF Databases
  <2> QED
      BY <1>4, <2>1 DEF MessageWritten, IsUnread, Exists
<1>6. HasInteraction(db') => HasInteraction(db)
    BY <1>3 DEF AnswersKept, AcceptSteer, WriteUserMessage, HasInteraction
<1>7. Running' \subseteq Running
    BY <1>1, HandOffsStay DEF TurnsStay, Running
<1>8. ASSUME NEW j \in Inputs, IsOpenSteer(db', j)
      PROVE  \/ CanClaimSteer(db', j)
             \/ IsOpenSteer(d, j) /\ d.msgs[j] \subseteq db'.msgs[j] /\ db'.msgs[j] \subseteq d.msgs[j] \cup {u}
  <2>1. CASE IsOpenSteer(d, inst.openSteer)
      BY <1>4, <1>8, <2>1 DEF RowsKept, LinkWritten, IsOpenSteer
  <2>2. CASE ~IsOpenSteer(d, inst.openSteer) /\ j = u
      BY <1>4, <1>5, <2>2 DEF LinkWritten, CanClaimSteer
  <2>3. CASE ~IsOpenSteer(d, inst.openSteer) /\ j # u
      BY <1>4, <1>8, <2>3 DEF LinkWritten, RowWritten, IsOpenSteer
  <2> QED
      BY <2>1, <2>2, <2>3
<1>9. ASSUME NEW j \in Inputs, IsOpenSteer(db', j)
      PROVE  \/ CanClaimSteer(db', j)
             \/ inst'.status = "error" /\ Running' = {} /\ ~HasInteraction(db')
  <2>1. CASE IsOpenSteer(d, j) /\ d.msgs[j] \subseteq db'.msgs[j] /\ db'.msgs[j] \subseteq d.msgs[j] \cup {u}
    <3>1. /\ IsOpenSteer(db, j) /\ d.msgs[j] = db.msgs[j]
          /\ \A v \in db.msgs[j] : IsUnread(db, v) => IsUnread(d, v)
        BY <1>3, <2>1 DEF UnreadKept
    <3>2. CASE CanClaimSteer(db, j)
      <4>1. db.msgs[j] # {} /\ \A v \in db.msgs[j] : v \in Inputs /\ IsUnread(d, v)
          BY <3>1, <3>2 DEF CanClaimSteer, Databases
      <4>2. \A v \in db'.msgs[j] : IsUnread(db', v)
          BY <1>5, <2>1, <3>1, <4>1
      <4> QED
          BY <2>1, <3>1, <4>1, <4>2 DEF CanClaimSteer
    <3>3. CASE inst.status = "error" /\ Running = {} /\ ~HasInteraction(db)
        BY <1>1, <1>6, <1>7, <3>3
    <3> QED
        BY <3>1, <3>2, <3>3 DEF SteerClaimable
  <2> QED
      BY <1>8, <1>9, <2>1
<1> QED
    BY <1>9 DEF SteerClaimable, IsOpenSteer, CanClaimSteer, IsUnread, Exists, HasInteraction

LEMMA SteerCallsClaimable ==
    ASSUME LaneSound, LaneSound', PhaseInvariant, SteerClaimable,
           (\E u \in Inputs : SteerText(u)) \/ SteerAccept
    PROVE  SteerClaimable'
<1>1. CASE SteerAccept
  <2>1. PICK u \in Inputs : u = call.item
      BY <1>1 DEF SteerAccept, LaneSound, OwnershipInvariant, LaneKnowsItem
  <2> QED
      BY <1>1, <2>1, AcceptVisibleSteerClaimable DEF SteerAccept
<1> QED
    BY <1>1, AcceptVisibleSteerClaimable DEF SteerText

\* The run goes on: it writes its text while no message is unread.
LEMMA GoOnClaimable ==
    ASSUME LaneSound, LaneSound', PhaseInvariant, SteerClaimable,
           NEW r \in Inputs, r \in Running,
           TurnUserFact(r) \/ TurnReserve(r) \/ TurnRegister(r) \/ ProviderStart(r)
    PROVE  SteerClaimable'
<1> USE PhaseFacts, RunFacts, RunRowFacts
<1>1. ASSUME UnreadKept(db, db') PROVE SteerClaimable'
    BY <1>1, ClaimableStays
<1>2. CASE db' = db
    BY <1>1, <1>2 DEF UnreadKept
<1>3. CASE TurnUserFact(r)
  <2>1. db' = AppendUserFact(db, r) /\ turn[r].stage = "preparing"
      BY <1>3 DEF TurnUserFact
  <2>2. db.mode[r] = "queue" /\ db.state[r] # "none"
      BY <2>1
  <2>3. \A j \in Inputs : IsOpenSteer(db, j) => r \notin db.msgs[j]
      BY <2>2, OwnMessageOnly
  <2> QED
      BY <1>1, <2>1, <2>2, <2>3, UserFactKeepsUnread
<1>4. CASE TurnReserve(r) /\ turn[r].source # "steer"
  <2> DEFINE w == WriteAssistant(db, r)
  <2>1. w \in Databases /\ Untouched(db, w) /\ turn[r].stage = "factual"
      BY <1>4, WriteAssistantType, AnswersLeaveMessages DEF TurnReserve
  <2>2. db.mode[r] = "queue"
      BY <1>4, <2>1
  <2>3. db' = w \/ db' = Consume(w, r)
      BY <1>4 DEF TurnReserve
  <2> HIDE DEF w
  <2>4. w.mode[r] = "queue"
      BY <2>1, <2>2 DEF Untouched, RowsKept
  <2>5. UnreadKept(db, w)
      BY <2>1, UntouchedKeepsUnread
  <2>6. UnreadKept(w, Consume(w, r))
      BY <2>1, <2>4, ConsumeKeepsUnread
  <2>7. UnreadKept(db, db')
      BY <2>3, <2>5, <2>6, UnreadKeptTwice
  <2> QED
      BY <1>1, <2>7
<1>5. CASE TurnReserve(r) /\ turn[r].source = "steer"
    BY <1>2, <1>5 DEF TurnReserve
<1>6. CASE TurnRegister(r)
    BY <1>2, <1>6 DEF TurnRegister
<1>7. CASE ProviderStart(r)
  <2>1. CASE db' = Consume(db, r) /\ Unsettled(r) /\ turn[r].source = "queue"
    <3>1. db.mode[r] = "queue"
        BY <2>1
    <3> QED
        BY <1>1, <2>1, <3>1, ConsumeKeepsUnread
  <2> QED
      BY <1>2, <1>7, <2>1 DEF ProviderStart
<1> QED
    BY <1>3, <1>4, <1>5, <1>6, <1>7

\* The run ends: its claim is settled, or given back, and only a rollback, which leaves the
\* error, deletes a message.
LEMMA RunEndClaimable ==
    ASSUME LaneSound, LaneSound', PhaseInvariant, SteerClaimable, NEW r \in Inputs, r \in Running,
           \/ UnreadKept(db, db')
           \/ /\ turn' = Ended(r) /\ Calm(db, db') /\ QuietWrites(db, db', r)
              /\ inst'.status = "error"
    PROVE  SteerClaimable'
<1> USE PhaseFacts, RunFacts
<1>1. CASE UnreadKept(db, db')
    BY <1>1, ClaimableStays
<1>2. CASE /\ turn' = Ended(r) /\ Calm(db, db') /\ QuietWrites(db, db', r)
           /\ inst'.status = "error"
  <2>1. /\ \A k \in Runs \ {r} : turn'[k] = turn[k]
        /\ turn'[r].stage = "finishing"
      BY <1>2 DEF Ended
  <2>2. Running' = {}
      BY <2>1 DEF Running, PreStream, InStream
  <2>3. \A j \in Inputs : db'.astatus[j] # "paused"
      BY <1>2 DEF QuietWrites, RunWrites
  <2>4. ~HasInteraction(db')
      BY <2>3 DEF HasInteraction
  <2> QED
      BY <1>2, <2>2, <2>4 DEF SteerClaimable, HasInteraction
<1> QED
    BY <1>1, <1>2

\* The claim of the run is consumed, or given back unless it is a steer row's.
LEMMA SettlingKeepsUnread ==
    ASSUME LaneSound, LaneSound', PhaseInvariant, SteerOrderInvariant,
           NEW r \in Inputs, r \in Running, Unsettled(r),
           NEW d \in Databases, Untouched(db, d)
    PROVE  /\ UnreadKept(db, Consume(d, r))
           /\ turn[r].source # "steer" => UnreadKept(db, Release(d, r, "retry_required"))
<1> USE PhaseFacts, RunRowFacts
<1>1. UnreadKept(db, d)
    BY UntouchedKeepsUnread
<1>2. /\ d.mode = db.mode /\ d.msgs = db.msgs /\ db.state[r] = "claimed"
      /\ \A u : IsUnread(d, u) <=> IsUnread(db, u)
    BY DEF Untouched, RowsKept, MessagesKept, IsUnread, Exists
<1>3. ASSUME d.mode[r] = "steer", NEW u \in d.msgs[r] PROVE ~IsUnread(d, u)
  <2>1. r \in SteerRows(db, "claimed")
      BY <1>2, <1>3 DEF SteerRows
  <2> QED
      BY <1>2, <1>3, <2>1, ClaimedIsRead
<1>4. UnreadKept(d, Consume(d, r))
    BY <1>3, ConsumeKeepsUnread
<1>5. turn[r].source # "steer" => UnreadKept(d, Release(d, r, "retry_required"))
    BY <1>2, QueueEditsKeepUnread DEF RowStates
<1> QED
    BY <1>1, <1>4, <1>5, UnreadKeptTwice

LEMMA StreamEndClaimable ==
    ASSUME LaneSound, LaneSound', PhaseInvariant, SteerOrderInvariant, SteerClaimable,
           NEW r \in Inputs, r \in Running, NEW result \in Results, StreamEnd(r, result)
    PROVE  SteerClaimable'
<1> USE PhaseFacts, RunFacts, RunRowFacts
<1> DEFINE answered == SetAssistant(db, r, AnswerStatus[result])
<1>1. db' = IF Undone(r, result) THEN Release(Rollback(db, r), r, "retry_required")
            ELSE IF Unsettled(r) THEN Consume(answered, r)
            ELSE answered
    BY DEF StreamEnd
<1>2. answered \in Databases /\ Untouched(db, answered)
  <2>1. AnswerStatus[result] \in AssistantStates
      BY DEF Results, AnswerStatus, AssistantStates
  <2> QED
      BY <2>1, SetAssistantType, AnswersLeaveMessages
<1> HIDE DEF answered
<1>3. CASE Undone(r, result)
  <2> DEFINE back == Rollback(db, r)
  <2>1. db' = Release(back, r, "retry_required")
      BY <1>1, <1>3
  <2>2. back \in Databases /\ RowsKept(db, back) /\ QuietWrites(db, back, r)
      BY RollbackEffect, AnswerWrites, MessagesRows, PhaseFacts DEF AssistantStates
  <2>3. db.state[r] = "claimed" /\ db.mode[r] = "queue" /\ result = "error"
      BY <1>3 DEF Undone
  <2> HIDE DEF back
  <2>4. back.state[r] = "claimed" /\ back.mode[r] = "queue"
      BY <2>2, <2>3 DEF RowsKept
  <2>5. QuietWrites(back, db', r)
      BY <2>1, <2>2, <2>4, StateWrites
  <2>6. QuietWrites(db, db', r)
      BY <2>2, <2>5, WritesAreTransitive DEF QuietWrites
  <2>7. turn' = Ended(r) /\ inst'.status = "error"
      BY <2>3 DEF StreamEnd, Cleared, StatusAfter, Instances
  <2>8. Calm(db, db')
      BY StreamEndLeaves DEF RunLeaves
  <2> QED
      BY <2>6, <2>7, <2>8, RunEndClaimable
<1>4. CASE ~Undone(r, result) /\ Unsettled(r)
    BY <1>1, <1>2, <1>4, SettlingKeepsUnread, RunEndClaimable
<1>5. CASE ~Undone(r, result) /\ ~Unsettled(r)
    BY <1>1, <1>2, <1>5, UntouchedKeepsUnread, RunEndClaimable
<1> QED
    BY <1>3, <1>4, <1>5

LEMMA FailedClaimable ==
    ASSUME LaneSound, LaneSound', PhaseInvariant, SteerOrderInvariant, SteerClaimable,
           NEW r \in Inputs, r \in Running, FailedPreStream(r)
    PROVE  SteerClaimable'
<1> USE PhaseFacts, RunFacts, RunRowFacts
<1> DEFINE shown == SetAssistant(db, r, "error")
           back == IF turn[r].stage = "preparing" THEN db ELSE Rollback(db, r)
<1>1. db' = IF Unsettled(r) /\ turn[r].source # "steer" THEN Release(back, r, "retry_required")
            ELSE IF Unsettled(r) THEN Consume(shown, r)
            ELSE shown
    BY DEF FailedPreStream
<1>2. shown \in Databases /\ Untouched(db, shown)
    BY SetAssistantType, AnswersLeaveMessages DEF AssistantStates
<1>3. back \in Databases /\ RowsKept(db, back) /\ QuietWrites(db, back, r)
  <2>1. /\ Rollback(db, r) \in Databases /\ RowsKept(db, Rollback(db, r))
        /\ QuietWrites(db, Rollback(db, r), r)
      BY RollbackEffect, AnswerWrites DEF AssistantStates
  <2>2. RowsKept(db, db) /\ QuietWrites(db, db, r)
      BY AnswerWrites DEF RowsKept, AssistantStates
  <2> QED
      BY <2>1, <2>2
<1> HIDE DEF shown, back
<1>4. CASE Unsettled(r) /\ turn[r].source # "steer"
  <2>1. db' = Release(back, r, "retry_required")
      BY <1>1, <1>4
  <2>2. back.state[r] = "claimed" /\ back.mode[r] = "queue"
      BY <1>3, <1>4 DEF RowsKept
  <2>3. QuietWrites(back, db', r)
      BY <1>3, <2>1, <2>2, StateWrites
  <2>4. QuietWrites(db, db', r)
      BY <1>3, <2>3, WritesAreTransitive DEF QuietWrites
  <2>5. turn' = Ended(r) /\ inst'.status = "error"
      BY DEF FailedPreStream, Cleared, Instances
  <2>6. Calm(db, db')
      BY FailedLeaves DEF RunLeaves
  <2> QED
      BY <2>4, <2>5, <2>6, RunEndClaimable
<1>5. CASE Unsettled(r) /\ turn[r].source = "steer"
    BY <1>1, <1>2, <1>5, SettlingKeepsUnread, RunEndClaimable
<1>6. CASE ~Unsettled(r)
    BY <1>1, <1>2, <1>6, UntouchedKeepsUnread, RunEndClaimable
<1> QED
    BY <1>4, <1>5, <1>6

LEMMA AbortedClaimable ==
    ASSUME LaneSound, LaneSound', PhaseInvariant, SteerOrderInvariant, SteerClaimable,
           NEW r \in Inputs, r \in Running, NEW late \in BOOLEAN, AbortedPreStream(r, late)
    PROVE  SteerClaimable'
<1> USE PhaseFacts, RunFacts, RunRowFacts
<1> DEFINE t == turn[r]
           handoff == t.signal = "handoff"
           written ==
             CASE late /\ t.stage = "preparing" /\ db.msgs[r] = {} -> AppendUserFact(db, r)
               [] late /\ t.stage = "factual" /\ t.source # "steer" /\ ~handoff ->
                      WriteAssistant(db, r)
               [] OTHER -> db
           settled ==
             IF ~Unsettled(r) THEN written
             ELSE IF Exists(written, r) \/ t.source = "steer" THEN Consume(written, r)
             ELSE Release(written, r, "retry_required")
<1>1. db' = IF handoff THEN DeleteAssistant(settled, r) ELSE SetAssistant(settled, r, "error")
    BY NoneIsNoRun DEF AbortedPreStream
<1>2. /\ written \in Databases /\ UnreadKept(db, written) /\ RowsKept(db, written)
      /\ db.mode[r] = "steer" => Untouched(db, written)
  <2>1. CASE written = AppendUserFact(db, r) /\ turn[r].stage = "preparing"
    <3> HIDE DEF written
    <3>1. db.mode[r] = "queue" /\ db.state[r] # "none"
        BY <2>1
    <3>2. \A j \in Inputs : IsOpenSteer(db, j) => r \notin db.msgs[j]
        BY <3>1, OwnMessageOnly
    <3> QED
        BY <2>1, <3>1, <3>2, UserFactKeepsUnread, AppendUserFactType, MessagesRows
  <2>2. CASE written = WriteAssistant(db, r) \/ written = db
    <3> HIDE DEF written
    <3>1. written \in Databases /\ Untouched(db, written)
        BY <2>2, WriteAssistantType, AnswersLeaveMessages
    <3> QED
        BY <3>1, UntouchedKeepsUnread DEF Untouched
  <2> QED
      BY <2>1, <2>2
<1> HIDE DEF written
<1>3. settled \in Databases /\ UnreadKept(db, settled)
  <2>1. CASE ~Unsettled(r)
      BY <1>2, <2>1
  <2>2. CASE Unsettled(r) /\ settled = Consume(written, r)
    <3> HIDE DEF settled
    <3>1. CASE db.mode[r] = "steer"
        BY <1>2, <2>2, <3>1, SettlingKeepsUnread, ConsumeType
    <3>2. CASE db.mode[r] = "queue"
      <4>1. written.mode[r] = "queue"
          BY <1>2, <3>2 DEF RowsKept
      <4>2. UnreadKept(written, Consume(written, r))
          BY <1>2, <4>1, ConsumeKeepsUnread
      <4> QED
          BY <1>2, <2>2, <4>2, UnreadKeptTwice, ConsumeType
    <3> QED
        BY <3>1, <3>2
  <2>3. CASE /\ Unsettled(r) /\ settled = Release(written, r, "retry_required")
             /\ t.source # "steer"
    <3> HIDE DEF settled
    <3>1. written.mode[r] = "queue" /\ "retry_required" \in RowStates
        BY <1>2, <2>3 DEF RowsKept, RowStates
    <3>2. UnreadKept(written, Release(written, r, "retry_required"))
        BY <1>2, <3>1, QueueEditsKeepUnread
    <3> QED
        BY <1>2, <2>3, <3>1, <3>2, UnreadKeptTwice, ReleaseType
  <2> QED
      BY <2>1, <2>2, <2>3
<1> HIDE DEF settled
<1>4. UnreadKept(settled, db')
    BY <1>1, <1>3, AnswersLeaveMessages, UntouchedKeepsUnread
<1>5. UnreadKept(db, db')
    BY <1>3, <1>4, UnreadKeptTwice
<1> QED
    BY <1>5, RunEndClaimable

LEMMA ResumedRunClaimable ==
    ASSUME LaneSound, LaneSound', PhaseInvariant, SteerClaimable, TurnStep(Resumed)
    PROVE  SteerClaimable'
<1> USE PhaseFacts
<1>1. Resumed \in Running /\ turn[Resumed].stage # "none"
    BY RunningStage DEF Running, PreStream, InStream
<1>2. PICK i \in Inputs : turn[Resumed].answer = i
    BY <1>1 DEF PhaseInvariant
<1>3. CASE TurnRegister(Resumed) \/ ProviderStart(Resumed)
  <2>1. db' = db
      BY <1>3 DEF TurnRegister, ProviderStart, Unsettled
  <2>2. UnreadKept(db, db')
      BY <2>1 DEF UnreadKept
  <2> QED
      BY <1>1, <2>2, ClaimableStays
<1>4. CASE ~(TurnRegister(Resumed) \/ ProviderStart(Resumed))
  <2>1. \E s \in AssistantStates : db' = SetAssistant(db, i, s)
      BY <1>2, <1>4, ResumedRunLeaves
  <2>2. UnreadKept(db, db')
      BY <2>1, AnswersLeaveMessages, UntouchedKeepsUnread
  <2> QED
      BY <1>1, <2>2, ClaimableStays
<1> QED
    BY <1>3, <1>4

\* A crash closes every steer row.
LEMMA CrashClaimable ==
    ASSUME LaneSound, LaneSound', PhaseInvariant, NEW d \in Databases, CrashWith(d),
           RowsKept(db, d)
    PROVE  SteerClaimable'
<1> USE PhaseFacts
<1>1. db' = Recover(d)
    BY DEF CrashWith
<1>2. \A i \in Inputs : d.mode[i] = "steer" => d.state[i] \notin {"blocked", "retry_required"}
    BY DEF RowsKept, ClaimStanding
<1>3. \A i \in Inputs : ~IsOpenSteer(db', i)
  <2>1. ASSUME NEW i \in Inputs, d.mode[i] = "steer" PROVE db'.state[i] # "pending"
    <3>1. d.state[i] \in {"none", "pending", "claimed", "consumed"}
        BY <1>2, <2>1 DEF Databases, RowStates
    <3> QED
        BY <1>1, <2>1, <3>1, RecoverEffect, RecoverRows
  <2>2. \A i \in Inputs : db'.mode[i] = d.mode[i]
      BY <1>1, RecoverRows
  <2> QED
      BY <2>1, <2>2 DEF IsOpenSteer
<1> QED
    BY <1>3, NoneIsClaimable

LEMMA CrashesClaimable ==
    ASSUME LaneSound, LaneSound', PhaseInvariant, Restart \/ \E r \in Runs : RestartMidRollback(r)
    PROVE  SteerClaimable'
<1> USE PhaseFacts
<1>1. CASE Restart
    BY <1>1, CrashClaimable DEF Restart, RowsKept
<1>2. ASSUME NEW r \in Runs, RestartMidRollback(r) PROVE SteerClaimable'
  <2>1. r \in Inputs /\ CrashWith(Rollback(db, r))
      BY <1>2, LaunchedRuns DEF RestartMidRollback, Undone, Unsettled
  <2>2. Rollback(db, r) \in Databases /\ RowsKept(db, Rollback(db, r))
      BY <2>1, RollbackEffect
  <2> QED
      BY <2>1, <2>2, CrashClaimable
<1> QED
    BY <1>1, <1>2

LEMMA ClaimableStep ==
    ASSUME "promote" \notin Events, LaneSound, LaneSound', PhaseInvariant, LaneAsked,
           SteerOrderInvariant, SteerClaimable, [Next]_vars
    PROVE  SteerClaimable'
<1>1. CASE Admission
  <2>1. ASSUME NEW i \in Inputs, PromoteClaim(i) PROVE FALSE
      BY <2>1 DEF PromoteClaim
  <2>2. ~PromoteBlock /\ ~PromoteFail /\ ~PromoteFinish
      BY DEF PromoteBlock, PromoteFail, PromoteFinish, LaneAsked
  <2>3. ASSUME NEW u \in Inputs, SteerText(u) PROVE SteerClaimable'
      BY <2>3, SteerCallsClaimable
  <2>4. CASE SteerAccept
      BY <2>4, SteerCallsClaimable
  <2>5. ASSUME NEW u \in Inputs, SteerPrepare(u) PROVE SteerClaimable'
      BY <2>5, IdleClaimable
  <2>6. CASE SteerDrop
      BY <2>6, IdleClaimable
  <2>7. ASSUME NEW u \in Inputs, NEW src \in {"send", "queue"}, Queue(u, src)
        PROVE  SteerClaimable'
      BY <2>7, QueueClaimable
  <2>8. ASSUME NEW i \in Inputs,
               Update(i) \/ ResolveBlocked(i) \/ Retry(i) \/ Delete(i) \/ ResumeQueue(i)
        PROVE  SteerClaimable'
      BY <2>8, QueueEditsClaimable
  <2>9. ASSUME NEW i \in Inputs, NEW j \in Inputs, Move(i, j) PROVE SteerClaimable'
      BY <2>9, QueueEditsClaimable
  <2> QED
      BY <1>1, <2>1, <2>2, <2>3, <2>4, <2>5, <2>6, <2>7, <2>8, <2>9 DEF Admission
<1>2. ASSUME NEW i \in Inputs, DrainLaunch(i) PROVE SteerClaimable'
    BY <1>2, DrainLaunchClaimable
<1>3. CASE DrainIdle \/ NextIfReady \/ UNCHANGED vars
    BY <1>3, IdleClaimable
<1>4. ASSUME NEW r \in Runs, TurnStep(r) PROVE SteerClaimable'
  <2>1. CASE r = Resumed
      BY <1>4, <2>1, ResumedRunClaimable
  <2>2. CASE r # Resumed
    <3>1. r \in Inputs /\ r \in Running
        BY <1>4, <2>2, LaunchedRuns, RunningStage
    <3>2. CASE TurnUserFact(r) \/ TurnReserve(r) \/ TurnRegister(r) \/ ProviderStart(r)
        BY <3>1, <3>2, GoOnClaimable
    <3>3. CASE TurnBlock(r)
      <4>1. db' = SetState(db, r, "blocked") /\ db.mode[r] = "queue" /\ db \in Databases
          BY <3>1, <3>3, RunRowFacts, PhaseFacts DEF TurnBlock
      <4>2. UnreadKept(db, db')
          BY <3>1, <4>1, QueueEditsKeepUnread DEF RowStates
      <4> QED
          BY <3>1, <4>2, RunEndClaimable
    <3>4. ASSUME NEW result \in Results, StreamEnd(r, result) PROVE SteerClaimable'
        BY <3>1, <3>4, StreamEndClaimable
    <3>5. ASSUME NEW late \in BOOLEAN, AbortedPreStream(r, late) PROVE SteerClaimable'
        BY <3>1, <3>5, AbortedClaimable
    <3>6. CASE FailedPreStream(r)
        BY <3>1, <3>6, FailedClaimable
    <3> QED
        BY <1>4, <3>2, <3>3, <3>4, <3>5, <3>6 DEF TurnStep
  <2> QED
      BY <2>1, <2>2
<1>5. ASSUME NEW i \in Inputs, Finalize(i) PROVE SteerClaimable'
    BY <1>5, FinalizeClaimable
<1>6. CASE Cancel \/ \E a \in Inputs : Respond(a)
    BY <1>6, SignalClaimable
<1>7. CASE Restart \/ \E r \in Runs : RestartMidRollback(r)
    BY <1>7, CrashesClaimable
<1> QED
    BY <1>1, <1>2, <1>3, <1>4, <1>5, <1>6, <1>7 DEF Next, Drain

-----------------------------------------------------------------------------
(* No wakeup is lost. *)

\* While nothing is promoted, an open steer row can be claimed, or a rollback deleted its
\* message and left the session in the error the user is shown.
THEOREM SteerStaysClaimable ==
    ASSUME "promote" \notin Events PROVE Spec => []SteerClaimable
<1>1. Init => SteerClaimable
    BY DEF Init, EmptyDatabase, SteerClaimable, IsOpenSteer
<1>2. LaneSound /\ LaneSound' /\ PhaseInvariant /\ LaneAsked /\ SteerOrderInvariant
        /\ SteerClaimable /\ [Next]_vars
        => SteerClaimable'
    BY ClaimableStep
<1> QED
    BY <1>1, <1>2, LaneIsSound, PhasesHold, LanesAreAsked, SteerOrderHolds, PTL DEF Spec

\* While the user moves, deletes and promotes no row, no wakeup is lost: whatever the pump could
\* start is on its way to be started, by a drain, a kept wakeup or the end of a turn.
THEOREM WakeupsHold ==
    ASSUME HeadUndisturbed PROVE Spec => []WakeupInvariant
<1>1. "promote" \notin Events
    BY DEF HeadUndisturbed
<1>2. Init => WakeupInvariant
    BY WakeupInit
<1>3. LaneSound /\ LaneSound' /\ PhaseInvariant /\ SteerOrderInvariant /\ SteerOrderInvariant'
        /\ LaneAsked /\ LaneAsked' /\ QueueOrderDense /\ SteerClaimable /\ WakeupInvariant
        /\ [Next]_vars
        => WakeupInvariant'
    BY WakeupStep DEF QueueOrderDense, DenseOrder
<1> QED
    BY <1>1, <1>2, <1>3, LaneIsSound, PhasesHold, LanesAreAsked, SteerOrderHolds, QueueStaysDense,
       SteerStaysClaimable, PTL DEF Spec

\* While the user moves, deletes and promotes no row, a session that rests idle has nothing the
\* pump could start, for any number of inputs and every other event.
THEOREM NothingStranded ==
    ASSUME HeadUndisturbed PROVE Spec => []NoStrandedInput
<1>1. LaneSound /\ WakeupInvariant => NoStrandedInput
  <2> SUFFICES ASSUME LaneSound, WakeupInvariant, Quiet, inst.status = "idle",
                      ~HasInteraction(db), ~HasBlocking(db)
               PROVE  Startable = {}
      BY DEF NoStrandedInput, Startable
  <2>1. ~WakeupComes
      BY DEF Quiet, WakeupComes
  <2> QED
      BY <2>1 DEF WakeupInvariant, CouldStart
<1> QED
    BY <1>1, WakeupsHold, LaneIsSound, PTL
=============================================================================
