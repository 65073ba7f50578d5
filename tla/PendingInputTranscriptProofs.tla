---------------------- MODULE PendingInputTranscriptProofs ----------------------
(***************************************************************************)
(* The rows of the waiting lane and the messages of the transcript tell    *)
(* one story, for any number of submissions: a steer message stands below  *)
(* the text of the turn it interrupts; and, unless a provider error rolls  *)
(* steer messages back with a turn, no message is lost, every receipt fits *)
(* its row, and a crash at any moment leaves what the next start can       *)
(* reconcile.                                                              *)
(*                                                                         *)
(* The argument has two layers.  Each transaction of the store keeps what  *)
(* is known of a database value (Placed, SteerRowsStand, LinksOwn,         *)
(* Present), given the state of the row it is applied to; each action      *)
(* applies its transactions to rows in such a state, which the claims and  *)
(* fences of PendingInputClaimProofs say.                                  *)
(***************************************************************************)
EXTENDS PendingInputClaimProofs

-----------------------------------------------------------------------------
(* Which messages and links a transaction writes. *)

\* The user messages are left alone; the tail may grow.
MessagesKept(d, e) ==
    /\ e.seq = d.seq /\ e.status = d.status /\ e.receipt = d.receipt
    /\ e.tail \in Nat /\ e.tail >= d.tail

\* Message u is written at the end of the transcript.
MessageWritten(d, e, u, s, r) ==
    /\ e.tail = d.tail + 1
    /\ \A v \in Inputs : /\ e.seq[v] = IF v = u THEN d.tail + 1 ELSE d.seq[v]
                         /\ e.status[v] = IF v = u THEN s ELSE d.status[v]
                         /\ e.receipt[v] = IF v = u THEN r ELSE d.receipt[v]

\* The link of row i, and of no other, becomes L.
LinkWritten(d, e, i, L) == \A j \in Inputs : e.msgs[j] = IF j = i THEN L ELSE d.msgs[j]

LEMMA RowsLeaveMessages ==
    ASSUME NEW d \in Databases, NEW i \in Inputs, NEW s
    PROVE  /\ MessagesKept(d, Enqueue(d, i, s)) /\ LinkWritten(d, Enqueue(d, i, s), i, {})
           /\ MessagesKept(d, SetState(d, i, s)) /\ LinkWritten(d, SetState(d, i, s), i, d.msgs[i])
           /\ MessagesKept(d, Release(d, i, s)) /\ LinkWritten(d, Release(d, i, s), i, {})
<1>1. d.tail \in Nat /\ d.tail >= d.tail
    BY DEF Databases
<1> QED
    BY <1>1 DEF MessagesKept, LinkWritten, Enqueue, SetState, Release, Databases

LEMMA ResequenceLeavesMessages ==
    ASSUME NEW d \in Databases
    PROVE  MessagesKept(d, Resequence(d)) /\ Resequence(d).msgs = d.msgs
<1>1. d.tail \in Nat /\ d.tail >= d.tail
    BY DEF Databases
<1> QED
    BY <1>1 DEF MessagesKept, Resequence, Databases

LEMMA DeleteRowLeavesMessages ==
    ASSUME NEW d \in Databases, NEW i \in Inputs
    PROVE  MessagesKept(d, DeleteRow(d, i)) /\ LinkWritten(d, DeleteRow(d, i), i, {})
<1> DEFINE w == [d EXCEPT !.state[i] = "none", !.msgs[i] = {}]
<1>1. w \in Databases /\ w.seq = d.seq /\ w.status = d.status /\ w.receipt = d.receipt
      /\ w.tail = d.tail /\ w.msgs = [d.msgs EXCEPT ![i] = {}]
    BY DEF Databases, RowStates
<1> HIDE DEF w
<1>2. MessagesKept(w, Resequence(w)) /\ Resequence(w).msgs = w.msgs
    BY <1>1, ResequenceLeavesMessages
<1>3. DeleteRow(d, i) = Resequence(w)
    BY DEF DeleteRow, w
<1>4. MessagesKept(d, Resequence(w))
    BY <1>1, <1>2 DEF MessagesKept
<1>5. LinkWritten(d, Resequence(w), i, {})
    BY <1>1, <1>2 DEF LinkWritten, Databases
<1> QED
    BY <1>3, <1>4, <1>5

LEMMA MovesLeaveMessages ==
    ASSUME NEW d \in Databases, NEW i, NEW j, NEW e \in Moves(d, i, j)
    PROVE  MessagesKept(d, e) /\ e.msgs = d.msgs
<1>1. d.tail \in Nat /\ d.tail >= d.tail
    BY DEF Databases
<1> QED
    BY <1>1 DEF Moves, MessagesKept, Databases

\* What an assistant message leaves alone: rows, links and user messages.
Untouched(d, e) == RowsKept(d, e) /\ MessagesKept(d, e) /\ e.msgs = d.msgs

LEMMA AnswersLeaveMessages ==
    ASSUME NEW d \in Databases, NEW i
    PROVE  /\ Untouched(d, d)
           /\ Untouched(d, WriteAssistant(d, i))
           /\ Untouched(d, DeleteAssistant(d, i))
           /\ \A s : Untouched(d, SetAssistant(d, i, s))
<1>1. d.tail \in Nat /\ d.tail >= d.tail /\ d.tail + 1 \in Nat /\ d.tail + 1 >= d.tail
    BY DEF Databases
<1>2. Untouched(d, d)
    BY <1>1 DEF Untouched, RowsKept, MessagesKept
<1>3. Untouched(d, WriteAssistant(d, i))
    BY <1>1 DEF WriteAssistant, Untouched, RowsKept, MessagesKept, Databases
<1>4. Untouched(d, DeleteAssistant(d, i))
    BY <1>1 DEF DeleteAssistant, Untouched, RowsKept, MessagesKept, Databases
<1>5. ASSUME NEW s PROVE Untouched(d, SetAssistant(d, i, s))
    BY <1>1 DEF SetAssistant, Untouched, RowsKept, MessagesKept, Databases
<1> QED
    BY <1>2, <1>3, <1>4, <1>5

LEMMA WriteUserMessageEffect ==
    ASSUME NEW d \in Databases, NEW u \in Inputs, NEW s, NEW r
    PROVE  LET e == WriteUserMessage(d, u, s, r)
           IN  MessageWritten(d, e, u, s, r) /\ RowsKept(d, e) /\ e.msgs = d.msgs
BY DEF WriteUserMessage, MessageWritten, RowsKept, Databases

LEMMA AppendUserFactEffect ==
    ASSUME NEW d \in Databases, NEW i \in Inputs
    PROVE  LET e == AppendUserFact(d, i)
           IN  /\ MessageWritten(d, e, i, "sent", "none") /\ RowsKept(d, e)
               /\ LinkWritten(d, e, i, {i})
BY DEF AppendUserFact, WriteUserMessage, MessageWritten, RowsKept, LinkWritten, Databases

LEMMA AcceptSteerEffect ==
    ASSUME NEW d \in Databases, NEW u \in Inputs, NEW open
    PROVE  LET e == AcceptSteer(d, u, open)
           IN  /\ MessageWritten(d, e, u, "pending", "unread")
               /\ IF IsOpenSteer(d, open)
                  THEN RowsKept(d, e) /\ LinkWritten(d, e, open, d.msgs[open] \cup {u})
                  ELSE RowWritten(d, e, u, "pending", "steer") /\ LinkWritten(d, e, u, {u})
<1> DEFINE w == WriteUserMessage(d, u, "pending", "unread")
<1>1. MessageWritten(d, w, u, "pending", "unread") /\ RowsKept(d, w) /\ w.msgs = d.msgs
    BY WriteUserMessageEffect
<1>2. w \in Databases
    BY WriteUserMessageType DEF MessageStates, Receipts
<1> HIDE DEF w
<1>3. CASE IsOpenSteer(d, open)
  <2>1. AcceptSteer(d, u, open) = [w EXCEPT !.msgs[open] = d.msgs[open] \cup {u}]
      BY <1>3 DEF AcceptSteer, w
  <2>2. open \in Inputs
      BY <1>3 DEF IsOpenSteer
  <2> QED
      BY <1>1, <1>2, <1>3, <2>1, <2>2 DEF MessageWritten, RowsKept, LinkWritten, Databases
<1>4. CASE ~IsOpenSteer(d, open)
  <2>1. AcceptSteer(d, u, open) = [w EXCEPT !.mode[u] = "steer", !.state[u] = "pending",
                                            !.order[u] = 0, !.msgs[u] = {u}]
      BY <1>4 DEF AcceptSteer, w
  <2> QED
      BY <1>1, <1>2, <1>4, <2>1 DEF MessageWritten, RowsKept, RowWritten, LinkWritten, Databases
<1> QED
    BY <1>3, <1>4

LEMMA PromoteEffect ==
    ASSUME NEW d \in Databases, NEW i \in Inputs
    PROVE  LET e == Promote(d, i)
           IN  /\ MessageWritten(d, e, i, "pending", "unread")
               /\ LinkWritten(d, e, i, d.msgs[i] \cup {i})
<1> DEFINE v == WriteUserMessage(d, i, "pending", "unread")
           w == [v EXCEPT !.mode[i] = "steer", !.msgs[i] = d.msgs[i] \cup {i}]
<1>1. MessageWritten(d, v, i, "pending", "unread") /\ v.msgs = d.msgs
    BY WriteUserMessageEffect
<1>2. v \in Databases
    BY WriteUserMessageType DEF MessageStates, Receipts
<1>3. Promote(d, i) = Resequence(w)
    BY DEF Promote
<1>4. d.msgs[i] \cup {i} \in SUBSET Inputs
    BY DEF Databases
<1> HIDE DEF v
<1>5. w \in Databases /\ w.seq = v.seq /\ w.status = v.status /\ w.receipt = v.receipt
      /\ w.tail = v.tail /\ w.msgs = [v.msgs EXCEPT ![i] = d.msgs[i] \cup {i}]
    BY <1>2, <1>4 DEF Databases
<1> HIDE DEF w
<1>6. Resequence(w).seq = w.seq /\ Resequence(w).status = w.status /\ Resequence(w).msgs = w.msgs
      /\ Resequence(w).receipt = w.receipt /\ Resequence(w).tail = w.tail
    BY <1>5 DEF Resequence, Databases
<1> QED
    BY <1>1, <1>2, <1>3, <1>5, <1>6 DEF MessageWritten, LinkWritten, Databases

-----------------------------------------------------------------------------
(* What each transaction keeps of the story. *)

LEMMA DatabaseFacts ==
    ASSUME NEW d \in Databases
    PROVE  /\ d.tail \in Nat
           /\ \A i \in Inputs : /\ d.seq[i] \in Nat /\ d.msgs[i] \in SUBSET Inputs
                                /\ d.mode[i] \in {"queue", "steer"} /\ i \in Nat
<1>1. \A i \in Inputs : i \in Nat
    BY StoreAssumption DEF Inputs
<1> QED
    BY <1>1 DEF Databases

\* A queue row is written, its messages are not.
LEMMA QueueRowPlaced ==
    ASSUME NEW d \in Databases, NEW e \in Databases, NEW i \in Inputs,
           d.mode[i] = "queue" \/ d.state[i] = "none",
           NEW s, NEW m, RowWritten(d, e, i, s, m), MessagesKept(d, e), NEW L, LinkWritten(d, e, i, L),
           Placed(d)
    PROVE  Placed(e)
<1> SUFFICES ASSUME NEW u \in Inputs
             PROVE  /\ e.seq[u] <= e.tail
                    /\ IsUnread(e, u) => \E j \in Inputs : IsOpenSteer(e, j) /\ u \in e.msgs[j]
    BY DEF Placed
<1>1. e.seq[u] <= e.tail
    BY DatabaseFacts DEF Placed, MessagesKept
<1>2. ASSUME IsUnread(e, u) PROVE \E j \in Inputs : IsOpenSteer(e, j) /\ u \in e.msgs[j]
  <2>1. PICK j \in Inputs : IsOpenSteer(d, j) /\ u \in d.msgs[j]
      BY <1>2 DEF Placed, MessagesKept, IsUnread, Exists
  <2>2. j # i
      BY <2>1 DEF IsOpenSteer
  <2> QED
      BY <2>1, <2>2 DEF IsOpenSteer, RowWritten, LinkWritten
<1> QED
    BY <1>1, <1>2

LEMMA QueueRowStory ==
    ASSUME NEW d \in Databases, NEW e \in Databases, NEW i \in Inputs, d.mode[i] = "queue",
           NEW s, RowWritten(d, e, i, s, "queue"), MessagesKept(d, e),
           NEW L \in SUBSET {i}, LinkWritten(d, e, i, L), NEW n, NEW S \in SUBSET Inputs,
           d.state[i] # "none" \/ ~(i <= n) \/ s = "none",
           s \in ActiveStates \/ Exists(d, i) \/ i \notin S
    PROVE  /\ SteerRowsStand(d, n) => SteerRowsStand(e, n)
           /\ LinksOwn(d) => LinksOwn(e)
           /\ Present(d, S) => Present(e, S)
<1>1. ASSUME SteerRowsStand(d, n) PROVE SteerRowsStand(e, n)
  <2> SUFFICES ASSUME NEW j \in Inputs, e.mode[j] = "steer" PROVE SteerStanding(e, n, j)
      BY DEF SteerRowsStand
  <2>1. j # i /\ d.mode[j] = "steer" /\ SteerStanding(d, n, j)
      BY <1>1 DEF RowWritten, SteerRowsStand
  <2>2. e.state[j] = d.state[j] /\ e.msgs[j] = d.msgs[j]
      BY <2>1 DEF RowWritten, LinkWritten
  <2>3. ASSUME NEW u \in d.msgs[j]
        PROVE  /\ Exists(e, u) /\ u <= n /\ ReceiptFits(e, e.state[j], u)
               /\ u # j => e.state[u] = "none"
    <3>1. u \in Inputs
        BY <2>3, DatabaseFacts
    <3>2. Exists(d, u) /\ u <= n /\ ReceiptFits(d, d.state[j], u) /\ (u # j => d.state[u] = "none")
        BY <2>1 DEF SteerStanding
    <3>3. Exists(e, u) /\ ReceiptFits(e, e.state[j], u)
        BY <2>2, <3>2 DEF MessagesKept, Exists, ReceiptFits
    <3>4. u # j => e.state[u] = "none"
        BY <2>1, <3>1, <3>2 DEF RowWritten
    <3> QED
        BY <3>2, <3>3, <3>4
  <2>4. ASSUME NEW k \in Inputs \ {j}, e.mode[k] = "steer" PROVE e.msgs[j] \cap e.msgs[k] = {}
    <3>1. k # i /\ d.mode[k] = "steer" /\ e.msgs[k] = d.msgs[k]
        BY <2>4 DEF RowWritten, LinkWritten
    <3> QED
        BY <2>1, <2>2, <2>4, <3>1 DEF SteerStanding
  <2> QED
      BY <2>1, <2>2, <2>3, <2>4 DEF SteerStanding
<1>2. ASSUME LinksOwn(d) PROVE LinksOwn(e)
    BY <1>2 DEF LinksOwn, QueueRows, RowWritten, LinkWritten
<1>3. ASSUME Present(d, S) PROVE Present(e, S)
    BY <1>3 DEF Present, RowWritten, MessagesKept, Exists
<1> QED
    BY <1>1, <1>2, <1>3

LEMMA UntouchedStory ==
    ASSUME NEW d \in Databases, NEW e \in Databases, Untouched(d, e)
    PROVE  /\ Placed(d) => Placed(e)
           /\ \A n : SteerRowsStand(d, n) => SteerRowsStand(e, n)
           /\ LinksOwn(d) => LinksOwn(e)
           /\ \A S : Present(d, S) => Present(e, S)
<1>1. /\ e.mode = d.mode /\ e.state = d.state /\ e.msgs = d.msgs
      /\ e.seq = d.seq /\ e.status = d.status /\ e.receipt = d.receipt /\ e.tail >= d.tail
    BY DEF Untouched, RowsKept, MessagesKept
<1>2. Placed(d) => Placed(e)
    BY <1>1, DatabaseFacts DEF Placed, IsUnread, Exists, IsOpenSteer
<1>3. ASSUME NEW n, SteerRowsStand(d, n) PROVE SteerRowsStand(e, n)
    BY <1>1, <1>3 DEF SteerRowsStand, SteerStanding, Exists, ReceiptFits
<1>4. LinksOwn(d) => LinksOwn(e)
    BY <1>1 DEF LinksOwn, QueueRows
<1>5. ASSUME NEW S, Present(d, S) PROVE Present(e, S)
    BY <1>1, <1>5 DEF Present, Exists
<1> QED
    BY <1>2, <1>3, <1>4, <1>5

\* A row that has a state of its own is carried by no other row.
LEMMA CarriedByNoOther ==
    ASSUME NEW d \in Databases, NEW n, SteerRowsStand(d, n), NEW i \in Inputs,
           d.state[i] # "none" \/ ~(i <= n), NEW j \in Inputs, d.mode[j] = "steer", j # i
    PROVE  i \notin d.msgs[j]
BY DEF SteerRowsStand, SteerStanding

\* The text of a claimed queue row.
LEMMA UserFactStory ==
    ASSUME NEW d \in Databases, NEW i \in Inputs, d.mode[i] = "queue", d.state[i] = "claimed"
    PROVE  LET e == AppendUserFact(d, i)
           IN  /\ Placed(d) => Placed(e)
               /\ \A n : SteerRowsStand(d, n) => SteerRowsStand(e, n)
               /\ LinksOwn(d) => LinksOwn(e)
               /\ \A S \in SUBSET Inputs : Present(d, S) => Present(e, S)
<1> DEFINE e == AppendUserFact(d, i)
<1>1. /\ MessageWritten(d, e, i, "sent", "none") /\ e.mode = d.mode /\ e.state = d.state
      /\ LinkWritten(d, e, i, {i}) /\ e \in Databases
    BY AppendUserFactEffect, AppendUserFactType DEF RowsKept
<1> HIDE DEF e
<1>2. \A u \in Inputs : Exists(d, u) => Exists(e, u)
    BY <1>1, DatabaseFacts DEF MessageWritten, Exists
<1>3. ASSUME Placed(d) PROVE Placed(e)
  <2>1. ASSUME NEW u \in Inputs PROVE e.seq[u] <= e.tail
      BY <1>1, <1>3, DatabaseFacts DEF Placed, MessageWritten
  <2>2. ASSUME NEW u \in Inputs, IsUnread(e, u)
        PROVE  \E j \in Inputs : IsOpenSteer(e, j) /\ u \in e.msgs[j]
    <3>1. u # i /\ IsUnread(d, u)
        BY <1>1, <2>2 DEF MessageWritten, IsUnread, Exists
    <3>2. PICK j \in Inputs : IsOpenSteer(d, j) /\ u \in d.msgs[j]
        BY <1>3, <3>1 DEF Placed
    <3> QED
        BY <1>1, <3>2 DEF IsOpenSteer, LinkWritten
  <2> QED
      BY <2>1, <2>2 DEF Placed
<1>4. ASSUME NEW n, SteerRowsStand(d, n) PROVE SteerRowsStand(e, n)
  <2> SUFFICES ASSUME NEW j \in Inputs, e.mode[j] = "steer" PROVE SteerStanding(e, n, j)
      BY DEF SteerRowsStand
  <2>1. j # i /\ d.mode[j] = "steer" /\ SteerStanding(d, n, j) /\ e.msgs[j] = d.msgs[j]
        /\ i \notin d.msgs[j] /\ d.msgs[j] \subseteq Inputs
      BY <1>1, <1>4, CarriedByNoOther, DatabaseFacts DEF SteerRowsStand, LinkWritten
  <2>2. \A u \in d.msgs[j] : ReceiptFits(d, d.state[j], u) => ReceiptFits(e, e.state[j], u)
      BY <1>1, <2>1 DEF ReceiptFits, MessageWritten
  <2>3. \A k \in Inputs \ {j} : e.mode[k] = "steer" => e.msgs[k] = d.msgs[k] /\ d.mode[k] = "steer"
      BY <1>1 DEF LinkWritten
  <2> QED
      BY <1>1, <1>2, <2>1, <2>2, <2>3 DEF SteerStanding
<1>5. LinksOwn(d) => LinksOwn(e)
    BY <1>1 DEF LinksOwn, QueueRows, LinkWritten
<1>6. ASSUME NEW S \in SUBSET Inputs, Present(d, S) PROVE Present(e, S)
    BY <1>1, <1>2, <1>6 DEF Present
<1> QED
    BY <1>3, <1>4, <1>5, <1>6 DEF e

\* A steer message joins the open row, or opens a row of its own.
LEMMA AcceptSteerStory ==
    ASSUME NEW d \in Databases, NEW u \in Inputs, NEW open, d.state[u] = "none"
    PROVE  LET e == AcceptSteer(d, u, open)
           IN  /\ Placed(d) => Placed(e)
               /\ \A n \in Nat : u = n + 1 /\ SteerRowsStand(d, n) => SteerRowsStand(e, u)
               /\ LinksOwn(d) => LinksOwn(e)
               /\ \A S \in SUBSET Inputs : Present(d, S) => Present(e, S \cup {u})
<1> DEFINE e == AcceptSteer(d, u, open)
           row == IF IsOpenSteer(d, open) THEN open ELSE u
           link == IF IsOpenSteer(d, open) THEN d.msgs[open] \cup {u} ELSE {u}
<1>1. MessageWritten(d, e, u, "pending", "unread") /\ e \in Databases
    BY AcceptSteerEffect, AcceptSteerType
<1>2. /\ row \in Inputs /\ LinkWritten(d, e, row, link) /\ u \in link
      /\ link \subseteq d.msgs[row] \cup {u}
      /\ e.mode[row] = "steer" /\ e.state[row] = "pending"
      /\ \A j \in Inputs \ {row} : e.mode[j] = d.mode[j] /\ e.state[j] = d.state[j]
      /\ row # u => IsOpenSteer(d, row) /\ link = d.msgs[row] \cup {u}
  <2>1. CASE IsOpenSteer(d, open)
    <3>1. open \in Inputs /\ d.mode[open] = "steer" /\ d.state[open] = "pending"
        BY <2>1 DEF IsOpenSteer
    <3>2. RowsKept(d, e) /\ LinkWritten(d, e, open, d.msgs[open] \cup {u})
        BY <2>1, AcceptSteerEffect
    <3> HIDE DEF e
    <3> QED
        BY <2>1, <3>1, <3>2 DEF RowsKept
  <2>2. CASE ~IsOpenSteer(d, open)
    <3>1. RowWritten(d, e, u, "pending", "steer") /\ LinkWritten(d, e, u, {u})
        BY <2>2, AcceptSteerEffect
    <3> HIDE DEF e
    <3> QED
        BY <2>2, <3>1 DEF RowWritten
  <2> QED
      BY <2>1, <2>2
<1>3. row = u => ~IsOpenSteer(d, open) /\ link = {u}
  <2>1. IsOpenSteer(d, open) => open # u
      BY DEF IsOpenSteer
  <2> QED
      BY <2>1
<1> HIDE DEF e, row, link
<1>4. Exists(e, u) /\ \A v \in Inputs : Exists(d, v) => Exists(e, v)
    BY <1>1, DatabaseFacts DEF MessageWritten, Exists
<1>5. ASSUME Placed(d) PROVE Placed(e)
  <2>1. ASSUME NEW v \in Inputs PROVE e.seq[v] <= e.tail
      BY <1>1, <1>5, DatabaseFacts DEF Placed, MessageWritten
  <2>2. ASSUME NEW v \in Inputs, IsUnread(e, v)
        PROVE  \E j \in Inputs : IsOpenSteer(e, j) /\ v \in e.msgs[j]
    <3>1. CASE v = u
        BY <1>2, <3>1 DEF IsOpenSteer, LinkWritten
    <3>2. CASE v # u
      <4>1. IsUnread(d, v)
          BY <1>1, <2>2, <3>2 DEF MessageWritten, IsUnread, Exists
      <4>2. PICK j \in Inputs : IsOpenSteer(d, j) /\ v \in d.msgs[j]
          BY <1>5, <4>1 DEF Placed
      <4>3. j # u
          BY <4>2 DEF IsOpenSteer
      <4>4. IsOpenSteer(e, j) /\ v \in e.msgs[j]
          BY <1>2, <4>2, <4>3 DEF IsOpenSteer, LinkWritten
      <4> QED
          BY <4>4
    <3> QED
        BY <3>1, <3>2
  <2> QED
      BY <2>1, <2>2 DEF Placed
<1>6. ASSUME NEW n \in Nat, u = n + 1, SteerRowsStand(d, n) PROVE SteerRowsStand(e, u)
  <2>1. ~(u <= n) /\ \A v \in Inputs : v <= n => v <= u
      BY <1>6, DatabaseFacts
  <2>2. \A j \in Inputs : d.mode[j] = "steer" => u \notin d.msgs[j]
      BY <1>6, <2>1 DEF SteerRowsStand, SteerStanding
  <2>3. d.mode[u] # "steer"
      BY <1>6 DEF SteerRowsStand, SteerStanding
  <2>4. \A v \in Inputs \ {u} : /\ e.status[v] = d.status[v] /\ e.receipt[v] = d.receipt[v]
                                /\ d.state[v] = "none" => e.state[v] = "none" \/ v = row
      BY <1>1, <1>2 DEF MessageWritten
  <2>5. ASSUME NEW j \in Inputs, e.mode[j] = "steer", j # row PROVE SteerStanding(e, u, j)
    <3>1. d.mode[j] = "steer" /\ SteerStanding(d, n, j) /\ e.msgs[j] = d.msgs[j]
          /\ e.state[j] = d.state[j] /\ u \notin d.msgs[j] /\ d.msgs[j] \subseteq Inputs /\ j # u
        BY <1>2, <1>6, <2>2, <2>3, <2>5, DatabaseFacts DEF SteerRowsStand, LinkWritten
    <3>2. row \notin d.msgs[j]
        BY <1>2, <1>6, <2>1, <2>5, <3>1, CarriedByNoOther DEF IsOpenSteer
    <3>3. ASSUME NEW v \in d.msgs[j]
          PROVE  /\ Exists(e, v) /\ v <= u /\ ReceiptFits(e, e.state[j], v)
                 /\ v # j => e.state[v] = "none"
      <4>1. v \in Inputs \ {u} /\ v # row
          BY <3>1, <3>2
      <4>2. Exists(d, v) /\ v <= n /\ ReceiptFits(d, d.state[j], v) /\ (v # j => d.state[v] = "none")
          BY <3>1 DEF SteerStanding
      <4> QED
          BY <1>4, <2>1, <2>4, <3>1, <4>1, <4>2 DEF ReceiptFits
    <3>4. ASSUME NEW k \in Inputs \ {j}, e.mode[k] = "steer" PROVE e.msgs[j] \cap e.msgs[k] = {}
      <4>1. CASE k # row
        <5>1. d.mode[k] = "steer" /\ e.msgs[k] = d.msgs[k]
            BY <1>2, <3>4, <4>1 DEF LinkWritten
        <5> QED
            BY <3>1, <5>1 DEF SteerStanding
      <4>2. CASE k = row
        <5>1. e.msgs[k] \subseteq (IF row = u THEN {u} ELSE d.msgs[k] \cup {u})
            BY <1>2, <1>3, <4>2 DEF LinkWritten
        <5>2. row # u => d.msgs[j] \cap d.msgs[k] = {}
            BY <1>2, <3>1, <3>4, <4>2 DEF SteerStanding, IsOpenSteer
        <5> QED
            BY <3>1, <5>1, <5>2
      <4> QED
          BY <4>1, <4>2
    <3> QED
        BY <3>1, <3>3, <3>4 DEF SteerStanding
  <2>6. SteerStanding(e, u, row)
    <3>1. e.msgs[row] = link /\ e.state[row] = "pending"
        BY <1>2 DEF LinkWritten
    <3>2. ReceiptFits(e, "pending", u) /\ u <= u
        BY <1>1, DatabaseFacts DEF ReceiptFits, MessageWritten
    <3>3. row # u => SteerStanding(d, n, row) /\ d.state[row] = "pending" /\ d.msgs[row] \subseteq Inputs
        BY <1>2, <1>6, DatabaseFacts DEF SteerRowsStand, IsOpenSteer
    <3>4. row \in link
        BY <1>2, <3>3 DEF SteerStanding
    <3>5. ASSUME NEW v \in link
          PROVE  /\ Exists(e, v) /\ v <= u /\ ReceiptFits(e, "pending", v)
                 /\ v # row => e.state[v] = "none"
      <4>1. CASE v = u
          BY <1>2, <1>4, <3>2, <4>1
      <4>2. CASE v # u
        <5>1. row # u /\ v \in d.msgs[row] /\ v \in Inputs
            BY <1>2, <1>3, <3>3, <4>2
        <5>2. Exists(d, v) /\ v <= n /\ ReceiptFits(d, "pending", v) /\ (v # row => d.state[v] = "none")
            BY <3>3, <5>1 DEF SteerStanding
        <5> QED
            BY <1>4, <2>1, <2>4, <4>2, <5>1, <5>2 DEF ReceiptFits
      <4> QED
          BY <4>1, <4>2
    <3>6. ASSUME NEW k \in Inputs \ {row}, e.mode[k] = "steer" PROVE link \cap e.msgs[k] = {}
      <4>1. d.mode[k] = "steer" /\ e.msgs[k] = d.msgs[k] /\ u \notin d.msgs[k]
          BY <1>2, <2>2, <3>6 DEF LinkWritten
      <4>2. row # u => d.msgs[row] \cap d.msgs[k] = {}
          BY <3>3, <3>6, <4>1 DEF SteerStanding
      <4> QED
          BY <1>2, <1>3, <4>1, <4>2
    <3> QED
        BY <3>1, <3>4, <3>5, <3>6 DEF SteerStanding
  <2> QED
      BY <2>5, <2>6 DEF SteerRowsStand
<1>7. ASSUME LinksOwn(d) PROVE LinksOwn(e)
  <2> SUFFICES ASSUME NEW j \in QueueRows(e) PROVE e.msgs[j] \subseteq {j}
      BY DEF LinksOwn
  <2>1. j \in Inputs /\ j # row
      BY <1>2 DEF QueueRows
  <2>2. j \in QueueRows(d) /\ e.msgs[j] = d.msgs[j]
      BY <1>2, <2>1 DEF QueueRows, LinkWritten
  <2> QED
      BY <1>7, <2>2 DEF LinksOwn
<1>8. ASSUME NEW S \in SUBSET Inputs, Present(d, S) PROVE Present(e, S \cup {u})
    BY <1>2, <1>4, <1>8 DEF Present, ActiveStates, WaitingStates
<1> QED
    BY <1>5, <1>6, <1>7, <1>8 DEF e

\* A released queue row becomes a steer row, at the end of the transcript.
LEMMA PromoteStory ==
    ASSUME NEW d \in Databases, NEW i \in Inputs, d.mode[i] = "queue", d.state[i] = "pending",
           d.msgs[i] = {}
    PROVE  LET e == Promote(d, i)
           IN  /\ Placed(d) => Placed(e)
               /\ \A n : i <= n /\ SteerRowsStand(d, n) => SteerRowsStand(e, n)
               /\ LinksOwn(d) => LinksOwn(e)
               /\ \A S \in SUBSET Inputs : Present(d, S) => Present(e, S)
<1> DEFINE e == Promote(d, i)
<1>1. /\ MessageWritten(d, e, i, "pending", "unread") /\ LinkWritten(d, e, i, {i})
      /\ RowWritten(d, e, i, "pending", "steer") /\ e \in Databases
    BY PromoteEffect, PromoteRows, PromoteType
<1> HIDE DEF e
<1>2. Exists(e, i) /\ \A v \in Inputs : Exists(d, v) => Exists(e, v)
    BY <1>1, DatabaseFacts DEF MessageWritten, Exists
<1>3. ASSUME Placed(d) PROVE Placed(e)
  <2>1. ASSUME NEW v \in Inputs PROVE e.seq[v] <= e.tail
      BY <1>1, <1>3, DatabaseFacts DEF Placed, MessageWritten
  <2>2. ASSUME NEW v \in Inputs, IsUnread(e, v)
        PROVE  \E j \in Inputs : IsOpenSteer(e, j) /\ v \in e.msgs[j]
    <3>1. CASE v = i
        BY <1>1, <3>1 DEF IsOpenSteer, LinkWritten, RowWritten
    <3>2. CASE v # i
      <4>1. IsUnread(d, v)
          BY <1>1, <2>2, <3>2 DEF MessageWritten, IsUnread, Exists
      <4>2. PICK j \in Inputs : IsOpenSteer(d, j) /\ v \in d.msgs[j]
          BY <1>3, <4>1 DEF Placed
      <4>3. j # i
          BY <4>2 DEF IsOpenSteer
      <4> QED
          BY <1>1, <4>2, <4>3 DEF IsOpenSteer, LinkWritten, RowWritten
    <3> QED
        BY <3>1, <3>2
  <2> QED
      BY <2>1, <2>2 DEF Placed
<1>4. ASSUME NEW n, i <= n, SteerRowsStand(d, n) PROVE SteerRowsStand(e, n)
  <2>1. \A v \in Inputs \ {i} : /\ e.status[v] = d.status[v] /\ e.receipt[v] = d.receipt[v]
                                /\ e.state[v] = d.state[v]
      BY <1>1 DEF MessageWritten, RowWritten
  <2>2. ASSUME NEW j \in Inputs, j # i, e.mode[j] = "steer"
        PROVE  /\ d.mode[j] = "steer" /\ SteerStanding(d, n, j) /\ e.msgs[j] = d.msgs[j]
               /\ e.state[j] = d.state[j] /\ i \notin d.msgs[j] /\ d.msgs[j] \subseteq Inputs
    <3>1. d.mode[j] = "steer"
        BY <1>1, <2>2 DEF RowWritten
    <3> QED
        BY <1>1, <1>4, <2>1, <2>2, <3>1, CarriedByNoOther, DatabaseFacts DEF SteerRowsStand, LinkWritten
  <2>3. ASSUME NEW j \in Inputs, j # i, e.mode[j] = "steer" PROVE SteerStanding(e, n, j)
    <3>1. \A v \in d.msgs[j] : v \in Inputs \ {i}
        BY <2>2, <2>3
    <3>2. \A k \in Inputs \ {j} : e.mode[k] = "steer" => e.msgs[j] \cap e.msgs[k] = {}
        BY <1>1, <2>2, <2>3 DEF LinkWritten, SteerStanding
    <3> QED
        BY <1>2, <2>1, <2>2, <2>3, <3>1, <3>2 DEF SteerStanding, ReceiptFits
  <2>4. SteerStanding(e, n, i)
    <3>1. e.msgs[i] = {i} /\ e.state[i] = "pending" /\ e.status[i] = "pending" /\ e.receipt[i] = "unread"
        BY <1>1 DEF LinkWritten, RowWritten, MessageWritten
    <3>2. \A k \in Inputs \ {i} : e.mode[k] = "steer" => e.msgs[i] \cap e.msgs[k] = {}
        BY <2>2, <3>1
    <3> QED
        BY <1>2, <1>4, <3>1, <3>2 DEF SteerStanding, ReceiptFits
  <2> QED
      BY <2>3, <2>4 DEF SteerRowsStand
<1>5. LinksOwn(d) => LinksOwn(e)
    BY <1>1 DEF LinksOwn, QueueRows, LinkWritten, RowWritten
<1>6. ASSUME NEW S \in SUBSET Inputs, Present(d, S) PROVE Present(e, S)
    BY <1>1, <1>2, <1>6 DEF Present, RowWritten
<1> QED
    BY <1>3, <1>4, <1>5, <1>6 DEF e

\* A waiting steer row is claimed: its messages are read.
LEMMA ClaimSteerStory ==
    ASSUME NEW d \in Databases, NEW i \in Inputs, d.mode[i] = "steer", d.state[i] = "pending"
    PROVE  LET e == Claim(d, i)
           IN  /\ Placed(d) => Placed(e)
               /\ \A n : SteerRowsStand(d, n) => SteerRowsStand(e, n)
               /\ LinksOwn(d) => LinksOwn(e)
               /\ \A S \in SUBSET Inputs : Present(d, S) => Present(e, S)
<1> DEFINE e == Claim(d, i)
<1>1. /\ e.seq = d.seq /\ e.status = d.status /\ e.msgs = d.msgs /\ e.mode = d.mode
      /\ e.tail = d.tail + 1 /\ e.state = [d.state EXCEPT ![i] = "claimed"]
      /\ e.receipt = [u \in Inputs |-> IF u \in d.msgs[i] THEN "read" ELSE d.receipt[u]]
    BY DEF Claim, ClaimSteer, WriteAssistant, Databases
<1>2. \A j \in Inputs : e.state[j] = IF j = i THEN "claimed" ELSE d.state[j]
    BY <1>1 DEF Databases
<1> HIDE DEF e
<1>3. ASSUME Placed(d) PROVE Placed(e)
  <2>1. ASSUME NEW v \in Inputs PROVE e.seq[v] <= e.tail
      BY <1>1, <1>3, DatabaseFacts DEF Placed
  <2>2. ASSUME NEW v \in Inputs, IsUnread(e, v)
        PROVE  \E j \in Inputs : IsOpenSteer(e, j) /\ v \in e.msgs[j]
    <3>1. v \notin d.msgs[i] /\ IsUnread(d, v)
        BY <1>1, <2>2 DEF IsUnread, Exists
    <3>2. PICK j \in Inputs : IsOpenSteer(d, j) /\ v \in d.msgs[j]
        BY <1>3, <3>1 DEF Placed
    <3> QED
        BY <1>1, <1>2, <3>1, <3>2 DEF IsOpenSteer
  <2> QED
      BY <2>1, <2>2 DEF Placed
<1>4. ASSUME NEW n, SteerRowsStand(d, n) PROVE SteerRowsStand(e, n)
  <2> SUFFICES ASSUME NEW j \in Inputs, e.mode[j] = "steer" PROVE SteerStanding(e, n, j)
      BY DEF SteerRowsStand
  <2>1. SteerStanding(d, n, j) /\ SteerStanding(d, n, i) /\ d.msgs[j] \subseteq Inputs
      BY <1>1, <1>4, DatabaseFacts DEF SteerRowsStand
  <2>2. ASSUME NEW u \in d.msgs[j]
        PROVE  /\ Exists(e, u) /\ u <= n /\ ReceiptFits(e, e.state[j], u)
               /\ u # j => e.state[u] = "none"
    <3>1. u \in Inputs /\ Exists(d, u) /\ u <= n /\ ReceiptFits(d, d.state[j], u)
          /\ (u # j => d.state[u] = "none")
        BY <2>1 DEF SteerStanding
    <3>2. u # j => e.state[u] = "none"
        BY <1>2, <3>1
    <3>3. CASE j = i
        BY <1>1, <1>2, <3>1, <3>2, <3>3 DEF ReceiptFits, Exists
    <3>4. CASE j # i
      <4>1. u \notin d.msgs[i]
          BY <1>1, <2>1, <3>4 DEF SteerStanding
      <4> QED
          BY <1>1, <1>2, <3>1, <3>2, <3>4, <4>1 DEF ReceiptFits, Exists
    <3> QED
        BY <3>3, <3>4
  <2> QED
      BY <1>1, <1>2, <2>1, <2>2 DEF SteerStanding
<1>5. LinksOwn(d) => LinksOwn(e)
    BY <1>1, <1>2 DEF LinksOwn, QueueRows
<1>6. ASSUME NEW S \in SUBSET Inputs, Present(d, S) PROVE Present(e, S)
    BY <1>1, <1>2, <1>6 DEF Present, Exists, ActiveStates
<1> QED
    BY <1>3, <1>4, <1>5, <1>6 DEF e

\* A settled claim: a queue row that has its text is deleted, a steer row is kept and
\* its messages are settled.
LEMMA ConsumeSteerStory ==
    ASSUME NEW d \in Databases, NEW i \in Inputs, d.mode[i] = "steer", d.state[i] = "claimed"
    PROVE  LET e == Consume(d, i)
           IN  /\ Placed(d) => Placed(e)
               /\ \A n : SteerRowsStand(d, n) => SteerRowsStand(e, n)
               /\ LinksOwn(d) => LinksOwn(e)
               /\ \A n : \A S \in SUBSET Inputs :
                      SteerRowsStand(d, n) /\ Present(d, S) => Present(e, S)
<1> DEFINE e == Consume(d, i)
<1>1. /\ e.seq = d.seq /\ e.receipt = d.receipt /\ e.msgs = d.msgs /\ e.mode = d.mode
      /\ e.tail = d.tail /\ e.state = [d.state EXCEPT ![i] = "consumed"]
      /\ e.status = [u \in Inputs |-> IF u \in d.msgs[i] THEN "sent" ELSE d.status[u]]
    BY DEF Consume, SetMessages, SetState, Databases
<1>2. \A j \in Inputs : e.state[j] = IF j = i THEN "consumed" ELSE d.state[j]
    BY <1>1 DEF Databases
<1> HIDE DEF e
<1>3. ASSUME Placed(d) PROVE Placed(e)
  <2>1. ASSUME NEW v \in Inputs PROVE e.seq[v] <= e.tail
      BY <1>1, <1>3 DEF Placed
  <2>2. ASSUME NEW v \in Inputs, IsUnread(e, v)
        PROVE  \E j \in Inputs : IsOpenSteer(e, j) /\ v \in e.msgs[j]
    <3>1. IsUnread(d, v)
        BY <1>1, <2>2 DEF IsUnread, Exists
    <3>2. PICK j \in Inputs : IsOpenSteer(d, j) /\ v \in d.msgs[j]
        BY <1>3, <3>1 DEF Placed
    <3> QED
        BY <1>1, <1>2, <3>2 DEF IsOpenSteer
  <2> QED
      BY <2>1, <2>2 DEF Placed
<1>4. ASSUME NEW n, SteerRowsStand(d, n) PROVE SteerRowsStand(e, n)
  <2> SUFFICES ASSUME NEW j \in Inputs, e.mode[j] = "steer" PROVE SteerStanding(e, n, j)
      BY DEF SteerRowsStand
  <2>1. SteerStanding(d, n, j) /\ SteerStanding(d, n, i) /\ d.msgs[j] \subseteq Inputs
      BY <1>1, <1>4, DatabaseFacts DEF SteerRowsStand
  <2>2. ASSUME NEW u \in d.msgs[j]
        PROVE  /\ Exists(e, u) /\ u <= n /\ ReceiptFits(e, e.state[j], u)
               /\ u # j => e.state[u] = "none"
    <3>1. u \in Inputs /\ Exists(d, u) /\ u <= n /\ ReceiptFits(d, d.state[j], u)
          /\ (u # j => d.state[u] = "none")
        BY <2>1 DEF SteerStanding
    <3>2. u # j => e.state[u] = "none"
        BY <1>2, <3>1
    <3>3. CASE j = i
        BY <1>1, <1>2, <3>1, <3>2, <3>3 DEF ReceiptFits, Exists
    <3>4. CASE j # i
      <4>1. u \notin d.msgs[i]
          BY <1>1, <2>1, <3>4 DEF SteerStanding
      <4> QED
          BY <1>1, <1>2, <3>1, <3>2, <3>4, <4>1 DEF ReceiptFits, Exists
    <3> QED
        BY <3>3, <3>4
  <2> QED
      BY <1>1, <1>2, <2>1, <2>2 DEF SteerStanding
<1>5. LinksOwn(d) => LinksOwn(e)
    BY <1>1, <1>2 DEF LinksOwn, QueueRows, ActiveStates, WaitingStates
<1>6. ASSUME NEW n, NEW S \in SUBSET Inputs, SteerRowsStand(d, n), Present(d, S) PROVE Present(e, S)
  <2>1. Exists(d, i)
      BY <1>6 DEF SteerRowsStand, SteerStanding
  <2> QED
      BY <1>1, <1>2, <1>6, <2>1 DEF Present, Exists
<1> QED
    BY <1>3, <1>4, <1>5, <1>6 DEF e

LEMMA ConsumeStory ==
    ASSUME NEW d \in Databases, NEW i \in Inputs, d.state[i] = "claimed",
           d.mode[i] = "queue" => Exists(d, i)
    PROVE  LET e == Consume(d, i)
           IN  /\ Placed(d) => Placed(e)
               /\ \A n : SteerRowsStand(d, n) => SteerRowsStand(e, n)
               /\ LinksOwn(d) => LinksOwn(e)
               /\ \A n : \A S \in SUBSET Inputs :
                      SteerRowsStand(d, n) /\ Present(d, S) => Present(e, S)
<1>1. CASE d.mode[i] = "steer"
    BY <1>1, ConsumeSteerStory
<1>2. CASE d.mode[i] = "queue"
  <2>1. Consume(d, i) = DeleteRow(d, i)
      BY <1>2 DEF Consume
  <2>2. /\ DeleteRow(d, i) \in Databases /\ RowWritten(d, DeleteRow(d, i), i, "none", "queue")
        /\ MessagesKept(d, DeleteRow(d, i)) /\ LinkWritten(d, DeleteRow(d, i), i, {})
      BY <1>2, DeleteRowType, DeleteRowRows, DeleteRowLeavesMessages
  <2>3. Placed(d) => Placed(DeleteRow(d, i))
      BY <1>2, <2>2, QueueRowPlaced
  <2>4. \A n : \A S \in SUBSET Inputs :
            /\ SteerRowsStand(d, n) => SteerRowsStand(DeleteRow(d, i), n)
            /\ LinksOwn(d) => LinksOwn(DeleteRow(d, i))
            /\ Present(d, S) => Present(DeleteRow(d, i), S)
      BY <1>2, <2>2, QueueRowStory
  <2> QED
      BY <2>1, <2>3, <2>4
<1> QED
    BY <1>1, <1>2, DatabaseFacts

\* A claimed or waiting queue row given back to the user, or blocked.
LEMMA ReleaseStory ==
    ASSUME NEW d \in Databases, NEW i \in Inputs, d.mode[i] = "queue", d.state[i] # "none",
           NEW s \in ActiveStates
    PROVE  LET e == Release(d, i, s)
           IN  /\ Placed(d) => Placed(e)
               /\ \A n : SteerRowsStand(d, n) => SteerRowsStand(e, n)
               /\ LinksOwn(d) => LinksOwn(e)
               /\ \A S \in SUBSET Inputs : Present(d, S) => Present(e, S)
<1> DEFINE e == Release(d, i, s)
<1>1. /\ e \in Databases /\ RowWritten(d, e, i, s, "queue")
      /\ MessagesKept(d, e) /\ LinkWritten(d, e, i, {})
  <2>1. s \in RowStates
      BY DEF ActiveStates, WaitingStates, RowStates
  <2> QED
      BY <2>1, ReleaseType, RowsOf, RowsLeaveMessages
<1> HIDE DEF e
<1>2. Placed(d) => Placed(e)
    BY <1>1, QueueRowPlaced
<1>3. \A n : \A S \in SUBSET Inputs :
          /\ SteerRowsStand(d, n) => SteerRowsStand(e, n)
          /\ LinksOwn(d) => LinksOwn(e)
          /\ Present(d, S) => Present(e, S)
    BY <1>1, QueueRowStory
<1> QED
    BY <1>2, <1>3 DEF e

LEMMA SetStateStory ==
    ASSUME NEW d \in Databases, NEW i \in Inputs, d.mode[i] = "queue", d.state[i] \in ActiveStates,
           NEW s \in ActiveStates
    PROVE  LET e == SetState(d, i, s)
           IN  /\ Placed(d) => Placed(e)
               /\ LinksOwn(d) =>
                     /\ \A n : SteerRowsStand(d, n) => SteerRowsStand(e, n)
                     /\ LinksOwn(e)
                     /\ \A S \in SUBSET Inputs : Present(d, S) => Present(e, S)
<1> DEFINE e == SetState(d, i, s)
<1>1. /\ e \in Databases /\ RowWritten(d, e, i, s, "queue")
      /\ MessagesKept(d, e) /\ LinkWritten(d, e, i, d.msgs[i])
  <2>1. s \in RowStates
      BY DEF ActiveStates, WaitingStates, RowStates
  <2> QED
      BY <2>1, SetStateType, RowsOf, RowsLeaveMessages
<1> HIDE DEF e
<1>2. Placed(d) => Placed(e)
    BY <1>1, QueueRowPlaced
<1>3. ASSUME LinksOwn(d)
      PROVE  /\ \A n : SteerRowsStand(d, n) => SteerRowsStand(e, n)
             /\ LinksOwn(e)
             /\ \A S \in SUBSET Inputs : Present(d, S) => Present(e, S)
  <2>1. d.msgs[i] \in SUBSET {i}
      BY <1>3 DEF LinksOwn, QueueRows
  <2>2. d.state[i] # "none"
      BY DEF ActiveStates, WaitingStates
  <2>3. \A n : \A S \in SUBSET Inputs :
            /\ SteerRowsStand(d, n) => SteerRowsStand(e, n)
            /\ LinksOwn(d) => LinksOwn(e)
            /\ Present(d, S) => Present(e, S)
      BY <1>1, <2>1, <2>2, QueueRowStory
  <2> QED
      BY <1>3, <2>3
<1> QED
    BY <1>2, <1>3 DEF e

\* The rollback of a turn takes messages away and no row.
LEMMA RollbackEffect ==
    ASSUME NEW d \in Databases, NEW i \in Inputs
    PROVE  LET e == Rollback(d, i)
           IN  /\ e \in Databases /\ RowsKept(d, e) /\ e.msgs = d.msgs
               /\ Placed(d) => Placed(e)
               /\ \A u \in Inputs : d.seq[u] < d.seq[i] =>
                      /\ e.seq[u] = d.seq[u] /\ e.status[u] = d.status[u]
                      /\ e.receipt[u] = d.receipt[u]
<1> DEFINE e == Rollback(d, i)
           gone(s) == s > 0 /\ s >= d.seq[i]
<1>1. CASE ~Exists(d, i)
  <2>1. e = d
      BY <1>1 DEF Rollback
  <2> QED
      BY <2>1 DEF RowsKept
<1>2. CASE Exists(d, i)
  <2>1. /\ e.seq = [u \in Inputs |-> IF gone(d.seq[u]) THEN 0 ELSE d.seq[u]]
        /\ e.status = [u \in Inputs |-> IF gone(d.seq[u]) THEN "none" ELSE d.status[u]]
        /\ e.receipt = [u \in Inputs |-> IF gone(d.seq[u]) THEN "none" ELSE d.receipt[u]]
        /\ e.tail = d.seq[i] - 1 /\ e.msgs = d.msgs /\ e.mode = d.mode /\ e.state = d.state
      BY <1>2 DEF Rollback, Databases
  <2>2. e \in Databases
      BY RollbackType
  <2> HIDE DEF e
  <2>3. d.seq[i] > 0 /\ \A u \in Inputs : d.seq[u] \in Nat
      BY <1>2, DatabaseFacts DEF Exists
  <2>4. \A u \in Inputs : d.seq[u] < d.seq[i] =>
            e.seq[u] = d.seq[u] /\ e.status[u] = d.status[u] /\ e.receipt[u] = d.receipt[u]
      BY <2>1, <2>3
  <2>5. ASSUME Placed(d) PROVE Placed(e)
    <3>1. ASSUME NEW u \in Inputs PROVE e.seq[u] <= e.tail
        BY <2>1, <2>3
    <3>2. ASSUME NEW u \in Inputs, IsUnread(e, u)
          PROVE  \E j \in Inputs : IsOpenSteer(e, j) /\ u \in e.msgs[j]
      <4>1. ~gone(d.seq[u]) /\ IsUnread(d, u)
          BY <2>1, <3>2 DEF IsUnread, Exists
      <4>2. PICK j \in Inputs : IsOpenSteer(d, j) /\ u \in d.msgs[j]
          BY <2>5, <4>1 DEF Placed
      <4> QED
          BY <2>1, <4>2 DEF IsOpenSteer
    <3> QED
        BY <3>1, <3>2 DEF Placed
  <2> QED
      BY <2>1, <2>2, <2>4, <2>5 DEF RowsKept, e
<1> QED
    BY <1>1, <1>2

\* A turn that is rolled back before anyone else wrote takes its own message only.
LEMMA RollbackStory ==
    ASSUME NEW d \in Databases, NEW i \in Inputs, d.mode[i] = "queue", d.state[i] = "claimed",
           \A u \in Inputs \ {i} : d.seq[u] < d.seq[i]
    PROVE  LET e == Rollback(d, i)
           IN  /\ \A n : SteerRowsStand(d, n) => SteerRowsStand(e, n)
               /\ LinksOwn(d) => LinksOwn(e)
               /\ \A S \in SUBSET Inputs : Present(d, S) => Present(e, S)
<1> DEFINE e == Rollback(d, i)
<1>1. /\ e \in Databases /\ e.mode = d.mode /\ e.state = d.state /\ e.msgs = d.msgs
      /\ \A u \in Inputs \ {i} : /\ e.seq[u] = d.seq[u] /\ e.status[u] = d.status[u]
                                 /\ e.receipt[u] = d.receipt[u]
    BY RollbackEffect DEF RowsKept
<1> HIDE DEF e
<1>2. ASSUME NEW n, SteerRowsStand(d, n) PROVE SteerRowsStand(e, n)
  <2> SUFFICES ASSUME NEW j \in Inputs, e.mode[j] = "steer" PROVE SteerStanding(e, n, j)
      BY DEF SteerRowsStand
  <2>1. /\ j # i /\ SteerStanding(d, n, j) /\ i \notin d.msgs[j] /\ d.msgs[j] \subseteq Inputs
      BY <1>1, <1>2, CarriedByNoOther, DatabaseFacts DEF SteerRowsStand
  <2>2. \A u \in d.msgs[j] : u \in Inputs \ {i}
      BY <2>1
  <2> QED
      BY <1>1, <2>1, <2>2 DEF SteerStanding, Exists, ReceiptFits
<1>3. LinksOwn(d) => LinksOwn(e)
    BY <1>1 DEF LinksOwn, QueueRows
<1>4. ASSUME NEW S \in SUBSET Inputs, Present(d, S) PROVE Present(e, S)
    BY <1>1, <1>4 DEF Present, Exists, ActiveStates
<1> QED
    BY <1>2, <1>3, <1>4 DEF e

\* A recovery: rows that were claimed or open are settled, and so are their messages.
LEMMA RecoverEffect ==
    ASSUME NEW d \in Databases
    PROVE  LET e == Recover(d)
           IN  /\ e.seq = d.seq /\ e.receipt = d.receipt /\ e.tail = d.tail /\ e.mode = d.mode
               /\ \A i \in Inputs :
                    /\ d.mode[i] = "steer" /\ d.state[i] \in {"pending", "claimed"} =>
                          e.state[i] = "consumed" /\ \A u \in d.msgs[i] : e.status[u] \in {"sent", "error"}
                    /\ d.mode[i] = "steer" /\ d.state[i] = "consumed" => e.state[i] = "consumed"
                    /\ d.mode[i] = "steer" => e.msgs[i] = d.msgs[i]
                    /\ d.status[i] # e.status[i] => e.status[i] \in {"sent", "error"}
                    /\ e.msgs[i] \in {d.msgs[i], {}}
                    /\ d.state[i] = "claimed" /\ d.mode[i] = "queue" => e.msgs[i] = {}
                    /\ d.state[i] \in ActiveStates /\ d.mode[i] = "queue" =>
                          e.state[i] \in ActiveStates \/ HasFact(d, i)
<1> DEFINE Answered == {i \in QueueRows(d) : d.state[i] = "claimed" /\ HasFact(d, i)}
           Unanswered == {i \in QueueRows(d) : d.state[i] = "claimed" /\ ~HasFact(d, i)}
           Settled == SteerRows(d, "claimed")
           Failed == SteerRows(d, "pending")
           linked(S) == UNION {d.msgs[i] : i \in S}
           state(i) == CASE i \in Answered -> "none"
                         [] i \in Unanswered -> "pending"
                         [] i \in Settled \cup Failed -> "consumed"
                         [] OTHER -> d.state[i]
           status(u) == IF u \in linked(Settled) THEN "sent"
                        ELSE IF u \in linked(Failed) THEN "error" ELSE d.status[u]
           e == Recover(d)
<1>1. /\ e.seq = d.seq /\ e.receipt = d.receipt /\ e.tail = d.tail /\ e.mode = d.mode
      /\ e.state = [i \in Inputs |-> state(i)]
      /\ e.status = [i \in Inputs |-> status(i)]
      /\ e.msgs = [i \in Inputs |-> IF i \in Answered \cup Unanswered THEN {} ELSE d.msgs[i]]
    BY DEF Recover, Resequence, Databases
<1> HIDE DEF e
<1> SUFFICES ASSUME NEW i \in Inputs
             PROVE  /\ d.mode[i] = "steer" /\ d.state[i] \in {"pending", "claimed"} =>
                          state(i) = "consumed" /\ \A u \in d.msgs[i] : status(u) \in {"sent", "error"}
                    /\ d.mode[i] = "steer" /\ d.state[i] = "consumed" => state(i) = "consumed"
                    /\ d.mode[i] = "steer" => i \notin Answered \cup Unanswered
                    /\ d.status[i] # status(i) => status(i) \in {"sent", "error"}
                    /\ d.state[i] = "claimed" /\ d.mode[i] = "queue" => i \in Answered \cup Unanswered
                    /\ d.state[i] \in ActiveStates /\ d.mode[i] = "queue" =>
                          state(i) \in ActiveStates \/ HasFact(d, i)
  <2> HIDE DEF state, status, Answered, Unanswered
  <2>1. \A k \in Inputs : \A u \in d.msgs[k] : u \in Inputs
      BY DatabaseFacts
  <2> QED
      BY <1>1, <2>1 DEF e
<1>2. d.mode[i] = "steer" => i \notin Answered /\ i \notin Unanswered
    BY DEF QueueRows
<1>3. d.mode[i] = "steer" /\ d.state[i] = "claimed" => i \in Settled
    BY DEF SteerRows
<1>4. d.mode[i] = "steer" /\ d.state[i] = "pending" => i \in Failed
    BY DEF SteerRows
<1>5. d.state[i] = "claimed" /\ d.mode[i] = "queue" => i \in Answered \/ i \in Unanswered
    BY DEF QueueRows, ActiveStates
<1>6. d.mode[i] = "queue" => i \notin Settled \cup Failed
    BY DEF SteerRows
<1>7. i \in Answered => HasFact(d, i)
    OBVIOUS
<1>8. i \in Settled \cup Failed => \A u \in d.msgs[i] : u \in linked(Settled) \/ u \in linked(Failed)
    OBVIOUS
<1>9. d.state[i] = "consumed" => i \notin Answered \cup Unanswered \cup Settled \cup Failed
    BY DEF SteerRows
<1> HIDE DEF Answered, Unanswered, Settled, Failed, linked
<1>10. i \in Settled \cup Failed /\ i \notin Answered /\ i \notin Unanswered => state(i) = "consumed"
    OBVIOUS
<1>16. i \notin Answered \cup Unanswered \cup Settled \cup Failed => state(i) = d.state[i]
    OBVIOUS
<1>17. i \in Unanswered /\ i \notin Answered /\ i \notin Settled \cup Failed => state(i) = "pending"
    OBVIOUS
<1>11. \A u : u \in linked(Settled) \/ u \in linked(Failed) => status(u) \in {"sent", "error"}
    OBVIOUS
<1>12. d.status[i] # status(i) => status(i) \in {"sent", "error"}
    OBVIOUS
<1> HIDE DEF state, status
<1>13. d.mode[i] = "steer" /\ d.state[i] \in {"pending", "claimed"} =>
             state(i) = "consumed" /\ \A u \in d.msgs[i] : status(u) \in {"sent", "error"}
    BY <1>2, <1>3, <1>4, <1>8, <1>10, <1>11
<1>14. d.mode[i] = "steer" /\ d.state[i] = "consumed" => state(i) = "consumed"
    BY <1>9, <1>16
<1>15. d.state[i] \in ActiveStates /\ d.mode[i] = "queue" => state(i) \in ActiveStates \/ HasFact(d, i)
    BY <1>5, <1>6, <1>7, <1>16, <1>17 DEF ActiveStates, WaitingStates
<1> QED
    BY <1>2, <1>5, <1>12, <1>13, <1>14, <1>15

LEMMA RecoverStory ==
    ASSUME NEW d \in Databases
    PROVE  LET e == Recover(d)
           IN  /\ Placed(d) => Placed(e)
               /\ \A n : SteerRowsStand(d, n) => SteerRowsStand(e, n)
               /\ LinksOwn(d) => LinksOwn(e)
               /\ \A n : \A S \in SUBSET Inputs :
                      SteerRowsStand(d, n) /\ LinksOwn(d) /\ Present(d, S) => Present(e, S)
<1> DEFINE e == Recover(d)
<1>1. /\ e.seq = d.seq /\ e.receipt = d.receipt /\ e.tail = d.tail /\ e.mode = d.mode
      /\ \A i \in Inputs :
           /\ d.mode[i] = "steer" /\ d.state[i] \in {"pending", "claimed"} =>
                 e.state[i] = "consumed" /\ \A u \in d.msgs[i] : e.status[u] \in {"sent", "error"}
           /\ d.mode[i] = "steer" /\ d.state[i] = "consumed" => e.state[i] = "consumed"
           /\ d.mode[i] = "steer" => e.msgs[i] = d.msgs[i]
           /\ d.status[i] # e.status[i] => e.status[i] \in {"sent", "error"}
           /\ e.msgs[i] \in {d.msgs[i], {}}
           /\ d.state[i] \in ActiveStates /\ d.mode[i] = "queue" =>
                 e.state[i] \in ActiveStates \/ HasFact(d, i)
    BY RecoverEffect
<1>2. \A i \in Inputs : /\ d.state[i] = "none" => e.state[i] = "none"
                        /\ e.state[i] \in {"none", "pending", "consumed", d.state[i]}
                        /\ d.mode[i] = "queue" /\ e.state[i] \in {"pending", "blocked"}
                           => i \in HeldByRestart(d)
    BY RecoverRows
<1> HIDE DEF e
<1>3. ASSUME Placed(d) PROVE Placed(e)
  <2>1. ASSUME NEW u \in Inputs, IsUnread(e, u) PROVE FALSE
    <3>1. IsUnread(d, u)
        BY <1>1, <2>1 DEF IsUnread, Exists
    <3>2. PICK j \in Inputs : IsOpenSteer(d, j) /\ u \in d.msgs[j]
        BY <1>3, <3>1 DEF Placed
    <3> QED
        BY <1>1, <2>1, <3>2 DEF IsUnread, IsOpenSteer
  <2> QED
      BY <1>1, <1>3, <2>1 DEF Placed
<1>4. ASSUME NEW n, SteerRowsStand(d, n) PROVE SteerRowsStand(e, n)
  <2> SUFFICES ASSUME NEW j \in Inputs, e.mode[j] = "steer" PROVE SteerStanding(e, n, j)
      BY DEF SteerRowsStand
  <2>1. SteerStanding(d, n, j) /\ d.mode[j] = "steer" /\ d.msgs[j] \subseteq Inputs
      BY <1>1, <1>4, DatabaseFacts DEF SteerRowsStand
  <2>2. e.msgs[j] = d.msgs[j] /\ e.state[j] = "consumed"
      BY <1>1, <2>1 DEF SteerStanding
  <2>3. ASSUME NEW u \in d.msgs[j]
        PROVE  /\ Exists(e, u) /\ u <= n /\ ReceiptFits(e, e.state[j], u)
               /\ u # j => e.state[u] = "none"
    <3>1. u \in Inputs /\ Exists(d, u) /\ u <= n /\ ReceiptFits(d, d.state[j], u)
          /\ (u # j => d.state[u] = "none")
        BY <2>1 DEF SteerStanding
    <3>2. e.status[u] \in {"sent", "error"}
        BY <1>1, <2>1, <3>1 DEF SteerStanding, ReceiptFits
    <3> QED
        BY <1>1, <1>2, <2>2, <3>1, <3>2 DEF ReceiptFits, Exists
  <2>4. \A k \in Inputs \ {j} : e.mode[k] = "steer" => e.msgs[j] \cap e.msgs[k] = {}
      BY <1>1, <2>1, <2>2 DEF SteerStanding
  <2> QED
      BY <2>1, <2>2, <2>3, <2>4 DEF SteerStanding
<1>5. ASSUME LinksOwn(d) PROVE LinksOwn(e)
  <2> SUFFICES ASSUME NEW i \in QueueRows(e) PROVE e.msgs[i] \subseteq {i}
      BY DEF LinksOwn
  <2>1. i \in Inputs /\ d.mode[i] = "queue" /\ e.state[i] \in ActiveStates
      BY <1>1 DEF QueueRows
  <2>2. i \in QueueRows(d)
      BY <1>2, <2>1 DEF QueueRows, HeldByRestart, ActiveStates, WaitingStates
  <2> QED
      BY <1>1, <1>5, <2>1, <2>2 DEF LinksOwn
<1>6. ASSUME NEW n, NEW S \in SUBSET Inputs, SteerRowsStand(d, n), LinksOwn(d), Present(d, S)
      PROVE  Present(e, S)
  <2> SUFFICES ASSUME NEW u \in S, ~Exists(d, u) PROVE e.state[u] \in ActiveStates
      BY <1>1 DEF Present, Exists
  <2>1. d.state[u] \in ActiveStates /\ u \in Inputs
      BY <1>6 DEF Present
  <2>2. d.mode[u] = "queue"
      BY <1>6, <2>1, DatabaseFacts DEF SteerRowsStand, SteerStanding
  <2>3. ~HasFact(d, u)
      BY <1>6, <2>1, <2>2 DEF LinksOwn, QueueRows, HasFact
  <2> QED
      BY <1>1, <2>1, <2>2, <2>3
<1> QED
    BY <1>3, <1>4, <1>5, <1>6 DEF e

-----------------------------------------------------------------------------
(* Where no message is unread. *)

\* A set of inputs that is not empty has a least member: the queue whose rows they are,
\* each in its own place, can be numbered from 1.
LEMMA LeastInput ==
    ASSUME NEW S \in SUBSET Inputs, S # {}
    PROVE  \E x \in S : \A y \in S : x <= y
<1> DEFINE d == [EmptyDatabase EXCEPT
                    !.state = [i \in Inputs |-> IF i \in S THEN "pending" ELSE "none"],
                    !.order = [i \in Inputs |-> i]]
           ahead(x) == {j \in S : j <= x}
<1>1. d \in Databases /\ d.order = [i \in Inputs |-> i]
      /\ d.mode = [i \in Inputs |-> "queue"]
      /\ d.state = [i \in Inputs |-> IF i \in S THEN "pending" ELSE "none"]
  <2>1. [i \in Inputs |-> i] \in [Inputs -> Nat]
      BY DatabaseFacts, EmptyDatabaseType
  <2> QED
      BY <2>1, EmptyDatabaseType DEF EmptyDatabase, Databases, RowStates
<1> HIDE DEF d
<1>2. QueueRows(d) = S
    BY <1>1 DEF QueueRows, ActiveStates, WaitingStates
<1>3. DenseOrder(Resequence(d))
    BY <1>1, ResequenceIsDense DEF Ordered, QueueRows
<1>4. QueueRows(Resequence(d)) = S /\ \A x \in S : Resequence(d).order[x] = Cardinality(ahead(x))
  <2>1. Resequence(d).order = [i \in Inputs |->
                IF i \in S THEN Cardinality({j \in S : d.order[j] <= d.order[i]}) ELSE 0]
        /\ Resequence(d).mode = d.mode /\ Resequence(d).state = d.state
      BY <1>1, <1>2 DEF Resequence, Databases
  <2>2. QueueRows(Resequence(d)) = S
      BY <1>2, <2>1 DEF QueueRows
  <2>3. \A x \in S : {j \in S : d.order[j] <= d.order[x]} = ahead(x)
      BY <1>1
  <2> QED
      BY <2>1, <2>2, <2>3
<1>5. IsFiniteSet(S) /\ Cardinality(S) \in Nat \ {0}
    BY InputSetsAreFinite, FS_EmptySet
<1>6. 1 \in 1 .. Cardinality(S)
    BY <1>5
<1>7. PICK x \in S : Cardinality(ahead(x)) = 1
  <2> HIDE DEF ahead
  <2> QED
      BY <1>3, <1>4, <1>6 DEF DenseOrder
<1>8. x \in ahead(x) /\ ahead(x) \in SUBSET Inputs
    BY DatabaseFacts, EmptyDatabaseType
<1>9. \A y \in ahead(x) : y = x
    BY <1>7, <1>8, InputSetsAreFinite, FS_Singleton
<1> QED
    BY <1>9, DatabaseFacts, EmptyDatabaseType

\* The rows a claim looks for first: when it finds no steer row, none waits, and so no
\* message is unread.
LEMMA NoSteerNoUnread ==
    ASSUME OwnershipInvariant, ClaimInvariant, Placed(db), NextSteer(db) = {}
    PROVE  \A u \in Inputs : ~IsUnread(db, u)
<1> USE AdmissionFacts
<1>1. WaitingSteer(db) \in SUBSET Inputs /\ \A j \in WaitingSteer(db) : db.state[j] = "pending"
    BY DEF WaitingSteer, ClaimStanding
<1>2. WaitingSteer(db) = {}
  <2> SUFFICES ASSUME WaitingSteer(db) # {} PROVE FALSE
      OBVIOUS
  <2>1. PICK x \in WaitingSteer(db) : \A y \in WaitingSteer(db) : x <= y
      BY <1>1, LeastInput
  <2> QED
      BY <1>1, <2>1 DEF NextSteer
<1> QED
    BY <1>2 DEF Placed, IsOpenSteer, WaitingSteer

-----------------------------------------------------------------------------
(* Steps by what they do to the text of the turn under way. *)

\* The submissions that must be somewhere.
Owed == hist.accepted \ hist.withdrawn

\* What is known of the rows and messages of d after n submissions, if those of S are owed.
Tale(d, n, S) == SteerRowsStand(d, n) /\ LinksOwn(d) /\ Present(d, S)

\* No provider error rolls a steer message back, and the tale was true: then it still is.
StoryKept == NoSteerRolledBack /\ TranscriptInvariant => TranscriptInvariant'

LEMMA StoryByDatabase ==
    ASSUME NoSteerRolledBack /\ TranscriptInvariant =>
              /\ SteerRowsStand(db', hist'.submitted)
              /\ LinksOwn(db')
              /\ Present(db', Owed')
    PROVE  StoryKept
<1>1. (SteerRowsStand(db, hist.submitted))' <=> SteerRowsStand(db', hist'.submitted)
    BY DEF SteerRowsStand, SteerStanding, Exists, ReceiptFits
<1>2. (LinksOwn(db))' <=> LinksOwn(db')
    BY DEF LinksOwn, QueueRows
<1>3. (Present(db, hist.accepted \ hist.withdrawn))' <=> Present(db', Owed')
    BY DEF Present, Exists, Owed
<1> QED
    BY <1>1, <1>2, <1>3 DEF StoryKept, TranscriptInvariant

\* A row that runs nothing has no text to speak of.
LEMMA BoundaryByRuns ==
    ASSUME Placed(db'), \A i \in Inputs : EmptyLink(i)',
           \A i \in Inputs : (i \in Running)' /\ turn'[i].source # "steer" => TextStanding(i)'
    PROVE  BoundaryInvariant'
<1>1. Placed(db)' <=> Placed(db')
    BY DEF Placed, IsUnread, Exists, IsOpenSteer
<1>2. ASSUME NEW i \in Inputs, ~(i \in Running)' \/ turn'[i].source = "steer" PROVE TextStanding(i)'
    BY <1>2, NoneIsNoRun DEF TextStanding, Running, PreStream
<1> QED
    BY <1>1, <1>2 DEF BoundaryInvariant

\* The run goes on in the same stage, perhaps stopped, and no message changes.
LEMMA TextByKeeping ==
    ASSUME NEW i \in Inputs, TextStanding(i), TurnKept(i),
           turn'[i].signal \in {turn[i].signal, "stopped"},
           turn'[i].signal = "live" /\ inst.controller = i => inst'.controller = i,
           MessagesKept(db, db'), db'.msgs[i] = db.msgs[i]
    PROVE  TextStanding(i)'
<1>1. \A u : (IsUnread(db, u)' <=> IsUnread(db, u)) /\ (Exists(db, u)' <=> Exists(db, u))
    BY DEF MessagesKept, IsUnread, Exists
<1>2. db'.seq = db.seq
    BY DEF MessagesKept
<1>3. turn[i].source = "steer" \/ (turn[i].source # "steer" /\ turn'[i].source # "steer")
    BY DEF TurnKept
<1>4. CASE turn[i].source = "steer"
    BY <1>4 DEF TextStanding, TurnKept
<1>5. CASE turn[i].source # "steer" /\ turn'[i].source # "steer"
    BY <1>1, <1>2, <1>5 DEF TextStanding, TurnKept
<1> QED
    BY <1>3, <1>4, <1>5

\* What every proof about a step starts from.
LEMMA BoundaryFacts ==
    ASSUME OwnershipInvariant, OwnershipInvariant', ClaimInvariant, BoundaryInvariant
    PROVE  /\ db \in Databases /\ db' \in Databases /\ Placed(db) /\ turn \in [Runs -> Turns]
           /\ turn' \in [Runs -> Turns] /\ hist.submitted \in Nat
           /\ inst \in Instances /\ inst' \in Instances
           /\ hist \in Histories /\ hist' \in Histories
           /\ Owed \in SUBSET Inputs /\ Owed' \in SUBSET Inputs
           /\ \A i \in Inputs : /\ EmptyLink(i) /\ TextStanding(i) /\ ClaimStanding(i)
                                /\ ReplayStanding(i) /\ i \in Runs /\ i \in Nat
                                /\ db.msgs[i] \in SUBSET Inputs
                                /\ db.mode[i] \in {"queue", "steer"}
<1>1. TypeOK /\ TypeOK'
    BY DEF OwnershipInvariant
<1>2. db \in Databases /\ turn \in [Runs -> Turns] /\ hist \in Histories /\ inst \in Instances
    BY <1>1 DEF TypeOK
<1>3. db' \in Databases /\ turn' \in [Runs -> Turns] /\ hist' \in Histories /\ inst' \in Instances
    BY <1>1 DEF TypeOK
<1>4. hist.submitted \in Nat /\ Owed \in SUBSET Inputs /\ Owed' \in SUBSET Inputs
    BY <1>2, <1>3 DEF Histories, Owed
<1>5. \A i \in Inputs : i \in Nat /\ db.msgs[i] \in SUBSET Inputs /\ db.mode[i] \in {"queue", "steer"}
    BY <1>2, DatabaseFacts
<1> QED
    BY <1>2, <1>3, <1>4, <1>5, NoneIsNoRun DEF ClaimInvariant, BoundaryInvariant

\* Rows, links and messages stay as they are.
LEMMA QuietStory ==
    ASSUME OwnershipInvariant, OwnershipInvariant', ClaimInvariant, BoundaryInvariant,
           Untouched(db, db'),
           \A j \in Inputs : (j \in Running)' /\ turn'[j].source # "steer" =>
               /\ TurnKept(j) /\ turn'[j].signal \in {turn[j].signal, "stopped"}
               /\ turn'[j].signal = "live" /\ inst.controller = j => inst'.controller = j,
           \A j \in Inputs : Promoting(j)' => Promoting(j),
           hist'.submitted = hist.submitted, Owed' \subseteq Owed
    PROVE  BoundaryInvariant' /\ StoryKept
<1> USE BoundaryFacts
<1>1. MessagesKept(db, db') /\ RowsKept(db, db') /\ db'.msgs = db.msgs
    BY DEF Untouched
<1>2. Placed(db')
    BY UntouchedStory
<1>3. \A j \in Inputs : EmptyLink(j)'
    BY <1>1 DEF EmptyLink, RowsKept, WaitingQueue, QueueRows
<1>4. BoundaryInvariant'
    BY <1>1, <1>2, <1>3, TextByKeeping, BoundaryByRuns
<1>5. StoryKept
  <2>1. ASSUME TranscriptInvariant
        PROVE  SteerRowsStand(db', hist'.submitted) /\ LinksOwn(db') /\ Present(db', Owed')
    <3>1. SteerRowsStand(db, hist.submitted) /\ LinksOwn(db) /\ Present(db, Owed)
        BY <2>1 DEF TranscriptInvariant, Owed
    <3>2. SteerRowsStand(db', hist.submitted) /\ LinksOwn(db') /\ Present(db', Owed)
        BY <3>1, UntouchedStory
    <3> QED
        BY <3>2 DEF Present
  <2> QED
      BY <2>1, StoryByDatabase
<1> QED
    BY <1>4, <1>5

\* One queue row that runs nothing is written, and linked to no message.
LEMMA RowBoundary ==
    ASSUME OwnershipInvariant, OwnershipInvariant', ClaimInvariant, BoundaryInvariant,
           NEW i \in Inputs, db.mode[i] = "queue" \/ db.state[i] = "none", i \notin Running,
           NEW s, RowWritten(db, db', i, s, "queue"), MessagesKept(db, db'),
           LinkWritten(db, db', i, {}), turn' = turn, inst'.controller = inst.controller,
           \A j \in Inputs \ {i} : Promoting(j)' => Promoting(j)
    PROVE  BoundaryInvariant'
<1> USE BoundaryFacts
<1>1. Placed(db')
    BY QueueRowPlaced
<1>2. \A j \in Inputs : EmptyLink(j)'
    BY DEF EmptyLink, RowWritten, LinkWritten, WaitingQueue, QueueRows
<1>3. ASSUME NEW j \in Inputs, (j \in Running)' PROVE TextStanding(j)'
  <2>1. j # i /\ TurnKept(j) /\ turn'[j].signal = turn[j].signal
      BY <1>3 DEF Running, TurnKept
  <2>2. db'.msgs[j] = db.msgs[j]
      BY <2>1 DEF LinkWritten
  <2> QED
      BY <2>1, <2>2, TextByKeeping
<1> QED
    BY <1>1, <1>2, <1>3, BoundaryByRuns

LEMMA RowStory ==
    ASSUME OwnershipInvariant, OwnershipInvariant', ClaimInvariant, BoundaryInvariant,
           NEW i \in Inputs, db.mode[i] = "queue",
           NEW s, RowWritten(db, db', i, s, "queue"), MessagesKept(db, db'),
           LinkWritten(db, db', i, {}), hist'.submitted = hist.submitted, Owed' \subseteq Owed,
           db.state[i] # "none", s \in ActiveStates \/ i \notin Owed'
    PROVE  StoryKept
<1> USE BoundaryFacts
<1>1. ASSUME TranscriptInvariant
      PROVE  SteerRowsStand(db', hist'.submitted) /\ LinksOwn(db') /\ Present(db', Owed')
  <2>1. SteerRowsStand(db, hist.submitted) /\ LinksOwn(db) /\ Present(db, Owed')
      BY <1>1 DEF TranscriptInvariant, Owed, Present
  <2>2. SteerRowsStand(db', hist.submitted) /\ LinksOwn(db') /\ Present(db', Owed')
      BY <2>1, QueueRowStory
  <2> QED
      BY <2>2
<1> QED
    BY <1>1, StoryByDatabase

-----------------------------------------------------------------------------
(* Admission: what waits, and what is edited. *)

\* An edit, a deletion, a decision or a Retry of row i, which waits.
LEMMA EditStory ==
    ASSUME OwnershipInvariant, OwnershipInvariant', ClaimInvariant, BoundaryInvariant,
           NEW i \in Inputs, Update(i) \/ Delete(i) \/ ResolveBlocked(i) \/ Retry(i)
    PROVE  BoundaryInvariant' /\ StoryKept
<1> USE BoundaryFacts
<1>1. db.state[i] \in WaitingStates /\ db.mode[i] = "queue"
    BY DEF Update, Delete, ResolveBlocked, Retry, WaitingQueue, QueueRows, WaitingStates, ClaimStanding
<1>2. i \notin Running /\ db.state[i] # "none" /\ db.msgs[i] = {}
    BY <1>1, WaitingRow
    DEF EmptyLink, WaitingQueue, QueueRows, WaitingStates, ActiveStates, OwnershipInvariant
<1>3. turn' = turn /\ inst' = inst /\ \A j \in Inputs : Promoting(j)' => Promoting(j)
    BY DEF Update, Delete, ResolveBlocked, Retry, Promoting, OwnershipInvariant, TypeOK, Calls
<1>4. hist'.submitted = hist.submitted /\ Owed' \subseteq Owed /\ (Delete(i) => i \notin Owed')
  <2>1. Approve({i}).submitted = hist.submitted /\ Approve({i}).accepted = hist.accepted
        /\ Approve({i}).withdrawn = hist.withdrawn /\ Approve({i}) \in Histories
      BY DEF Approve, Histories
  <2>2. CASE Delete(i)
    <3>1. hist' = [Approve({i}) EXCEPT !.withdrawn = @ \cup {i}]
        BY <2>2 DEF Delete
    <3>2. hist'.submitted = hist.submitted /\ hist'.accepted = hist.accepted
          /\ hist'.withdrawn = hist.withdrawn \cup {i}
        BY <2>1, <3>1 DEF Histories
    <3> QED
        BY <3>2 DEF Owed
  <2>3. CASE ~Delete(i)
    <3>1. hist' = hist \/ hist' = Approve({i})
        BY <2>3 DEF Update, ResolveBlocked, Retry
    <3> QED
        BY <2>1, <2>3, <3>1 DEF Owed
  <2> QED
      BY <2>2, <2>3
<1>5. PICK s : /\ RowWritten(db, db', i, s, "queue") /\ MessagesKept(db, db')
               /\ LinkWritten(db, db', i, {})
               /\ s \in ActiveStates \/ Delete(i)
  <2>1. CASE Delete(i)
      BY <1>1, <2>1, DeleteRowRows, DeleteRowLeavesMessages DEF Delete
  <2>2. CASE Update(i) \/ ResolveBlocked(i) \/ Retry(i)
    <3>1. db' = SetState(db, i, "pending")
        BY <2>2 DEF Update, ResolveBlocked, Retry
    <3>2. "pending" \in ActiveStates
        BY DEF ActiveStates, WaitingStates
    <3> QED
        BY <1>1, <1>2, <3>1, <3>2, RowsOf, RowsLeaveMessages
  <2> QED
      BY <2>1, <2>2
<1>6. BoundaryInvariant'
    BY <1>1, <1>2, <1>3, <1>5, RowBoundary
<1>7. StoryKept
    BY <1>1, <1>2, <1>4, <1>5, RowStory
<1> QED
    BY <1>6, <1>7

\* A row is taken for promotion, blocked, or given up for Retry.
LEMMA PromotionStory ==
    ASSUME OwnershipInvariant, OwnershipInvariant', ClaimInvariant, BoundaryInvariant,
           (\E i \in Inputs : PromoteClaim(i)) \/ PromoteBlock \/ PromoteFail
    PROVE  BoundaryInvariant' /\ StoryKept
<1> USE BoundaryFacts
<1>1. turn' = turn /\ inst' = inst /\ hist' = hist /\ Owed' = Owed
    BY DEF PromoteClaim, PromoteBlock, PromoteFail, Owed
<1>2. PICK i \in Inputs, s \in {"claimed", "blocked", "retry_required"} :
          /\ db.mode[i] = "queue" /\ i \notin Running /\ db.state[i] # "none" /\ db.msgs[i] = {}
          /\ db' = SetState(db, i, s) \/ db' = Release(db, i, s)
          /\ \A j \in Inputs \ {i} : Promoting(j)' => Promoting(j)
  <2>1. ASSUME NEW i \in Inputs, PromoteClaim(i)
        PROVE  /\ db.mode[i] = "queue" /\ i \notin Running /\ db.state[i] # "none" /\ db.msgs[i] = {}
               /\ db' = SetState(db, i, "claimed")
               /\ \A j \in Inputs \ {i} : Promoting(j)' => Promoting(j)
    <3>1. db.mode[i] = "queue" /\ db.state[i] = "pending" /\ db' = SetState(db, i, "claimed")
        BY <2>1 DEF PromoteClaim
    <3>2. i \notin Running
        BY <3>1, WaitingRow DEF WaitingStates, OwnershipInvariant
    <3>3. db.msgs[i] = {}
        BY <3>1 DEF EmptyLink, WaitingQueue, QueueRows, WaitingStates, ActiveStates
    <3>4. call'.item = i
        BY <2>1 DEF PromoteClaim, OwnershipInvariant, TypeOK, Calls
    <3> QED
        BY <3>1, <3>2, <3>3, <3>4 DEF Promoting
  <2>2. CASE PromoteBlock \/ PromoteFail
    <3>1. PICK i \in Inputs : i = call.item
        BY <2>2 DEF PromoteBlock, PromoteFail, OwnershipInvariant, LaneKnowsItem
    <3>2. Promoting(i) /\ call'.lane = "free"
        BY <2>2, <3>1
        DEF PromoteBlock, PromoteFail, Promoting, EndPromotion, OwnershipInvariant, TypeOK, Calls
    <3>3. /\ db.mode[i] = "queue" /\ i \notin Running /\ db.state[i] # "none" /\ db.msgs[i] = {}
        BY <3>2 DEF ClaimStanding, EmptyLink
    <3>4. db' = SetState(db, i, "blocked") \/ db' = Release(db, i, "retry_required")
        BY <2>2, <3>1 DEF PromoteBlock, PromoteFail
    <3>5. \A j \in Inputs \ {i} : Promoting(j)' => Promoting(j)
        BY <3>2 DEF Promoting
    <3> QED
        BY <3>3, <3>4, <3>5
  <2> QED
      BY <2>1, <2>2
<1>3. RowWritten(db, db', i, s, "queue") /\ MessagesKept(db, db') /\ LinkWritten(db, db', i, {})
    BY <1>2, RowsOf, RowsLeaveMessages
<1>4. s \in ActiveStates
    BY DEF ActiveStates, WaitingStates
<1>5. BoundaryInvariant'
    BY <1>1, <1>2, <1>3, RowBoundary
<1>6. StoryKept
    BY <1>1, <1>2, <1>3, <1>4, RowStory
<1> QED
    BY <1>5, <1>6

-----------------------------------------------------------------------------
(* Launch. *)

LEMMA ConsumeEffect ==
    ASSUME NEW d \in Databases, NEW i \in Inputs
    PROVE  LET e == Consume(d, i)
           IN  /\ e.seq = d.seq /\ \A j \in Inputs \ {i} : e.msgs[j] = d.msgs[j]
               /\ \A u \in Inputs : IsUnread(e, u) => IsUnread(d, u)
<1> DEFINE e == Consume(d, i)
<1>1. CASE d.mode[i] = "steer"
  <2>1. e.seq = d.seq /\ e.receipt = d.receipt /\ e.msgs = d.msgs
        /\ e.status = [u \in Inputs |-> IF u \in d.msgs[i] THEN "sent" ELSE d.status[u]]
      BY <1>1 DEF Consume, SetMessages, SetState, Databases
  <2> HIDE DEF e
  <2> QED
      BY <2>1 DEF IsUnread, Exists, e
<1>2. CASE d.mode[i] # "steer"
  <2>1. e = DeleteRow(d, i)
      BY <1>2 DEF Consume
  <2>2. MessagesKept(d, e) /\ LinkWritten(d, e, i, {})
      BY <2>1, DeleteRowLeavesMessages
  <2> HIDE DEF e
  <2> QED
      BY <2>2 DEF MessagesKept, LinkWritten, IsUnread, Exists, e
<1> QED
    BY <1>1, <1>2

\* A launched queue turn finds no unread message and has no text yet; a launch that throws
\* leaves a row for Retry, or a settled steer.
LEMMA LaunchStory ==
    ASSUME OwnershipInvariant, OwnershipInvariant', ClaimInvariant, BoundaryInvariant,
           pump.lease # "turn", ~HasClaimed(db), call'.lane = call.lane, call'.item = call.item,
           NEW d \in Databases, NEW i \in Inputs, NEW source, Launch(d, i, source),
           RowWritten(db, d, i, "claimed", d.mode[i]), \A j \in Inputs \ {i} : d.msgs[j] = db.msgs[j],
           source = "steer" <=> d.mode[i] = "steer", Placed(d),
           source # "steer" => d.msgs[i] = {} /\ \A u \in Inputs : ~IsUnread(d, u),
           NoSteerRolledBack /\ TranscriptInvariant =>
               SteerRowsStand(d, hist'.submitted) /\ LinksOwn(d) /\ Present(d, Owed')
    PROVE  BoundaryInvariant' /\ StoryKept
<1> USE BoundaryFacts
<1>1. \A j \in Inputs : turn[j].stage = "none" /\ ~Promoting(j) /\ ~Promoting(j)'
    BY RestedRows DEF OwnershipInvariant, HasClaimed, ClaimStanding, Promoting
<1>2. d.state[i] = "claimed" /\ d.mode[i] \in {"queue", "steer"}
    BY DatabaseFacts DEF RowWritten
<1>3. \A j \in Inputs \ {i} : j \in WaitingQueue(d) => d.msgs[j] = {}
    BY DEF RowWritten, EmptyLink, WaitingQueue, QueueRows
<1>4. \A j \in Inputs \ {i} : turn'[j].stage = "none"
    BY <1>1 DEF Launch
<1>5. CASE /\ db' = d
           /\ inst' = [status |-> "generating", controller |-> i, active |-> None,
                       openSteer |-> IF source = "steer" /\ inst.openSteer = i
                                     THEN None ELSE inst.openSteer]
           /\ turn' = [turn EXCEPT ![i] =
                 [stage |-> IF source = "steer" THEN "factual" ELSE "preparing",
                  source |-> source, signal |-> "live", fenced |-> FALSE, answer |-> i]]
  <2>1. \A j \in Inputs : EmptyLink(j)'
      BY <1>1, <1>2, <1>3, <1>5 DEF EmptyLink, WaitingQueue, WaitingStates
  <2>2. ASSUME source # "steer" PROVE TextStanding(i)'
    <3>1. turn'[i] = [stage |-> "preparing", source |-> source, signal |-> "live",
                      fenced |-> FALSE, answer |-> i] /\ inst'.controller = i
        BY <1>5, <2>2
    <3>2. \A u \in Inputs : ~IsUnread(db', u)
        BY <1>5, <2>2
    <3>3. db'.msgs[i] = {}
        BY <1>5, <2>2
    <3> QED
        BY <3>1, <3>2, <3>3 DEF TextStanding, InStream, IsUnread, Exists
  <2>3. turn'[i].source = source
      BY <1>5
  <2>4. \A j \in Inputs : (j \in Running)' => j = i
      BY <1>4 DEF Running, PreStream, InStream
  <2>5. BoundaryInvariant'
      BY <1>5, <2>1, <2>2, <2>3, <2>4, BoundaryByRuns
  <2>6. StoryKept
      BY <1>5, StoryByDatabase
  <2> QED
      BY <2>5, <2>6
<1>6. CASE /\ db' = IF source = "steer" THEN Consume(SetAssistant(d, i, "error"), i)
                    ELSE Release(d, i, "retry_required")
           /\ turn' = [turn EXCEPT ![i] =
                 [stage |-> "finishing", source |-> source, signal |-> "live",
                  fenced |-> TRUE, answer |-> i]]
  <2>1. \A j \in Inputs : ~(j \in Running)'
      BY <1>4, <1>6 DEF Running, PreStream, InStream
  <2>2. CASE source = "steer"
    <3> DEFINE e == SetAssistant(d, i, "error")
    <3>1. e \in Databases /\ Untouched(d, e)
        BY SetAssistantType, AnswersLeaveMessages DEF AssistantStates
    <3>2. e.mode = d.mode /\ e.state = d.state /\ e.msgs = d.msgs
        BY <3>1 DEF Untouched, RowsKept
    <3>3. db' = Consume(e, i)
        BY <1>6, <2>2
    <3> HIDE DEF e
    <3>4. Placed(db')
        BY <1>2, <2>2, <3>1, <3>2, <3>3, UntouchedStory, ConsumeStory
    <3>5. RowWritten(e, db', i, "consumed", "steer") /\ \A j \in Inputs \ {i} : db'.msgs[j] = e.msgs[j]
        BY <2>2, <3>1, <3>2, <3>3, ConsumeRows, ConsumeEffect
    <3>6. \A j \in Inputs : EmptyLink(j)'
        BY <1>1, <1>3, <3>2, <3>5 DEF EmptyLink, WaitingQueue, QueueRows, RowWritten
    <3>7. BoundaryInvariant'
        BY <2>1, <3>4, <3>6, BoundaryByRuns
    <3>8. ASSUME NEW n, SteerRowsStand(d, n), LinksOwn(d), Present(d, Owed')
          PROVE  SteerRowsStand(db', n) /\ LinksOwn(db') /\ Present(db', Owed')
      <4>1. SteerRowsStand(e, n) /\ LinksOwn(e) /\ Present(e, Owed')
          BY <3>1, <3>8, UntouchedStory
      <4> QED
          BY <1>2, <2>2, <3>1, <3>2, <3>3, <4>1, ConsumeStory
    <3>9. StoryKept
        BY <3>8, StoryByDatabase
    <3> QED
        BY <3>7, <3>9
  <2>3. CASE source # "steer"
    <3>1. db' = Release(d, i, "retry_required") /\ d.mode[i] = "queue"
        BY <1>2, <1>6, <2>3
    <3>2. "retry_required" \in ActiveStates
        BY DEF ActiveStates, WaitingStates
    <3>3. RowWritten(d, db', i, "retry_required", "queue") /\ LinkWritten(d, db', i, {})
        BY <3>1, RowsOf, RowsLeaveMessages
    <3>4. Placed(db')
        BY <1>2, <3>1, <3>2, ReleaseStory
    <3>5. \A j \in Inputs : EmptyLink(j)'
        BY <1>1, <1>3, <3>3 DEF EmptyLink, WaitingQueue, QueueRows, RowWritten, LinkWritten
    <3>6. BoundaryInvariant'
        BY <2>1, <3>4, <3>5, BoundaryByRuns
    <3>7. StoryKept
        BY <1>2, <3>1, <3>2, ReleaseStory, StoryByDatabase
    <3> QED
        BY <3>6, <3>7
  <2> QED
      BY <2>2, <2>3
<1> QED
    BY <1>5, <1>6 DEF Launch

\* More submissions than the steer rows know of.
LEMMA SteerRowsGrow ==
    ASSUME NEW d \in Databases, NEW n \in Nat, NEW m \in Nat, n <= m, SteerRowsStand(d, n)
    PROVE  SteerRowsStand(d, m)
<1> SUFFICES ASSUME NEW i \in Inputs, d.mode[i] = "steer" PROVE SteerStanding(d, m, i)
    BY DEF SteerRowsStand
<1>1. SteerStanding(d, n, i)
    BY DEF SteerRowsStand
<1>2. \A u \in d.msgs[i] : u <= n => u <= m
    BY DatabaseFacts
<1> QED
    BY <1>1, <1>2 DEF SteerStanding

\* The row of a new submission.
LEMMA EnqueueStory ==
    ASSUME OwnershipInvariant, OwnershipInvariant', ClaimInvariant, BoundaryInvariant,
           NEW u \in Inputs, u = hist.submitted + 1, hist' = Submit(u), NEW s \in ActiveStates
    PROVE  LET d == Enqueue(db, u, s)
           IN  /\ d \in Databases /\ Placed(d) /\ RowWritten(db, d, u, s, "queue")
               /\ MessagesKept(db, d) /\ LinkWritten(db, d, u, {}) /\ u \notin Running
               /\ db.state[u] = "none"
               /\ TranscriptInvariant =>
                     SteerRowsStand(d, hist'.submitted) /\ LinksOwn(d) /\ Present(d, Owed')
<1> USE BoundaryFacts
<1> DEFINE d == Enqueue(db, u, s)
<1>1. Unsubmitted(u) /\ u \notin Running /\ db.state[u] = "none"
    BY FreshRow DEF OwnershipInvariant, Unsubmitted
<1>2. d \in Databases /\ RowWritten(db, d, u, s, "queue") /\ MessagesKept(db, d)
      /\ LinkWritten(db, d, u, {})
  <2>1. s \in RowStates
      BY DEF ActiveStates, WaitingStates, RowStates
  <2> QED
      BY <2>1, EnqueueType, RowsOf, RowsLeaveMessages
<1> HIDE DEF d
<1>3. Placed(d)
    BY <1>1, <1>2, QueueRowPlaced
<1>4. ASSUME TranscriptInvariant
      PROVE  SteerRowsStand(d, hist'.submitted) /\ LinksOwn(d) /\ Present(d, Owed')
  <2>1. SteerRowsStand(db, hist.submitted) /\ LinksOwn(db) /\ Present(db, Owed)
      BY <1>4 DEF TranscriptInvariant, Owed
  <2>2. db.mode[u] = "queue" /\ ~(u <= hist.submitted)
      BY <1>1, <2>1 DEF SteerRowsStand, SteerStanding
  <2>3. SteerRowsStand(d, hist.submitted) /\ LinksOwn(d) /\ Present(d, Owed)
      BY <1>2, <2>1, <2>2, QueueRowStory, ZenonT(40)
  <2>4. hist'.submitted = u /\ Owed' \subseteq Owed \cup {u}
      BY DEF Submit, Histories, Owed
  <2>5. SteerRowsStand(d, hist'.submitted)
      BY <1>2, <2>3, <2>4, SteerRowsGrow
  <2>6. d.state[u] \in ActiveStates
      BY <1>2 DEF RowWritten
  <2> QED
      BY <2>3, <2>4, <2>5, <2>6 DEF Present
<1> QED
    BY <1>1, <1>2, <1>3, <1>4 DEF d

\* A queued message: it waits, or it is started where nothing else waits.
LEMMA QueueStory ==
    ASSUME OwnershipInvariant, OwnershipInvariant', ClaimInvariant, BoundaryInvariant,
           NEW u \in Inputs, NEW src \in {"send", "queue"}, Queue(u, src)
    PROVE  BoundaryInvariant' /\ StoryKept
<1> USE BoundaryFacts
<1>1. u = hist.submitted + 1 /\ hist' = Submit(u) /\ call' = call
    BY DEF Queue
<1>2. CASE Claimable(src) /\ Launch(Enqueue(db, u, "claimed"), u, src)
  <2> DEFINE d == Enqueue(db, u, "claimed")
  <2>1. /\ d \in Databases /\ Placed(d) /\ RowWritten(db, d, u, "claimed", "queue")
        /\ MessagesKept(db, d) /\ LinkWritten(db, d, u, {})
        /\ TranscriptInvariant =>
               SteerRowsStand(d, hist'.submitted) /\ LinksOwn(d) /\ Present(d, Owed')
      BY <1>1, EnqueueStory DEF ActiveStates
  <2>2. Launch(d, u, src)
      BY <1>2
  <2> HIDE DEF d
  <2>3. pump.lease # "turn" /\ ~HasClaimed(db)
      BY <1>2 DEF Claimable
  <2>4. NextSteer(db) = {}
    <3> SUFFICES ASSUME NEW x \in NextSteer(db) PROVE FALSE
        OBVIOUS
    <3>1. x \in NextInput(db) /\ x \in Inputs /\ db.mode[x] = "steer"
        BY DEF NextInput, NextSteer, WaitingSteer
    <3>2. x \notin pump.held
        BY <3>1 DEF ReplayStanding
    <3> QED
        BY <1>2, <3>1, <3>2 DEF Claimable
  <2>5. \A v \in Inputs : ~IsUnread(d, v)
      BY <2>1, <2>4, NoSteerNoUnread DEF MessagesKept, IsUnread, Exists
  <2>6. d.mode[u] = "queue" /\ d.msgs[u] = {} /\ \A j \in Inputs \ {u} : d.msgs[j] = db.msgs[j]
      BY <2>1 DEF RowWritten, LinkWritten
  <2>7. src # "steer" /\ d.mode[u] # "steer"
      BY <2>6
  <2> QED
      BY <1>1, <2>1, <2>2, <2>3, <2>5, <2>6, <2>7, LaunchStory
<1>3. CASE db' = Enqueue(db, u, "pending") /\ UNCHANGED <<inst, turn, call>>
  <2>1. /\ RowWritten(db, db', u, "pending", "queue") /\ MessagesKept(db, db')
        /\ LinkWritten(db, db', u, {}) /\ u \notin Running /\ db.state[u] = "none"
        /\ TranscriptInvariant =>
               SteerRowsStand(db', hist'.submitted) /\ LinksOwn(db') /\ Present(db', Owed')
      BY <1>1, <1>3, EnqueueStory DEF ActiveStates, WaitingStates
  <2>2. BoundaryInvariant'
      BY <1>3, <2>1, RowBoundary DEF Promoting
  <2>3. StoryKept
      BY <2>1, StoryByDatabase
  <2> QED
      BY <2>2, <2>3
<1> QED
    BY <1>2, <1>3 DEF Queue

\* A drain claims the next row; a queue row is next only where no steer row waits.
LEMMA DrainLaunchStory ==
    ASSUME OwnershipInvariant, OwnershipInvariant', ClaimInvariant, BoundaryInvariant,
           NEW i \in Inputs, DrainLaunch(i)
    PROVE  BoundaryInvariant' /\ StoryKept
<1> USE BoundaryFacts
<1> DEFINE d == Claim(db, i)
           source == IF db.mode[i] = "steer" THEN "steer" ELSE "queue"
<1>1. /\ Launch(d, i, source) /\ hist' = hist /\ call'.lane = call.lane /\ call'.item = call.item
      /\ pump.lease # "turn" /\ ~HasClaimed(db) /\ i \in NextInput(db)
    BY DEF DrainLaunch, DrainReady, Drainable, OwnershipInvariant, TypeOK, Calls
<1>2. d \in Databases /\ RowWritten(db, d, i, "claimed", db.mode[i])
    BY ClaimType, ClaimRows
<1>3. d.mode[i] = db.mode[i] /\ (source = "steer" <=> d.mode[i] = "steer")
    BY <1>2 DEF RowWritten
<1>4. db.state[i] = "pending"
    BY <1>1 DEF NextInput, NextSteer, NextQueue
<1>5. d.msgs = db.msgs
    BY DEF Claim, ClaimSteer, SetState, WriteAssistant, Databases
<1>6. Owed' = Owed
    BY <1>1 DEF Owed
<1>7. CASE db.mode[i] = "steer"
  <2>1. /\ Placed(d)
        /\ \A n : SteerRowsStand(db, n) => SteerRowsStand(d, n)
        /\ LinksOwn(db) => LinksOwn(d)
        /\ Present(db, Owed) => Present(d, Owed)
      BY <1>4, <1>7, ClaimSteerStory
  <2>2. source = "steer"
      BY <1>7
  <2>3. TranscriptInvariant =>
            SteerRowsStand(d, hist'.submitted) /\ LinksOwn(d) /\ Present(d, Owed')
      BY <1>1, <1>6, <2>1 DEF TranscriptInvariant, Owed
  <2> HIDE DEF d, source
  <2> QED
      BY <1>1, <1>2, <1>3, <1>5, <2>1, <2>2, <2>3, LaunchStory
<1>8. CASE db.mode[i] # "steer"
  <2>1. d = SetState(db, i, "claimed") /\ db.mode[i] = "queue"
      BY <1>8 DEF Claim
  <2>2. MessagesKept(db, d)
      BY <2>1, RowsLeaveMessages
  <2>3. d.msgs[i] = {}
      BY <1>4, <1>5, <2>1 DEF EmptyLink, WaitingQueue, QueueRows, ActiveStates, WaitingStates
  <2>4. NextSteer(db) = {}
    <3>1. i \notin NextSteer(db)
        BY <1>8 DEF NextSteer, WaitingSteer
    <3> QED
        BY <1>1, <3>1 DEF NextInput
  <2>5. \A v \in Inputs : ~IsUnread(d, v)
      BY <2>2, <2>4, NoSteerNoUnread DEF MessagesKept, IsUnread, Exists
  <2>6. /\ Placed(d)
        /\ LinksOwn(db) => /\ \A n : SteerRowsStand(db, n) => SteerRowsStand(d, n)
                           /\ LinksOwn(d)
                           /\ Present(db, Owed) => Present(d, Owed)
      BY <1>4, <2>1, SetStateStory DEF ActiveStates, WaitingStates
  <2>7. TranscriptInvariant =>
            SteerRowsStand(d, hist'.submitted) /\ LinksOwn(d) /\ Present(d, Owed')
      BY <1>1, <1>6, <2>6 DEF TranscriptInvariant, Owed
  <2> HIDE DEF d, source
  <2> QED
      BY <1>1, <1>2, <1>3, <1>5, <2>3, <2>5, <2>6, <2>7, LaunchStory
<1> QED
    BY <1>7, <1>8

-----------------------------------------------------------------------------
(* Steps that write no row and no user message. *)

LEMMA IdleStory ==
    ASSUME OwnershipInvariant, OwnershipInvariant', ClaimInvariant, BoundaryInvariant,
           \/ \E i, j \in Inputs : Move(i, j)
           \/ \E i \in Inputs : ResumeQueue(i) \/ SteerPrepare(i)
           \/ SteerDrop \/ DrainIdle \/ NextIfReady
    PROVE  BoundaryInvariant' /\ StoryKept
<1> USE BoundaryFacts
<1>1. turn' = turn /\ inst' = inst
    BY DEF Move, ResumeQueue, SteerPrepare, SteerDrop, DrainIdle, NextIfReady
<1>2. Untouched(db, db')
  <2>1. ASSUME NEW i \in Inputs, NEW j \in Inputs, Move(i, j) PROVE Untouched(db, db')
      BY <2>1, MovesRows, MovesLeaveMessages DEF Move, Untouched
  <2>2. CASE db' = db
      BY <2>2, AnswersLeaveMessages
  <2> QED
      BY <2>1, <2>2 DEF ResumeQueue, SteerPrepare, SteerDrop, DrainIdle, NextIfReady
<1>3. hist'.submitted = hist.submitted /\ Owed' = Owed
  <2>1. hist' = hist \/ hist' = Approve(WaitingQueue(db))
      BY DEF Move, ResumeQueue, SteerPrepare, SteerDrop, DrainIdle, NextIfReady
  <2> QED
      BY <2>1 DEF Approve, Histories, Owed
<1>4. \A j \in Inputs : Promoting(j)' => Promoting(j)
  <2>1. (call'.lane = call.lane /\ call'.item = call.item) \/ call'.lane # "promote"
    <3>1. call \in Calls
        BY DEF OwnershipInvariant, TypeOK
    <3>2. ASSUME NEW i \in Inputs, ResumeQueue(i) PROVE call'.lane = call.lane /\ call'.item = call.item
        BY <3>1, <3>2 DEF ResumeQueue, Calls
    <3>3. ASSUME DrainIdle PROVE call'.lane = call.lane /\ call'.item = call.item
        BY <3>1, <3>3 DEF DrainIdle, Calls
    <3>4. ASSUME NEW i \in Inputs, SteerPrepare(i) PROVE call'.lane # "promote"
        BY <3>4 DEF SteerPrepare
    <3>5. ASSUME SteerDrop PROVE call'.lane # "promote"
        BY <3>5 DEF SteerDrop, NoCall
    <3>6. ASSUME NextIfReady \/ \E i, j \in Inputs : Move(i, j) PROVE call' = call
        BY <3>6 DEF NextIfReady, Move
    <3> QED
        BY <3>2, <3>3, <3>4, <3>5, <3>6
  <2> QED
      BY <2>1 DEF Promoting
<1>5. \A j \in Inputs : TurnKept(j) /\ turn'[j].signal = turn[j].signal
    BY <1>1 DEF TurnKept
<1> QED
    BY <1>1, <1>2, <1>3, <1>4, <1>5, QuietStory

\* The finally block of a turn, which runs nothing any more.
LEMMA FinalizeStory ==
    ASSUME OwnershipInvariant, OwnershipInvariant', ClaimInvariant, BoundaryInvariant,
           NEW i \in Inputs, Finalize(i)
    PROVE  BoundaryInvariant' /\ StoryKept
<1> USE BoundaryFacts
<1>1. turn' = [turn EXCEPT ![i] = NoTurn] /\ UNCHANGED <<db, inst, call, hist>>
    BY DEF Finalize
<1>2. Untouched(db, db')
    BY <1>1, AnswersLeaveMessages
<1>3. ~(i \in Running)' /\ \A j \in Inputs \ {i} : turn'[j] = turn[j]
    BY <1>1 DEF Running, NoTurn, PreStream, InStream
<1> QED
    BY <1>1, <1>2, <1>3, QuietStory DEF Owed, Promoting, TurnKept

\* Stop: the run is told, or a session that waits for an answer is settled.
LEMMA CancelStory ==
    ASSUME OwnershipInvariant, OwnershipInvariant', ClaimInvariant, BoundaryInvariant, Cancel
    PROVE  BoundaryInvariant' /\ StoryKept
<1> USE BoundaryFacts
<1>1. UNCHANGED <<call, hist>>
    BY DEF Cancel
<1>2. Untouched(db, db')
  <2>1. CASE db' = db
      BY <2>1, AnswersLeaveMessages
  <2>2. ASSUME NEW a, db' = [db EXCEPT !.astatus = a] PROVE Untouched(db, db')
      BY <2>2, DatabaseFacts DEF Untouched, RowsKept, MessagesKept, Databases
  <2> QED
      BY <2>1, <2>2 DEF Cancel
<1>3. turn' = turn \/ (\E r : turn' = Stopped(r))
    BY DEF Cancel
<1>4. \A j \in Inputs : TurnKept(j) /\ turn'[j].signal \in {turn[j].signal, "stopped"}
    BY <1>3 DEF TurnKept, Stopped, Turns
<1>5. \A j \in Inputs : turn'[j].signal = "live" /\ inst.controller = j => inst'.controller = j
  <2>1. CASE inst.active # None
      BY <2>1 DEF Cancel
  <2>2. CASE inst.active = None /\ inst.controller # None
    <3>1. turn' = Stopped(inst.controller)
        BY <2>2 DEF Cancel
    <3>2. ASSUME NEW j \in Inputs, j = inst.controller PROVE turn'[j].signal # "live"
        BY <3>1, <3>2 DEF Stopped, Turns
    <3> QED
        BY <3>2
  <2>3. CASE inst.active = None /\ inst.controller = None
      BY <2>3, NoneIsNoRun
  <2> QED
      BY <2>1, <2>2, <2>3
<1> QED
    BY <1>1, <1>2, <1>4, <1>5, QuietStory DEF Owed, Promoting

\* The answer to an interaction: nothing runs while one is open.
LEMMA RespondStory ==
    ASSUME OwnershipInvariant, OwnershipInvariant', ClaimInvariant, BoundaryInvariant,
           NEW a \in Inputs, Respond(a)
    PROVE  BoundaryInvariant' /\ StoryKept
<1> USE BoundaryFacts
<1>1. UNCHANGED <<call, hist>> /\ \A j \in Inputs : turn'[j] = turn[j]
    BY NoneIsNoRun DEF Respond
<1>2. Untouched(db, db')
    BY DatabaseFacts DEF Respond, Untouched, RowsKept, MessagesKept, Databases
<1>3. Running = {}
    BY DEF Respond, OwnershipInvariant, InteractionRests, HasInteraction
<1>4. \A j \in Inputs : ~(j \in Running)'
    BY <1>1, <1>3 DEF Running
<1> QED
    BY <1>1, <1>2, <1>4, QuietStory DEF Owed, Promoting

\* A crash, with the rows as they are or in the middle of a rollback: what the recovery
\* leaves waiting is linked to no message.
LEMMA CrashStory ==
    ASSUME OwnershipInvariant, OwnershipInvariant', ClaimInvariant, BoundaryInvariant,
           NEW d \in Databases, CrashWith(d), Placed(d), RowsKept(db, d), d.msgs = db.msgs
    PROVE  /\ BoundaryInvariant'
           /\ (NoSteerRolledBack => \A n : \A S \in SUBSET Inputs : Tale(db, n, S) => Tale(d, n, S))
              => StoryKept
<1> USE BoundaryFacts
<1>1. db' = Recover(d) /\ hist' = hist /\ Owed' = Owed
    BY DEF CrashWith, Owed
<1>2. /\ \A j \in Inputs : ~(j \in Running)' /\ ~Promoting(j)'
    BY NoneIsNoRun DEF CrashWith, Running, NoTurn, NoCall, Promoting, PreStream, InStream
<1>3. Placed(db')
    BY <1>1, RecoverStory
<1>4. ASSUME NEW i \in Inputs PROVE EmptyLink(i)'
  <2> SUFFICES ASSUME i \in WaitingQueue(db') PROVE db'.msgs[i] = {}
      BY <1>2 DEF EmptyLink, WaitingQueue, QueueRows
  <2>1. db'.mode[i] = "queue" /\ db'.state[i] \in WaitingStates
      BY DEF WaitingQueue, QueueRows
  <2>2. d.mode[i] = "queue" /\ d.state[i] \in ActiveStates
    <3>1. d.mode[i] = "queue"
        BY <1>1, <2>1, RecoverRows
    <3>2. CASE db'.state[i] = "retry_required"
      <4>1. db'.state[i] \in {"none", "pending", "consumed", d.state[i]}
          BY <1>1, RecoverRows
      <4> QED
          BY <3>1, <3>2, <4>1 DEF ActiveStates, WaitingStates
    <3>3. CASE db'.state[i] # "retry_required"
      <4>1. i \in HeldByRestart(d)
          BY <1>1, <2>1, <3>1, <3>3, RecoverRows DEF WaitingStates
      <4> QED
          BY <3>1, <4>1 DEF HeldByRestart, QueueRows
    <3> QED
        BY <3>2, <3>3
  <2>3. CASE d.state[i] = "claimed"
      BY <1>1, <2>2, <2>3, RecoverEffect
  <2>4. CASE d.state[i] # "claimed"
    <3>1. i \in WaitingQueue(db)
        BY <2>2, <2>4 DEF RowsKept, WaitingQueue, QueueRows, ActiveStates
    <3>2. db'.msgs[i] \in {d.msgs[i], {}}
        BY <1>1, RecoverEffect
    <3> QED
        BY <3>1, <3>2 DEF EmptyLink
  <2> QED
      BY <2>3, <2>4
<1>5. BoundaryInvariant'
    BY <1>2, <1>3, <1>4, BoundaryByRuns
<1>6. ASSUME NoSteerRolledBack =>
                 \A n : \A S \in SUBSET Inputs : Tale(db, n, S) => Tale(d, n, S)
      PROVE  StoryKept
  <2>1. ASSUME NoSteerRolledBack, TranscriptInvariant
        PROVE  SteerRowsStand(db', hist'.submitted) /\ LinksOwn(db') /\ Present(db', Owed')
    <3>1. Tale(db, hist.submitted, Owed)
        BY <2>1 DEF TranscriptInvariant, Owed, Tale
    <3>2. SteerRowsStand(d, hist.submitted) /\ LinksOwn(d) /\ Present(d, Owed)
        BY <1>6, <2>1, <3>1 DEF Tale
    <3> QED
        BY <1>1, <3>2, RecoverStory
  <2> QED
      BY <2>1, StoryByDatabase
<1> QED
    BY <1>5, <1>6

-----------------------------------------------------------------------------
(* A steer message arrives. *)

\* A call waits only for what the instance explores.
LaneAsked ==
    /\ call.lane = "steer" => "steerFiles" \in Sources
    /\ call.lane = "promote" => "promote" \in Events

\* The row the message interrupts is given its text, or nothing happens.
LEMMA MaterializeStory ==
    ASSUME NEW d \in Databases
    PROVE  LET e == Materialize(d)
           IN  /\ e \in Databases /\ RowsKept(d, e)
               /\ Placed(d) => Placed(e)
               /\ \A n : SteerRowsStand(d, n) => SteerRowsStand(e, n)
               /\ LinksOwn(d) => LinksOwn(e)
               /\ \A S \in SUBSET Inputs : Present(d, S) => Present(e, S)
               /\ \/ e = d /\ Unmaterialized(d) = {}
                  \/ \E c \in Unmaterialized(d) :
                        /\ MessageWritten(d, e, c, "sent", "none") /\ LinkWritten(d, e, c, {c})
<1> DEFINE e == Materialize(d)
<1>1. e \in Databases /\ RowsKept(d, e)
    BY MaterializeType, MaterializeRows
<1>2. CASE Unmaterialized(d) = {}
    BY <1>1, <1>2 DEF Materialize
<1>3. CASE Unmaterialized(d) # {}
  <2>1. PICK c \in Unmaterialized(d) : e = AppendUserFact(d, c)
      BY <1>3 DEF Materialize
  <2>2. c \in Inputs /\ d.mode[c] = "queue" /\ d.state[c] = "claimed"
      BY DEF Unmaterialized, QueueRows
  <2> HIDE DEF e
  <2>3. MessageWritten(d, e, c, "sent", "none") /\ LinkWritten(d, e, c, {c})
      BY <2>1, <2>2, AppendUserFactEffect
  <2>4. /\ Placed(d) => Placed(e)
        /\ \A n : SteerRowsStand(d, n) => SteerRowsStand(e, n)
        /\ LinksOwn(d) => LinksOwn(e)
        /\ \A S \in SUBSET Inputs : Present(d, S) => Present(e, S)
      BY <2>1, <2>2, UserFactStory
  <2> QED
      BY <1>1, <2>3, <2>4 DEF e
<1> QED
    BY <1>2, <1>3

\* The turn that hands over has its text, above every unread message: written earlier, or
\* now, when the row is the one claimed row of the session.
LEMMA HandedOverText ==
    ASSUME OwnershipInvariant, OwnershipInvariant', ClaimInvariant, BoundaryInvariant,
           NEW c \in Inputs, turn[c].source # "steer", turn[c].stage \in PreStream,
           turn[c].signal \in {"live", "handoff"},
           NEW d \in Databases, MessagesKept(db, d), d.msgs[c] = db.msgs[c],
           d.state[c] = db.state[c], d.mode[c] = db.mode[c],
           \A j \in Inputs \ {c} : d.state[j] = "claimed" => d.mode[j] = "steer"
    PROVE  LET e == Materialize(d)
           IN  /\ Exists(e, c) /\ (e.msgs[c] # {} \/ turn[c].fenced)
               /\ \A v \in Inputs : IsUnread(e, v) => e.seq[v] > e.seq[c]
<1> USE BoundaryFacts
<1> DEFINE e == Materialize(d)
<1>1. TextStanding(c) /\ ClaimStanding(c) /\ c \in Running /\ turn[c].stage # "none"
    BY DEF Running, PreStream
<1>2. \A v \in Inputs : (IsUnread(d, v) <=> IsUnread(db, v)) /\ (Exists(d, v) <=> Exists(db, v))
    BY DEF MessagesKept, IsUnread, Exists
<1>3. d.seq = db.seq
    BY DEF MessagesKept
<1>4. Unmaterialized(d) \subseteq {c}
    BY DEF Unmaterialized, QueueRows
<1>5. \/ e = d /\ Unmaterialized(d) = {}
      \/ \E x \in Unmaterialized(d) :
            /\ MessageWritten(d, e, x, "sent", "none") /\ LinkWritten(d, e, x, {x})
    BY MaterializeStory
<1> HIDE DEF e
<1>6. CASE turn[c].fenced
  <2>1. d.state[c] = "none" /\ turn[c].stage = "reserved"
      BY <1>1, <1>6 DEF ClaimStanding, PreStream
  <2>2. Unmaterialized(d) = {}
      BY <1>4, <2>1 DEF Unmaterialized
  <2>3. Exists(db, c) /\ \A v \in Inputs : IsUnread(db, v) => db.seq[v] > db.seq[c]
      BY <1>1, <2>1 DEF TextStanding
  <2> QED
      BY <1>2, <1>3, <1>5, <1>6, <2>2, <2>3 DEF e
<1>7. CASE ~turn[c].fenced /\ db.msgs[c] = {}
  <2>1. d.state[c] = "claimed" /\ d.mode[c] = "queue"
      BY <1>1, <1>7 DEF ClaimStanding
  <2>2. c \in Unmaterialized(d)
      BY <1>7, <2>1 DEF Unmaterialized, QueueRows, ActiveStates
  <2>3. MessageWritten(d, e, c, "sent", "none") /\ LinkWritten(d, e, c, {c})
      BY <1>4, <1>5, <2>2
  <2>4. turn[c].signal = "live" /\ \A v \in Inputs : ~IsUnread(db, v)
      BY <1>1, <1>7 DEF TextStanding
  <2>5. e.seq[c] = d.tail + 1 /\ d.tail \in Nat /\ e.msgs[c] = {c}
      BY <2>3, DatabaseFacts DEF MessageWritten, LinkWritten
  <2>6. \A v \in Inputs : ~IsUnread(e, v)
      BY <1>2, <2>3, <2>4 DEF IsUnread, Exists, MessageWritten
  <2> QED
      BY <2>5, <2>6 DEF e, Exists
<1>8. CASE ~turn[c].fenced /\ db.msgs[c] # {}
  <2>1. Unmaterialized(d) = {}
      BY <1>4, <1>8 DEF Unmaterialized
  <2>2. Exists(db, c) /\ \A v \in Inputs : IsUnread(db, v) => db.seq[v] > db.seq[c]
      BY <1>1, <1>8 DEF TextStanding, PreStream
  <2> QED
      BY <1>2, <1>3, <1>5, <1>8, <2>1, <2>2 DEF e
<1> QED
    BY <1>6, <1>7, <1>8

\* A message is written below everything else: the text of a running turn stands above it.
LEMMA SteeredText ==
    ASSUME NEW c \in Inputs, NEW d \in Databases, Placed(d), NEW u \in Inputs, u # c,
           MessageWritten(d, db', u, "pending", "unread"), db'.msgs[c] = d.msgs[c],
           TextStanding(c), TurnKept(c), turn' \in [Runs -> Turns], c \in Runs,
           Steering,
           \/ turn'[c].stage \notin PreStream /\ (Exists(db, c) => Exists(d, c))
           \/ /\ turn'[c].signal \in {"handoff", "stopped"} /\ Exists(d, c)
              /\ d.msgs[c] # {} \/ turn[c].fenced
              /\ \A v \in Inputs : IsUnread(d, v) => d.seq[v] > d.seq[c]
           \/ /\ turn'[c].signal = "stopped" /\ turn[c].signal = "stopped"
              /\ d.msgs[c] = db.msgs[c] /\ (Exists(db, c) => Exists(d, c))
    PROVE  TextStanding(c)'
<1>1. /\ db'.seq[c] = d.seq[c] /\ db'.seq[u] = d.tail + 1 /\ d.seq[c] \in Nat /\ d.tail \in Nat
      /\ d.seq[c] <= d.tail
    BY DatabaseFacts DEF MessageWritten, Placed
<1>2. Exists(db, c)' <=> Exists(d, c)
    BY <1>1 DEF Exists
<1>3. ASSUME \A v \in Inputs : IsUnread(d, v) => d.seq[v] > d.seq[c]
      PROVE  \A v \in Inputs : IsUnread(db, v)' => db'.seq[v] > db'.seq[c]
    BY <1>1, <1>3 DEF MessageWritten, IsUnread, Exists
<1>4. /\ turn'[c].stage = turn[c].stage /\ turn'[c].fenced = turn[c].fenced
      /\ turn'[c].source = turn[c].source
    BY DEF TurnKept
<1>5. CASE turn'[c].source = "steer"
    BY <1>5 DEF TextStanding
<1>6. CASE turn'[c].source # "steer" /\ turn'[c].stage \notin PreStream
    BY <1>2, <1>4, <1>6 DEF TextStanding, PreStream
<1>7. CASE /\ turn'[c].source # "steer" /\ turn'[c].stage \in PreStream
           /\ turn'[c].signal \in {"handoff", "stopped"} /\ Exists(d, c)
           /\ d.msgs[c] # {} \/ turn[c].fenced
           /\ \A v \in Inputs : IsUnread(d, v) => d.seq[v] > d.seq[c]
  <2>1. \A v \in Inputs : IsUnread(db, v)' => db'.seq[v] > db'.seq[c]
      BY <1>3, <1>7
  <2>2. turn'[c].signal # "live"
      BY <1>7
  <2> QED
      BY <1>2, <1>4, <1>7, <2>1, <2>2 DEF TextStanding
<1>8. CASE /\ turn'[c].source # "steer" /\ turn'[c].stage \in PreStream
           /\ turn'[c].signal = "stopped" /\ turn[c].signal = "stopped"
           /\ d.msgs[c] = db.msgs[c] /\ (Exists(db, c) => Exists(d, c))
  <2>1. turn'[c].signal \notin {"live", "handoff"} /\ turn[c].signal # "handoff"
      BY <1>8
  <2> QED
      BY <1>2, <1>4, <1>8, <2>1 DEF TextStanding
<1> QED
    BY <1>5, <1>6, <1>7, <1>8

\* A running turn that is not the one told to hand over: nobody waits for its text.
LEMMA UntoldText ==
    ASSUME OwnershipInvariant, OwnershipInvariant', ClaimInvariant, BoundaryInvariant,
           NEW c \in Inputs, c \in Running, turn[c].source # "steer",
           Steering, inst.active # None \/ ~CanHandOff,
           NEW d \in Databases, MessagesKept(db, d), d.msgs[c] = db.msgs[c], Placed(d),
           NEW u \in Inputs, u # c, MessageWritten(d, db', u, "pending", "unread"),
           db'.msgs[c] = d.msgs[c], turn' = turn
    PROVE  TextStanding(c)'
<1> USE BoundaryFacts
<1>1. TextStanding(c) /\ TurnKept(c) /\ turn[c].signal \in {"live", "stopped", "handoff"}
    BY DEF TurnKept, Turns
<1>2. \A v \in Inputs : (IsUnread(d, v) <=> IsUnread(db, v)) /\ (Exists(d, v) <=> Exists(db, v))
    BY DEF MessagesKept, IsUnread, Exists
<1>3. d.seq = db.seq
    BY DEF MessagesKept
<1>4. CASE turn[c].stage \notin PreStream
    BY <1>1, <1>2, <1>4, SteeredText
<1>5. CASE turn[c].stage \in PreStream
  <2>1. inst.active = None
    <3> SUFFICES ASSUME inst.active # None PROVE FALSE
        OBVIOUS
    <3>1. turn[inst.active].stage \in InStream /\ inst.active \in Runs
        BY DEF OwnershipInvariant, ControllerOwnership, Instances
    <3>2. inst.active \in Running
        BY <3>1 DEF Running
    <3>3. inst.active = c
        BY <3>2 DEF OwnershipInvariant
    <3> QED
        BY <1>5, <3>1, <3>3 DEF PreStream, InStream
  <2>2. turn[c].signal # "live"
      BY <1>1, <1>5, <2>1, NoneIsNoRun DEF TextStanding, CanHandOff
  <2>3. CASE turn[c].signal = "stopped"
      BY <1>1, <1>2, <2>3, SteeredText
  <2>4. CASE turn[c].signal = "handoff"
    <3>1. Exists(db, c) /\ \A v \in Inputs : IsUnread(db, v) => db.seq[v] > db.seq[c]
        BY <1>1, <1>5, <2>4 DEF TextStanding
    <3>2. db.msgs[c] # {} \/ turn[c].fenced
        BY <1>1, <1>5, <2>4 DEF TextStanding
    <3>3. Exists(d, c) /\ (d.msgs[c] # {} \/ turn[c].fenced)
          /\ \A v \in Inputs : IsUnread(d, v) => d.seq[v] > d.seq[c]
        BY <1>2, <1>3, <3>1, <3>2
    <3> QED
        BY <1>1, <2>4, <3>3, SteeredText
  <2> QED
      BY <1>1, <2>2, <2>3, <2>4
<1> QED
    BY <1>4, <1>5

\* The running turn is told to hand over: its text is written first.
LEMMA ToldText ==
    ASSUME OwnershipInvariant, OwnershipInvariant', ClaimInvariant, BoundaryInvariant,
           NEW c \in Inputs, c \in Running, turn[c].source # "steer",
           Steering, inst.active = None, CanHandOff, turn' = HandOff,
           NEW d \in Databases, MessagesKept(db, d), d.msgs[c] = db.msgs[c],
           d.state[c] = db.state[c], d.mode[c] = db.mode[c], Placed(d),
           \A j \in Inputs \ {c} : d.state[j] = "claimed" => d.mode[j] = "steer",
           NEW u \in Inputs, u # c, MessageWritten(Materialize(d), db', u, "pending", "unread"),
           db'.msgs[c] = Materialize(d).msgs[c]
    PROVE  TextStanding(c)'
<1> USE BoundaryFacts
<1> DEFINE e == Materialize(d)
<1>1. inst.controller = c
    BY DEF CanHandOff, OwnershipInvariant, ControllerOwnership
<1>2. turn[c].stage \in PreStream
    BY NoneIsNoRun DEF Running, OwnershipInvariant, ControllerOwnership
<1>3. turn[c].signal \in {"live", "handoff"}
    BY <1>1 DEF CanHandOff, Turns
<1>4. TurnKept(c) /\ turn'[c].signal = "handoff"
    BY <1>1 DEF HandOff, TurnKept, Turns
<1>5. /\ Exists(e, c) /\ (e.msgs[c] # {} \/ turn[c].fenced)
      /\ \A v \in Inputs : IsUnread(e, v) => e.seq[v] > e.seq[c]
    BY <1>2, <1>3, HandedOverText
<1>6. e \in Databases /\ Placed(e)
    BY MaterializeStory
<1>7. MessageWritten(e, db', u, "pending", "unread") /\ db'.msgs[c] = e.msgs[c]
    OBVIOUS
<1> HIDE DEF e
<1> QED
    BY <1>4, <1>5, <1>6, <1>7, SteeredText

\* The message joins the open row, or opens the row of its own submission.
LEMMA AcceptedRow ==
    ASSUME OwnershipInvariant, OwnershipInvariant', ClaimInvariant, BoundaryInvariant,
           NEW u \in Inputs, u = hist.submitted + 1, hist' = Submit(u), ~(call'.lane = "promote"),
           NEW d \in Databases, RowsKept(db, d), Placed(d),
           \A j \in WaitingQueue(db) : d.msgs[j] = db.msgs[j],
           NEW open, db' = AcceptSteer(d, u, open),
           NoSteerRolledBack /\ TranscriptInvariant =>
               SteerRowsStand(d, hist.submitted) /\ LinksOwn(d) /\ Present(d, Owed),
           \A c \in Inputs : (c \in Running)' /\ turn'[c].source # "steer" => TextStanding(c)'
    PROVE  BoundaryInvariant' /\ StoryKept
<1> USE BoundaryFacts
<1>1. db.state[u] = "none" /\ d.state[u] = "none" /\ d.mode = db.mode /\ d.state = db.state
    BY FreshRow DEF OwnershipInvariant, Unsubmitted, RowsKept
<1>2. /\ Placed(d) => Placed(db')
      /\ \A n \in Nat : u = n + 1 /\ SteerRowsStand(d, n) => SteerRowsStand(db', u)
      /\ LinksOwn(d) => LinksOwn(db')
      /\ \A S \in SUBSET Inputs : Present(d, S) => Present(db', S \cup {u})
    BY <1>1, AcceptSteerStory
<1>3. IF IsOpenSteer(d, open)
      THEN RowsKept(d, db') /\ LinkWritten(d, db', open, d.msgs[open] \cup {u})
      ELSE RowWritten(d, db', u, "pending", "steer") /\ LinkWritten(d, db', u, {u})
    BY AcceptSteerEffect
<1>4. ASSUME NEW j \in Inputs PROVE EmptyLink(j)'
  <2> SUFFICES ASSUME j \in WaitingQueue(db') PROVE db'.msgs[j] = {}
      BY DEF EmptyLink, Promoting, WaitingQueue, QueueRows
  <2>1. db'.mode[j] = "queue" /\ db'.state[j] \in WaitingStates /\ db'.state[j] \in ActiveStates
      BY DEF WaitingQueue, QueueRows
  <2>2. CASE IsOpenSteer(d, open)
    <3>1. j \in WaitingQueue(db) /\ j # open
        BY <1>1, <1>3, <2>1, <2>2 DEF WaitingQueue, QueueRows, RowsKept, IsOpenSteer
    <3>2. db'.msgs[j] = d.msgs[j]
        BY <1>3, <2>2, <3>1 DEF LinkWritten
    <3> QED
        BY <3>1, <3>2 DEF EmptyLink
  <2>3. CASE ~IsOpenSteer(d, open)
    <3>1. j # u
        BY <1>3, <2>1, <2>3 DEF RowWritten
    <3>2. j \in WaitingQueue(db) /\ db'.msgs[j] = d.msgs[j]
        BY <1>1, <1>3, <2>1, <2>3, <3>1 DEF WaitingQueue, QueueRows, RowWritten, LinkWritten
    <3> QED
        BY <3>2 DEF EmptyLink
  <2> QED
      BY <2>2, <2>3
<1>5. BoundaryInvariant'
    BY <1>2, <1>4, BoundaryByRuns
<1>6. hist'.submitted = u /\ Owed' \subseteq Owed \cup {u}
    BY DEF Submit, Histories, Owed
<1>7. ASSUME NoSteerRolledBack, TranscriptInvariant
      PROVE  SteerRowsStand(db', hist'.submitted) /\ LinksOwn(db') /\ Present(db', Owed')
  <2>1. SteerRowsStand(db', u) /\ LinksOwn(db') /\ Present(db', Owed \cup {u})
      BY <1>2, <1>7
  <2> QED
      BY <1>6, <2>1 DEF Present
<1>8. StoryKept
    BY <1>7, StoryByDatabase
<1> QED
    BY <1>5, <1>8

\* A running row is not the one a steer message is written for.
LEMMA RunningRowKept ==
    ASSUME OwnershipInvariant, OwnershipInvariant', ClaimInvariant, BoundaryInvariant,
           NEW c \in Inputs, c \in Running, turn[c].source # "steer",
           NEW u \in Inputs, u = hist.submitted + 1, NEW d \in Databases, RowsKept(db, d), NEW open
    PROVE  /\ u # c /\ AcceptSteer(d, u, open).msgs[c] = d.msgs[c]
           /\ MessageWritten(d, AcceptSteer(d, u, open), u, "pending", "unread")
<1> USE BoundaryFacts
<1>1. u # c
    BY FreshRow DEF OwnershipInvariant
<1>2. c # open \/ ~IsOpenSteer(d, open)
  <2>1. turn[c].stage # "none"
      BY DEF Running, PreStream, InStream
  <2>2. db.state[c] \in {"claimed", "none"}
      BY <2>1 DEF ClaimStanding
  <2> QED
      BY <2>2 DEF RowsKept, IsOpenSteer
<1>3. /\ MessageWritten(d, AcceptSteer(d, u, open), u, "pending", "unread")
      /\ IF IsOpenSteer(d, open)
         THEN LinkWritten(d, AcceptSteer(d, u, open), open, d.msgs[open] \cup {u})
         ELSE LinkWritten(d, AcceptSteer(d, u, open), u, {u})
    BY AcceptSteerEffect
<1> QED
    BY <1>1, <1>2, <1>3 DEF LinkWritten

LEMMA AcceptVisibleSteerStory ==
    ASSUME OwnershipInvariant, OwnershipInvariant', ClaimInvariant, BoundaryInvariant,
           Steering, NEW u \in Inputs, u = hist.submitted + 1, call.lane # "promote", NEW seen,
           AcceptVisibleSteer(u, seen)
    PROVE  BoundaryInvariant' /\ StoryKept
<1> USE BoundaryFacts
<1>1. hist' = Submit(u) /\ ~(call'.lane = "promote")
    BY DEF AcceptVisibleSteer, NoCall
<1>2. ASSUME TranscriptInvariant
      PROVE  SteerRowsStand(db, hist.submitted) /\ LinksOwn(db) /\ Present(db, Owed)
    BY <1>2 DEF TranscriptInvariant, Owed
<1>3. CASE /\ inst.active # None \/ ~CanHandOff
           /\ turn' = turn /\ db' = AcceptSteer(db, u, inst.openSteer)
  <2>1. RowsKept(db, db) /\ MessagesKept(db, db)
      BY AnswersLeaveMessages DEF Untouched
  <2>2. ASSUME NEW c \in Inputs, (c \in Running)', turn'[c].source # "steer" PROVE TextStanding(c)'
    <3>1. c \in Running /\ turn[c].source # "steer"
        BY <1>3, <2>2 DEF Running
    <3>2. /\ u # c /\ db'.msgs[c] = db.msgs[c]
          /\ MessageWritten(db, db', u, "pending", "unread")
        BY <1>3, <2>1, <3>1, RunningRowKept
    <3> QED
        BY <1>3, <2>1, <3>1, <3>2, UntoldText
  <2> QED
      BY <1>1, <1>2, <1>3, <2>1, <2>2, AcceptedRow
<1>4. CASE /\ inst.active = None /\ CanHandOff /\ turn' = HandOff
           /\ db' = AcceptSteer(Materialize(db), u, inst.openSteer)
  <2> DEFINE e == Materialize(db)
  <2>1. /\ e \in Databases /\ RowsKept(db, e) /\ Placed(e)
        /\ \A n : SteerRowsStand(db, n) => SteerRowsStand(e, n)
        /\ LinksOwn(db) => LinksOwn(e)
        /\ \A S \in SUBSET Inputs : Present(db, S) => Present(e, S)
        /\ \/ e = db
           \/ \E c \in Unmaterialized(db) : LinkWritten(db, e, c, {c})
      BY MaterializeStory
  <2>2. RowsKept(db, db) /\ MessagesKept(db, db)
      BY AnswersLeaveMessages DEF Untouched
  <2>3. ASSUME NEW c \in Inputs, (c \in Running)', turn'[c].source # "steer" PROVE TextStanding(c)'
    <3>1. c \in Running /\ turn[c].source # "steer"
        BY <1>4, <2>3, TurnsKeptBySignals DEF Running, TurnKept, OwnershipInvariant
    <3>2. /\ u # c /\ db'.msgs[c] = e.msgs[c] /\ MessageWritten(e, db', u, "pending", "unread")
        BY <1>4, <2>1, <3>1, RunningRowKept
    <3>3. ASSUME NEW j \in Inputs \ {c}, db.state[j] = "claimed" PROVE db.mode[j] = "steer"
      <4>1. pump.launched = j
          BY <3>3 DEF ClaimStanding, Promoting
      <4>2. pump.launched = c
          BY <3>1 DEF Running, PreStream, InStream, OwnershipInvariant, LeaseOwnership
      <4> QED
          BY <4>1, <4>2
    <3> QED
        BY <1>4, <2>2, <3>1, <3>2, <3>3, ToldText
  <2>4. \A j \in WaitingQueue(db) : e.msgs[j] = db.msgs[j]
    <3>1. \A j \in WaitingQueue(db) : j \in Inputs /\ j \notin Unmaterialized(db)
        BY DEF WaitingQueue, QueueRows, Unmaterialized, WaitingStates
    <3> QED
        BY <2>1, <3>1 DEF LinkWritten
  <2>5. db' = AcceptSteer(e, u, inst.openSteer)
      BY <1>4
  <2>6. TranscriptInvariant =>
            SteerRowsStand(e, hist.submitted) /\ LinksOwn(e) /\ Present(e, Owed)
      BY <1>2, <2>1
  <2> HIDE DEF e
  <2> QED
      BY <1>1, <2>1, <2>3, <2>4, <2>5, <2>6, AcceptedRow
<1> QED
    BY <1>3, <1>4 DEF AcceptVisibleSteer

\* The steer messages, with or without attachments.
LEMMA SteerCallStory ==
    ASSUME OwnershipInvariant, OwnershipInvariant', ClaimInvariant, BoundaryInvariant,
           LaneAsked, (\E u \in Inputs : SteerText(u)) \/ SteerAccept
    PROVE  BoundaryInvariant' /\ StoryKept
<1> USE BoundaryFacts
<1>1. ASSUME NEW u \in Inputs, SteerText(u) PROVE BoundaryInvariant' /\ StoryKept
    BY <1>1, AcceptVisibleSteerStory DEF SteerText, LaneFree, Steering
<1>2. CASE SteerAccept
  <2>1. PICK u \in Inputs : u = call.item
      BY <1>2 DEF SteerAccept, OwnershipInvariant, LaneKnowsItem
  <2>2. u = hist.submitted + 1 /\ call.lane # "promote" /\ AcceptVisibleSteer(u, call.seen)
      BY <1>2, <2>1 DEF SteerAccept, ClaimInvariant, SteerCallKept
  <2>3. Steering
      BY <1>2 DEF SteerAccept, LaneAsked, Steering
  <2> QED
      BY <2>1, <2>2, <2>3, AcceptVisibleSteerStory
<1> QED
    BY <1>1, <1>2

\* A queue row is promoted: released, perhaps after the interrupted row got its text.
LEMMA PromoteFinishStory ==
    ASSUME OwnershipInvariant, OwnershipInvariant', ClaimInvariant, BoundaryInvariant,
           LaneAsked, PromoteFinish
    PROVE  BoundaryInvariant' /\ StoryKept
<1> USE BoundaryFacts
<1>1. PICK i \in Inputs : i = call.item
    BY DEF PromoteFinish, OwnershipInvariant, LaneKnowsItem
<1>2. /\ Promoting(i) /\ db.state[i] = "claimed" /\ db.mode[i] = "queue" /\ i \notin Running
      /\ db.msgs[i] = {} /\ i <= hist.submitted
  <2>1. Promoting(i)
      BY <1>1 DEF PromoteFinish, Promoting
  <2>2. db.state[i] = "claimed" /\ db.mode[i] = "queue" /\ i \notin Running /\ db.msgs[i] = {}
      BY <2>1 DEF ClaimStanding, EmptyLink
  <2>3. ~(i > hist.submitted)
      BY <2>2 DEF ClaimStanding, Unsubmitted
  <2> QED
      BY <2>1, <2>2, <2>3
<1> DEFINE back == Release(db, i, "pending")
<1>3. /\ back \in Databases /\ MessagesKept(db, back) /\ RowWritten(db, back, i, "pending", "queue")
      /\ back.msgs[i] = {} /\ \A j \in Inputs : back.msgs[j] = db.msgs[j]
  <2>1. back \in Databases
      BY ReleaseType DEF RowStates
  <2>2. MessagesKept(db, back) /\ LinkWritten(db, back, i, {})
      BY RowsLeaveMessages
  <2>3. RowWritten(db, back, i, "pending", "queue")
      BY <1>2, RowsOf
  <2> HIDE DEF back
  <2> QED
      BY <1>2, <2>1, <2>2, <2>3 DEF LinkWritten
<1>4. PICK e : e \in {back, Materialize(back)} /\ db' = Promote(e, i)
               /\ \/ (inst.active # None \/ ~CanHandOff)
                     /\ turn' = turn /\ e = back
                  \/ inst.active = None /\ CanHandOff /\ turn' = HandOff /\ e = Materialize(back)
    BY <1>1 DEF PromoteFinish
<1>5. /\ Placed(back)
      /\ SteerRowsStand(db, hist.submitted) => SteerRowsStand(back, hist.submitted)
      /\ LinksOwn(db) => LinksOwn(back)
      /\ Present(db, Owed) => Present(back, Owed)
    BY <1>2, ReleaseStory DEF ActiveStates, WaitingStates
<1>6. RowsKept(back, back) /\ MessagesKept(back, back)
    BY <1>3, AnswersLeaveMessages DEF Untouched
<1> HIDE DEF back
<1>7. /\ e \in Databases /\ RowsKept(back, e) /\ Placed(e)
      /\ SteerRowsStand(back, hist.submitted) => SteerRowsStand(e, hist.submitted)
      /\ LinksOwn(back) => LinksOwn(e)
      /\ Present(back, Owed) => Present(e, Owed)
      /\ \/ e = back
         \/ \E c \in Unmaterialized(back) : LinkWritten(back, e, c, {c})
    BY <1>3, <1>4, <1>5, <1>6, MaterializeStory
<1>8. \A j \in Inputs : back.state[j] # "claimed" => e.msgs[j] = back.msgs[j]
    BY <1>7 DEF LinkWritten, Unmaterialized
<1>9. e.mode[i] = "queue" /\ e.state[i] = "pending" /\ e.msgs[i] = {}
    BY <1>3, <1>7, <1>8 DEF RowWritten, RowsKept
<1>10. /\ Placed(db')
       /\ SteerRowsStand(e, hist.submitted) => SteerRowsStand(db', hist.submitted)
       /\ LinksOwn(e) => LinksOwn(db')
       /\ Present(e, Owed) => Present(db', Owed)
    BY <1>2, <1>4, <1>7, <1>9, PromoteStory
<1>11. /\ MessageWritten(e, db', i, "pending", "unread") /\ \A j \in Inputs \ {i} : db'.msgs[j] = e.msgs[j]
       /\ RowWritten(e, db', i, "pending", "steer")
  <2>1. /\ MessageWritten(e, Promote(e, i), i, "pending", "unread")
        /\ LinkWritten(e, Promote(e, i), i, e.msgs[i] \cup {i})
      BY <1>7, PromoteEffect
  <2>2. RowWritten(e, Promote(e, i), i, "pending", "steer")
      BY <1>7, <1>9, PromoteRows
  <2> QED
      BY <1>4, <2>1, <2>2 DEF LinkWritten
<1>12. ~(call'.lane = "promote")
    BY DEF PromoteFinish, EndPromotion, OwnershipInvariant, TypeOK, Calls
<1>13. ASSUME NEW j \in Inputs PROVE EmptyLink(j)'
  <2> SUFFICES ASSUME j \in WaitingQueue(db') PROVE db'.msgs[j] = {}
      BY <1>12 DEF EmptyLink, Promoting, WaitingQueue, QueueRows
  <2>1. db'.mode[j] = "queue" /\ db'.state[j] \in WaitingStates /\ db'.state[j] \in ActiveStates
      BY DEF WaitingQueue, QueueRows
  <2>2. j # i
      BY <1>11, <2>1 DEF RowWritten
  <2>3. db.mode[j] = "queue" /\ db.state[j] = db'.state[j] /\ back.state[j] = db'.state[j]
      BY <1>3, <1>7, <1>11, <2>1, <2>2 DEF RowWritten, RowsKept
  <2>4. db'.msgs[j] = db.msgs[j]
      BY <1>3, <1>8, <1>11, <2>1, <2>2, <2>3 DEF WaitingStates
  <2> QED
      BY <2>1, <2>3, <2>4 DEF EmptyLink, WaitingQueue, QueueRows
<1>14. ASSUME NEW c \in Inputs, (c \in Running)', turn'[c].source # "steer" PROVE TextStanding(c)'
  <2>1. c \in Running /\ turn[c].source # "steer"
      BY <1>4, <1>14, TurnsKeptBySignals DEF Running, TurnKept, OwnershipInvariant
  <2>2. i # c /\ db'.msgs[c] = e.msgs[c] /\ back.msgs[c] = db.msgs[c]
        /\ back.state[c] = db.state[c] /\ back.mode[c] = db.mode[c]
      BY <1>2, <1>3, <1>11, <2>1 DEF RowWritten
  <2>3. ASSUME NEW j \in Inputs \ {c}, back.state[j] = "claimed" PROVE back.mode[j] = "steer"
    <3>1. j # i /\ db.state[j] = "claimed"
        BY <1>3, <2>3 DEF RowWritten
    <3>2. pump.launched = j
        BY <1>1, <3>1 DEF ClaimStanding, Promoting
    <3>3. pump.launched = c
        BY <2>1 DEF Running, PreStream, InStream, OwnershipInvariant, LeaseOwnership
    <3> QED
        BY <3>1, <3>2, <3>3
  <2>6. Steering
      BY DEF PromoteFinish, LaneAsked, Steering
  <2>4. CASE (inst.active # None \/ ~CanHandOff) /\ turn' = turn /\ e = back
      BY <1>3, <1>5, <1>11, <2>1, <2>2, <2>4, <2>6, UntoldText
  <2>5. CASE inst.active = None /\ CanHandOff /\ turn' = HandOff /\ e = Materialize(back)
      BY <1>3, <1>5, <1>11, <2>1, <2>2, <2>3, <2>5, <2>6, ToldText
  <2> QED
      BY <1>4, <2>4, <2>5
<1>15. BoundaryInvariant'
    BY <1>10, <1>13, <1>14, BoundaryByRuns
<1>16. hist'.submitted = hist.submitted /\ Owed' = Owed
    BY DEF PromoteFinish, Approve, Histories, Owed
<1>17. ASSUME TranscriptInvariant
       PROVE  SteerRowsStand(db', hist'.submitted) /\ LinksOwn(db') /\ Present(db', Owed')
  <2>1. SteerRowsStand(db, hist.submitted) /\ LinksOwn(db) /\ Present(db, Owed)
      BY <1>17 DEF TranscriptInvariant, Owed
  <2> QED
      BY <1>5, <1>7, <1>10, <1>16, <2>1
<1>18. StoryKept
    BY <1>17, StoryByDatabase
<1> QED
    BY <1>15, <1>18

-----------------------------------------------------------------------------
(* The turn under way: what it writes, it writes to its own row. *)

\* From d to e only row r is written, and what was known of d is known of e.
Settles(d, e, r) ==
    /\ e \in Databases
    /\ \A j \in Inputs \ {r} : /\ e.state[j] = d.state[j] /\ e.mode[j] = d.mode[j]
                               /\ e.msgs[j] = d.msgs[j]
    /\ Placed(d) => Placed(e)
    /\ NoSteerRolledBack =>
          \A n : \A S \in SUBSET Inputs : Tale(d, n, S) => Tale(e, n, S)

LEMMA SettlesTwice ==
    ASSUME NEW d, NEW e, NEW f, NEW r, Settles(d, e, r), Settles(e, f, r)
    PROVE  Settles(d, f, r)
BY DEF Settles

LEMMA UntouchedSettles ==
    ASSUME NEW d \in Databases, NEW e \in Databases, Untouched(d, e), NEW r
    PROVE  Settles(d, e, r) /\ e.state = d.state /\ e.mode = d.mode /\ e.msgs = d.msgs /\ e.seq = d.seq
<1>1. e.state = d.state /\ e.mode = d.mode /\ e.msgs = d.msgs /\ e.seq = d.seq
    BY DEF Untouched, RowsKept, MessagesKept
<1>2. /\ Placed(d) => Placed(e)
      /\ \A n : \A S : Tale(d, n, S) => Tale(e, n, S)
    BY UntouchedStory DEF Tale
<1> QED
    BY <1>1, <1>2 DEF Settles

LEMMA AnswerSettles ==
    ASSUME NEW d \in Databases, NEW i, NEW r, NEW s \in AssistantStates,
           NEW e \in {d, WriteAssistant(d, i), DeleteAssistant(d, i), SetAssistant(d, i, s)}
    PROVE  Settles(d, e, r) /\ e.state = d.state /\ e.mode = d.mode /\ e.msgs = d.msgs /\ e.seq = d.seq
<1>1. e \in Databases
    BY WriteAssistantType, DeleteAssistantType, SetAssistantType
<1>2. Untouched(d, e)
    BY AnswersLeaveMessages
<1> QED
    BY <1>1, <1>2, UntouchedSettles

LEMMA ConsumeSettles ==
    ASSUME NEW d \in Databases, NEW r \in Inputs, d.state[r] = "claimed",
           d.mode[r] = "queue" => Exists(d, r)
    PROVE  LET e == Consume(d, r)
           IN  Settles(d, e, r) /\ e.state[r] \in {"none", "consumed"} /\ e.seq = d.seq
<1> DEFINE e == Consume(d, r)
<1>1. e \in Databases
    BY ConsumeType
<1>2. RowWritten(d, e, r, IF d.mode[r] = "steer" THEN "consumed" ELSE "none", d.mode[r])
    BY ConsumeRows
<1>3. e.seq = d.seq /\ \A j \in Inputs \ {r} : e.msgs[j] = d.msgs[j]
    BY ConsumeEffect
<1>4. /\ Placed(d) => Placed(e)
      /\ \A n : \A S \in SUBSET Inputs : Tale(d, n, S) => Tale(e, n, S)
  <2>1. /\ Placed(d) => Placed(e)
        /\ \A n : SteerRowsStand(d, n) => SteerRowsStand(e, n)
        /\ LinksOwn(d) => LinksOwn(e)
        /\ \A n : \A S \in SUBSET Inputs : SteerRowsStand(d, n) /\ Present(d, S) => Present(e, S)
      BY ConsumeStory
  <2> HIDE DEF e
  <2> QED
      BY <2>1 DEF Tale
<1> HIDE DEF e
<1>5. Settles(d, e, r)
    BY <1>1, <1>2, <1>3, <1>4 DEF Settles, RowWritten
<1> QED
    BY <1>2, <1>3, <1>5 DEF RowWritten, e

LEMMA ReleaseSettles ==
    ASSUME NEW d \in Databases, NEW r \in Inputs, d.state[r] = "claimed", d.mode[r] = "queue"
    PROVE  LET e == Release(d, r, "retry_required") IN Settles(d, e, r) /\ e.msgs[r] = {}
<1> DEFINE e == Release(d, r, "retry_required")
<1>1. e \in Databases
    BY ReleaseType DEF RowStates
<1>2. RowWritten(d, e, r, "retry_required", d.mode[r]) /\ LinkWritten(d, e, r, {})
    BY RowsOf, RowsLeaveMessages
<1>3. /\ Placed(d) => Placed(e)
      /\ \A n : SteerRowsStand(d, n) => SteerRowsStand(e, n)
      /\ LinksOwn(d) => LinksOwn(e)
      /\ \A S \in SUBSET Inputs : Present(d, S) => Present(e, S)
    BY ReleaseStory DEF ActiveStates, WaitingStates
<1> HIDE DEF e
<1>4. Settles(d, e, r)
    BY <1>1, <1>2, <1>3 DEF Settles, RowWritten, LinkWritten, Tale
<1> QED
    BY <1>2, <1>4 DEF LinkWritten, e

LEMMA UserFactSettles ==
    ASSUME NEW d \in Databases, NEW r \in Inputs, d.state[r] = "claimed", d.mode[r] = "queue"
    PROVE  LET e == AppendUserFact(d, r)
           IN  /\ Settles(d, e, r) /\ e.state[r] = "claimed" /\ e.mode[r] = "queue"
               /\ Exists(e, r)
<1> DEFINE e == AppendUserFact(d, r)
<1>1. e \in Databases
    BY AppendUserFactType
<1>2. MessageWritten(d, e, r, "sent", "none") /\ RowsKept(d, e) /\ LinkWritten(d, e, r, {r})
    BY AppendUserFactEffect
<1>3. /\ Placed(d) => Placed(e)
      /\ \A n : SteerRowsStand(d, n) => SteerRowsStand(e, n)
      /\ LinksOwn(d) => LinksOwn(e)
      /\ \A S \in SUBSET Inputs : Present(d, S) => Present(e, S)
    BY UserFactStory
<1> HIDE DEF e
<1>4. Settles(d, e, r)
    BY <1>1, <1>2, <1>3 DEF Settles, RowsKept, LinkWritten, Tale
<1>5. Exists(e, r)
    BY <1>2, DatabaseFacts DEF MessageWritten, Exists
<1> QED
    BY <1>2, <1>4, <1>5 DEF RowsKept, e

\* A step of the turn of row r: its row is written so, and its text stands or it is over.
LEMMA OneRunStory ==
    ASSUME OwnershipInvariant, OwnershipInvariant', ClaimInvariant, BoundaryInvariant,
           NEW r \in Inputs, r \in Running, \A j \in Inputs \ {r} : turn'[j] = turn[j],
           call' = call, hist'.submitted = hist.submitted, Owed' = Owed, Settles(db, db', r),
           db'.state[r] \in WaitingStates => db'.msgs[r] = {},
           (r \in Running)' /\ turn'[r].source # "steer" => TextStanding(r)'
    PROVE  BoundaryInvariant' /\ StoryKept
<1> USE BoundaryFacts
<1>1. ~Promoting(r)
    BY DEF ClaimStanding
<1>2. ASSUME NEW j \in Inputs PROVE EmptyLink(j)'
  <2>1. CASE j = r
      BY <1>1, <2>1 DEF EmptyLink, WaitingQueue, QueueRows, Promoting
  <2>2. CASE j # r
      BY <2>2 DEF Settles, EmptyLink, WaitingQueue, QueueRows, Promoting
  <2> QED
      BY <2>1, <2>2
<1>3. ASSUME NEW j \in Inputs, (j \in Running)' PROVE j = r
    BY <1>3 DEF Running, OwnershipInvariant
<1>4. BoundaryInvariant'
    BY <1>2, <1>3, BoundaryByRuns DEF Settles
<1>5. ASSUME NoSteerRolledBack, TranscriptInvariant
      PROVE  SteerRowsStand(db', hist'.submitted) /\ LinksOwn(db') /\ Present(db', Owed')
  <2>1. Tale(db, hist.submitted, Owed)
      BY <1>5 DEF TranscriptInvariant, Tale, Owed
  <2> QED
      BY <1>5, <2>1 DEF Settles, Tale
<1>6. StoryKept
    BY <1>5, StoryByDatabase
<1> QED
    BY <1>4, <1>6

\* What is known of the row of the turn under way.
LEMMA RunningRow ==
    ASSUME OwnershipInvariant, OwnershipInvariant', ClaimInvariant, BoundaryInvariant,
           NEW r \in Inputs, r \in Running
    PROVE  /\ turn[r].stage # "none" /\ turn[r].source \in {"send", "queue", "steer"}
           /\ turn[r].signal \in {"live", "stopped", "handoff"} /\ turn[r].fenced \in BOOLEAN
           /\ db.state[r] \in {"none", "claimed"}
           /\ IF turn[r].fenced THEN db.state[r] = "none"
              ELSE /\ db.state[r] = "claimed"
                   /\ db.mode[r] = IF turn[r].source = "steer" THEN "steer" ELSE "queue"
           /\ Unsettled(r) <=> ~turn[r].fenced
<1> USE BoundaryFacts
<1>1. turn[r].stage # "none"
    BY DEF Running, PreStream, InStream
<1>2. turn[r].source \in {"send", "queue", "steer"}
    BY <1>1 DEF ClaimStanding, Turns
<1>3. turn[r].signal \in {"live", "stopped", "handoff"} /\ turn[r].fenced \in BOOLEAN
    BY DEF Turns
<1>4. Unsettled(r) <=> ~turn[r].fenced
    BY NoneIsNoRun DEF Unsettled
<1> QED
    BY <1>1, <1>2, <1>3, <1>4 DEF ClaimStanding

\* The turn goes on.
LEMMA GoOnStory ==
    ASSUME OwnershipInvariant, OwnershipInvariant', ClaimInvariant, BoundaryInvariant,
           NEW r \in Inputs, r \in Running, TurnReserve(r) \/ TurnRegister(r) \/ ProviderStart(r)
    PROVE  BoundaryInvariant' /\ StoryKept
<1> USE BoundaryFacts
<1> USE RunningRow
<1>1. call' = call /\ hist'.submitted = hist.submitted /\ Owed' = Owed
      /\ \A j \in Inputs \ {r} : turn'[j] = turn[j]
    BY DEF TurnReserve, TurnRegister, ProviderStart, Histories, Owed
<1>2. turn'[r].source = turn[r].source /\ turn'[r].signal = "live"
      /\ turn'[r].stage \in {"reserved", "registered", "streaming"}
    BY DEF TurnReserve, TurnRegister, ProviderStart, Turns
<1>3. turn[r].source # "steer" => Exists(db, r)
    BY DEF TurnReserve, TurnRegister, ProviderStart, TextStanding, InStream
<1>4. CASE TurnReserve(r)
  <2> DEFINE w == WriteAssistant(db, r)
  <2>1. ~turn[r].fenced /\ db.state[r] = "claimed" /\ turn'[r].stage = "reserved"
        /\ turn'[r].fenced = (turn[r].source = "send")
      BY <1>4 DEF TurnReserve, ClaimStanding, Turns
  <2>2. w \in Databases /\ Settles(db, w, r) /\ w.state = db.state /\ w.mode = db.mode
        /\ w.msgs = db.msgs /\ w.seq = db.seq
    <3>1. w \in {db, w, DeleteAssistant(db, r), SetAssistant(db, r, "sent")}
        OBVIOUS
    <3> QED
        BY <3>1, WriteAssistantType, AnswerSettles DEF AssistantStates
  <2>3. \A v \in Inputs : IsUnread(w, v) => IsUnread(db, v)
      BY AnswersLeaveMessages DEF Untouched, MessagesKept, IsUnread, Exists
  <2>4. db' = CASE turn[r].source = "steer" -> db
                [] turn[r].source = "queue" -> w
                [] OTHER -> Consume(w, r)
      BY <1>4 DEF TurnReserve
  <2> HIDE DEF w
  <2>5. CASE turn[r].source = "steer"
    <3>1. db' = db
        BY <2>4, <2>5
    <3>2. Settles(db, db', r)
        BY <3>1 DEF Settles
    <3> QED
        BY <1>1, <1>2, <2>1, <2>5, <3>1, <3>2, OneRunStory DEF WaitingStates
  <2>6. CASE turn[r].source # "steer"
    <3>1. Exists(w, r) /\ db'.seq = db.seq /\ Settles(db, db', r)
          /\ db'.state[r] \in {"none", "consumed", "claimed"}
          /\ (turn'[r].fenced \/ db'.msgs[r] = db.msgs[r])
          /\ \A v \in Inputs : IsUnread(db', v) => IsUnread(db, v)
      <4>1. Exists(w, r)
          BY <1>3, <2>2, <2>6 DEF Exists
      <4>2. CASE turn[r].source = "queue"
          BY <2>1, <2>2, <2>3, <2>4, <4>1, <4>2
      <4>3. CASE turn[r].source = "send"
        <5>1. db' = Consume(w, r)
            BY <2>4, <4>3
        <5>2. Settles(w, db', r) /\ db'.state[r] \in {"none", "consumed"} /\ db'.seq = w.seq
            BY <2>1, <2>2, <4>1, <5>1, ConsumeSettles
        <5>3. Settles(db, db', r)
            BY <2>2, <5>2, SettlesTwice
        <5>4. \A v \in Inputs : IsUnread(db', v) => IsUnread(w, v)
            BY <2>2, <5>1, ConsumeEffect
        <5> QED
            BY <2>1, <2>2, <2>3, <4>1, <4>3, <5>2, <5>3, <5>4
      <4> QED
          BY <2>6, <4>2, <4>3
    <3>2. TextStanding(r)'
      <4>1. /\ Exists(db, r) /\ inst.controller = r /\ \A v \in Inputs : ~IsUnread(db, v)
            /\ db.msgs[r] # {} /\ \A v \in Inputs \ {r} : db.seq[v] < db.seq[r]
          BY <1>3, <1>4, <2>1, <2>6 DEF TurnReserve, TextStanding, PreStream
      <4>2. Exists(db, r)' /\ inst'.controller = r /\ \A v \in Inputs : ~IsUnread(db, v)'
          BY <1>4, <3>1, <4>1 DEF Exists, IsUnread, TurnReserve
      <4>3. turn'[r].fenced \/ db'.msgs[r] # {}
          BY <3>1, <4>1
      <4>4. \A v \in Inputs \ {r} : db'.seq[v] < db'.seq[r]
          BY <3>1, <4>1
      <4> QED
          BY <1>2, <2>1, <4>2, <4>3, <4>4 DEF TextStanding, PreStream, InStream
    <3> QED
        BY <1>1, <3>1, <3>2, OneRunStory DEF WaitingStates
  <2> QED
      BY <2>5, <2>6
<1>5. CASE TurnRegister(r) \/ ProviderStart(r)
  <2>1. turn'[r].stage \notin PreStream
      BY <1>5 DEF TurnRegister, ProviderStart, PreStream, Turns
  <2>2. db'.seq = db.seq /\ Settles(db, db', r) /\ db'.state[r] \in {"none", "consumed", "claimed"}
    <3>1. CASE db' = db
      <4>1. Settles(db, db', r)
          BY <3>1 DEF Settles
      <4> QED
          BY <3>1, <4>1
    <3>2. CASE Unsettled(r) /\ turn[r].source = "queue" /\ db' = Consume(db, r)
        BY <1>3, <3>2, ConsumeSettles
    <3> QED
        BY <1>5, <3>1, <3>2 DEF TurnRegister, ProviderStart
  <2>3. ~Steering /\ turn[r].source # "steer" => \A v \in Inputs \ {r} : db.seq[v] < db.seq[r]
      BY <1>5 DEF TurnRegister, ProviderStart, TextStanding, InStream
  <2>4. turn'[r].source # "steer" => TextStanding(r)'
      BY <1>2, <1>3, <2>1, <2>2, <2>3 DEF TextStanding, PreStream, Exists
  <2> QED
      BY <1>1, <2>2, <2>4, OneRunStory DEF WaitingStates
<1> QED
    BY <1>4, <1>5

LEMMA UserFactStepStory ==
    ASSUME OwnershipInvariant, OwnershipInvariant', ClaimInvariant, BoundaryInvariant,
           NEW r \in Inputs, r \in Running, TurnUserFact(r)
    PROVE  BoundaryInvariant' /\ StoryKept
<1> USE BoundaryFacts
<1> USE RunningRow
<1>1. /\ turn[r].stage = "preparing" /\ turn[r].signal = "live" /\ db' = AppendUserFact(db, r)
      /\ turn' = [turn EXCEPT ![r].stage = "factual"] /\ UNCHANGED <<inst, pump, call, hist>>
    BY DEF TurnUserFact
<1>2. /\ ~turn[r].fenced /\ turn[r].source # "steer"
      /\ db.state[r] = "claimed" /\ db.mode[r] = "queue"
    BY <1>1 DEF ClaimStanding
<1>3. Settles(db, db', r) /\ db'.state[r] = "claimed" /\ Exists(db', r)
    BY <1>1, <1>2, UserFactSettles
<1>4. MessageWritten(db, db', r, "sent", "none") /\ db'.msgs[r] = {r}
  <2>1. /\ MessageWritten(db, AppendUserFact(db, r), r, "sent", "none")
        /\ LinkWritten(db, AppendUserFact(db, r), r, {r})
      BY AppendUserFactEffect, Zenon
  <2>2. r \in Inputs
      OBVIOUS
  <2> QED
      BY <1>1, <2>1, <2>2, Zenon DEF LinkWritten
<1>5. inst.controller = r /\ \A v \in Inputs : ~IsUnread(db, v)
    BY <1>1, <1>2 DEF TextStanding, PreStream
<1>6. \A v \in Inputs : ~IsUnread(db, v)'
    BY <1>4, <1>5 DEF MessageWritten, IsUnread, Exists
<1>7. \A v \in Inputs \ {r} : db'.seq[v] < db'.seq[r]
  <2>1. \A v \in Inputs : db.seq[v] <= db.tail /\ db.seq[v] \in Nat /\ db.tail \in Nat
      BY DatabaseFacts DEF Placed
  <2> QED
      BY <1>4, <2>1 DEF MessageWritten
<1>8. turn'[r].stage = "factual" /\ turn'[r].signal = "live"
    BY <1>1 DEF Turns
<1>9. TextStanding(r)'
    BY <1>1, <1>3, <1>4, <1>5, <1>6, <1>7, <1>8 DEF TextStanding, Exists
<1> QED
    BY <1>1, <1>3, <1>9, OneRunStory DEF Owed, WaitingStates

\* The turn ends: only its row is looked at any more.
LEMMA EndStory ==
    ASSUME OwnershipInvariant, OwnershipInvariant', ClaimInvariant, BoundaryInvariant,
           NEW r \in Inputs, r \in Running, turn' = Ended(r), UNCHANGED <<call, hist>>,
           Settles(db, db', r), db'.state[r] \in WaitingStates => db'.msgs[r] = {}
    PROVE  BoundaryInvariant' /\ StoryKept
<1> USE BoundaryFacts
<1>1. turn'[r].stage = "finishing" /\ \A j \in Inputs \ {r} : turn'[j] = turn[j]
    BY NoneIsNoRun DEF Ended, Turns
<1>2. ~(r \in Running)'
    BY <1>1 DEF Running, PreStream, InStream
<1> QED
    BY <1>1, <1>2, OneRunStory DEF Owed

LEMMA BlockStory ==
    ASSUME OwnershipInvariant, OwnershipInvariant', ClaimInvariant, BoundaryInvariant,
           NEW r \in Inputs, r \in Running, TurnBlock(r)
    PROVE  BoundaryInvariant' /\ StoryKept
<1> USE BoundaryFacts
<1> USE RunningRow
<1>1. /\ turn[r].stage = "preparing" /\ turn[r].signal = "live" /\ db' = SetState(db, r, "blocked")
      /\ turn' = Ended(r) /\ UNCHANGED <<call, hist>>
    BY DEF TurnBlock
<1>2. /\ ~turn[r].fenced /\ turn[r].source # "steer"
      /\ db.state[r] = "claimed" /\ db.mode[r] = "queue"
    BY <1>1 DEF ClaimStanding
<1>3. db.msgs[r] = {}
    BY <1>1, <1>2 DEF TextStanding, PreStream
<1>4. RowWritten(db, db', r, "blocked", "queue") /\ LinkWritten(db, db', r, {})
    BY <1>1, <1>2, <1>3, RowsOf, RowsLeaveMessages
<1>5. /\ Placed(db) => Placed(db')
      /\ LinksOwn(db) => /\ \A n : SteerRowsStand(db, n) => SteerRowsStand(db', n)
                         /\ LinksOwn(db')
                         /\ \A S \in SUBSET Inputs : Present(db, S) => Present(db', S)
    BY <1>1, <1>2, SetStateStory DEF ActiveStates, WaitingStates
<1>6. Settles(db, db', r) /\ db'.msgs[r] = {}
    BY <1>4, <1>5 DEF Settles, RowWritten, LinkWritten, Tale
<1> QED
    BY <1>1, <1>6, EndStory

\* A turn is rolled back after a provider error.  Where no steer message can arrive, the
\* message of the turn is the last one of the transcript.
LEMMA RunRollback ==
    ASSUME OwnershipInvariant, OwnershipInvariant', ClaimInvariant, BoundaryInvariant,
           NEW r \in Inputs, turn[r].stage \in InStream,
           NEW result, CanEnd(r, result), Undone(r, result)
    PROVE  LET e == Rollback(db, r)
           IN  e \in Databases /\ RowsKept(db, e) /\ e.msgs = db.msgs /\ Settles(db, e, r)
<1> USE BoundaryFacts
<1> USE RunningRow
<1> DEFINE e == Rollback(db, r)
<1>1. r \in Running /\ turn[r].source = "queue" /\ "streamError" \in Events
    BY DEF Undone, CanEnd, Running
<1>2. db.state[r] = "claimed" /\ db.mode[r] = "queue"
    BY <1>1 DEF Undone
<1>3. e \in Databases /\ RowsKept(db, e) /\ e.msgs = db.msgs /\ (Placed(db) => Placed(e))
    BY RollbackEffect
<1>4. ASSUME NoSteerRolledBack, NEW n, NEW S \in SUBSET Inputs, Tale(db, n, S) PROVE Tale(e, n, S)
  <2>1. \A u \in Inputs \ {r} : db.seq[u] < db.seq[r]
      BY <1>1, <1>4 DEF TextStanding, NoSteerRolledBack
  <2>2. SteerRowsStand(e, n) /\ LinksOwn(e) /\ Present(e, S)
      BY <1>2, <1>4, <2>1, RollbackStory DEF Tale
  <2> QED
      BY <2>2 DEF Tale
<1> HIDE DEF e
<1> QED
    BY <1>3, <1>4 DEF Settles, RowsKept, e

\* The stream ends: the claim is consumed, or the turn is rolled back for Retry.
LEMMA StreamEndStory ==
    ASSUME OwnershipInvariant, OwnershipInvariant', ClaimInvariant, BoundaryInvariant,
           NEW r \in Inputs, r \in Running, NEW result \in Results, StreamEnd(r, result)
    PROVE  BoundaryInvariant' /\ StoryKept
<1> USE BoundaryFacts
<1> USE RunningRow
<1> DEFINE answered == SetAssistant(db, turn[r].answer, AnswerStatus[result])
<1>1. turn[r].stage \in InStream /\ turn' = Ended(r) /\ UNCHANGED <<call, hist>> /\ CanEnd(r, result)
    BY DEF StreamEnd
<1>2. db' = IF Undone(r, result) THEN Release(Rollback(db, r), r, "retry_required")
            ELSE IF Unsettled(r) THEN Consume(answered, r)
            ELSE answered
    BY DEF StreamEnd
<1>3. /\ Settles(db, answered, r) /\ answered.state = db.state /\ answered.mode = db.mode
      /\ answered.seq = db.seq /\ answered \in Databases
  <2>1. AnswerStatus[result] \in AssistantStates
      BY DEF Results, AnswerStatus, AssistantStates
  <2> QED
      BY <2>1, AnswerSettles, SetAssistantType
<1> HIDE DEF answered
<1>4. CASE Undone(r, result)
  <2> DEFINE back == Rollback(db, r)
  <2>1. db.state[r] = "claimed" /\ db.mode[r] = "queue"
      BY <1>4 DEF Undone
  <2>2. back \in Databases /\ RowsKept(db, back) /\ Settles(db, back, r)
      BY <1>1, <1>4, RunRollback
  <2>3. back.state[r] = "claimed" /\ back.mode[r] = "queue"
      BY <2>1, <2>2 DEF RowsKept
  <2>4. db' = Release(back, r, "retry_required")
      BY <1>2, <1>4
  <2> HIDE DEF back
  <2>5. Settles(back, db', r) /\ db'.msgs[r] = {}
      BY <2>2, <2>3, <2>4, ReleaseSettles
  <2>6. Settles(db, db', r)
      BY <2>2, <2>5, SettlesTwice
  <2> QED
      BY <1>1, <2>5, <2>6, EndStory
<1>5. CASE ~Undone(r, result) /\ Unsettled(r)
  <2>1. db' = Consume(answered, r)
      BY <1>2, <1>5
  <2>2. answered.state[r] = "claimed" /\ (answered.mode[r] = "queue" => Exists(answered, r))
      BY <1>1, <1>3, <1>5 DEF TextStanding, Exists
  <2>3. Settles(answered, db', r) /\ db'.state[r] \in {"none", "consumed"}
      BY <1>3, <2>1, <2>2, ConsumeSettles
  <2>4. Settles(db, db', r)
      BY <1>3, <2>3, SettlesTwice
  <2> QED
      BY <1>1, <2>3, <2>4, EndStory DEF WaitingStates
<1>6. CASE ~Undone(r, result) /\ ~Unsettled(r)
  <2>1. db' = answered
      BY <1>2, <1>6
  <2>2. db'.state[r] = "none"
      BY <1>3, <1>6, <2>1
  <2> QED
      BY <1>1, <1>3, <2>1, <2>2, EndStory DEF WaitingStates
<1> QED
    BY <1>4, <1>5, <1>6

\* A turn aborted before the provider: what was promised is consumed, the rest given back.
LEMMA AbortedStory ==
    ASSUME OwnershipInvariant, OwnershipInvariant', ClaimInvariant, BoundaryInvariant,
           NEW r \in Inputs, r \in Running, NEW late \in BOOLEAN, AbortedPreStream(r, late)
    PROVE  BoundaryInvariant' /\ StoryKept
<1> USE BoundaryFacts
<1> USE RunningRow
<1> DEFINE t == turn[r]
           handoff == t.signal = "handoff"
           written ==
             CASE late /\ t.stage = "preparing" /\ db.msgs[r] = {} -> AppendUserFact(db, r)
               [] late /\ t.stage = "factual" /\ t.source # "steer" /\ ~handoff ->
                      WriteAssistant(db, r)
               [] OTHER -> db
           settled ==
             IF ~Unsettled(r) THEN written
             ELSE IF Exists(written, r) \/ t.source = "steer" THEN Consume(written, r)
             ELSE Release(written, r, "retry_required")
<1>1. turn' = Ended(r) /\ UNCHANGED <<call, hist>>
    BY DEF AbortedPreStream
<1>2. db' = IF handoff THEN DeleteAssistant(settled, r) ELSE SetAssistant(settled, r, "error")
    BY NoneIsNoRun DEF AbortedPreStream
<1>3. /\ written \in Databases /\ Settles(db, written, r)
      /\ written.state[r] = db.state[r] /\ written.mode[r] = db.mode[r]
  <2>1. CASE written = AppendUserFact(db, r) /\ turn[r].stage = "preparing"
    <3>1. ~turn[r].fenced /\ turn[r].source # "steer"
        BY <2>1 DEF ClaimStanding
    <3>2. db.state[r] = "claimed" /\ db.mode[r] = "queue"
        BY <3>1
    <3> HIDE DEF written
    <3> QED
        BY <2>1, <3>2, UserFactSettles DEF Settles
  <2>2. CASE written \in {db, WriteAssistant(db, r)}
    <3>1. written \in {db, WriteAssistant(db, r), DeleteAssistant(db, r), SetAssistant(db, r, "sent")}
        BY <2>2
    <3>2. "sent" \in AssistantStates
        BY DEF AssistantStates
    <3> HIDE DEF written
    <3>3. Settles(db, written, r) /\ written.state = db.state /\ written.mode = db.mode
        BY <3>1, <3>2, AnswerSettles
    <3>4. written \in Databases
        BY <3>3 DEF Settles
    <3> QED
        BY <3>3, <3>4
  <2> QED
      BY <2>1, <2>2
<1> HIDE DEF written
<1>4. /\ settled \in Databases /\ Settles(written, settled, r)
      /\ settled.state[r] \in WaitingStates => settled.msgs[r] = {}
  <2>1. CASE ~Unsettled(r)
    <3>1. settled = written /\ written.state[r] = "none"
        BY <1>3, <2>1
    <3> QED
        BY <1>3, <3>1 DEF Settles, WaitingStates
  <2>2. CASE Unsettled(r) /\ (Exists(written, r) \/ t.source = "steer")
    <3>1. settled = Consume(written, r)
        BY <2>2
    <3>2. written.state[r] = "claimed" /\ (written.mode[r] = "queue" => Exists(written, r))
        BY <1>3, <2>2
    <3> HIDE DEF settled
    <3>3. Settles(written, settled, r) /\ settled.state[r] \in {"none", "consumed"}
        BY <1>3, <3>1, <3>2, ConsumeSettles
    <3> QED
        BY <3>3 DEF Settles, WaitingStates
  <2>3. CASE Unsettled(r) /\ ~(Exists(written, r) \/ t.source = "steer")
    <3>1. settled = Release(written, r, "retry_required")
        BY <2>3
    <3>2. written.state[r] = "claimed" /\ written.mode[r] = "queue"
        BY <1>3, <2>3
    <3> HIDE DEF settled
    <3>3. Settles(written, settled, r) /\ settled.msgs[r] = {}
        BY <1>3, <3>1, <3>2, ReleaseSettles
    <3> QED
        BY <3>3 DEF Settles
  <2> QED
      BY <2>1, <2>2, <2>3
<1> HIDE DEF settled
<1>5. Settles(settled, db', r) /\ db'.state = settled.state /\ db'.msgs = settled.msgs
  <2>1. db' \in {settled, WriteAssistant(settled, r), DeleteAssistant(settled, r),
                 SetAssistant(settled, r, "error")}
      BY <1>2
  <2> QED
      BY <1>4, <2>1, AnswerSettles DEF AssistantStates
<1>6. Settles(db, db', r)
    BY <1>3, <1>4, <1>5, SettlesTwice
<1> QED
    BY <1>1, <1>4, <1>5, <1>6, EndStory

\* A failure before the provider: the rollback takes only the turn's own message, which
\* is the last one of the transcript as long as no steer message arrived.
LEMMA FailedStory ==
    ASSUME OwnershipInvariant, OwnershipInvariant', ClaimInvariant, BoundaryInvariant,
           NEW r \in Inputs, r \in Running, FailedPreStream(r)
    PROVE  BoundaryInvariant' /\ StoryKept
<1> USE BoundaryFacts
<1> USE RunningRow
<1> DEFINE shown == SetAssistant(db, turn[r].answer, "error")
           back == IF turn[r].stage = "preparing" THEN db ELSE Rollback(db, r)
<1>1. /\ turn' = Ended(r) /\ UNCHANGED <<call, hist>>
      /\ turn[r].stage \in PreStream /\ turn[r].signal = "live"
    BY DEF FailedPreStream
<1>2. db' = IF Unsettled(r) /\ turn[r].source # "steer" THEN Release(back, r, "retry_required")
            ELSE IF Unsettled(r) THEN Consume(shown, r)
            ELSE shown
    BY DEF FailedPreStream
<1>3. /\ Settles(db, shown, r) /\ shown.state = db.state /\ shown.mode = db.mode
      /\ shown \in Databases
  <2>1. "error" \in AssistantStates
      BY DEF AssistantStates
  <2> QED
      BY <2>1, AnswerSettles, SetAssistantType
<1> HIDE DEF shown
<1>4. CASE Unsettled(r) /\ turn[r].source # "steer"
  <2>1. db.state[r] = "claimed" /\ db.mode[r] = "queue"
      BY <1>4
  <2>2. Settles(db, back, r) /\ RowsKept(db, back) /\ back \in Databases
    <3>1. CASE turn[r].stage = "preparing"
        BY <3>1 DEF Settles, RowsKept
    <3>2. CASE turn[r].stage # "preparing"
      <4>1. \A v \in Inputs \ {r} : db.seq[v] < db.seq[r]
          BY <1>1, <1>4, <3>2 DEF TextStanding
      <4>2. back = Rollback(db, r)
          BY <3>2
      <4>3. back \in Databases /\ RowsKept(db, back) /\ back.msgs = db.msgs /\ (Placed(db) => Placed(back))
          BY <4>2, RollbackEffect
      <4>4. /\ \A n : SteerRowsStand(db, n) => SteerRowsStand(back, n)
            /\ LinksOwn(db) => LinksOwn(back)
            /\ \A S \in SUBSET Inputs : Present(db, S) => Present(back, S)
          BY <2>1, <4>1, <4>2, RollbackStory
      <4> HIDE DEF back
      <4> QED
          BY <4>3, <4>4 DEF Settles, RowsKept, Tale
    <3> QED
        BY <3>1, <3>2
  <2>3. db' = Release(back, r, "retry_required")
      BY <1>2, <1>4
  <2> HIDE DEF back
  <2>4. Settles(back, db', r) /\ db'.msgs[r] = {}
      BY <2>1, <2>2, <2>3, ReleaseSettles DEF RowsKept
  <2>5. Settles(db, db', r)
      BY <2>2, <2>4, SettlesTwice
  <2> QED
      BY <1>1, <2>4, <2>5, EndStory
<1>5. CASE Unsettled(r) /\ turn[r].source = "steer"
  <2>1. db' = Consume(shown, r)
      BY <1>2, <1>5
  <2>2. shown.state[r] = "claimed" /\ shown.mode[r] = "steer"
      BY <1>3, <1>5
  <2>3. Settles(shown, db', r) /\ db'.state[r] \in {"none", "consumed"}
      BY <1>3, <2>1, <2>2, ConsumeSettles
  <2>4. Settles(db, db', r)
      BY <1>3, <2>3, SettlesTwice
  <2> QED
      BY <1>1, <2>3, <2>4, EndStory DEF WaitingStates
<1>6. CASE ~Unsettled(r)
  <2>1. db' = shown
      BY <1>2, <1>6
  <2>2. db'.state[r] = "none"
      BY <1>3, <1>6, <2>1
  <2> QED
      BY <1>1, <1>3, <2>1, <2>2, EndStory DEF WaitingStates
<1> QED
    BY <1>4, <1>5, <1>6

\* The run that resumes a paused message: no input of the lane runs, and no row is written.
LEMMA ResumedStory ==
    ASSUME OwnershipInvariant, OwnershipInvariant', ClaimInvariant, BoundaryInvariant,
           TurnStep(Resumed)
    PROVE  BoundaryInvariant' /\ StoryKept
<1> USE BoundaryFacts
<1>1. turn[Resumed].stage \notin {"preparing", "factual"} /\ ~Unsettled(Resumed)
    BY DEF OwnershipInvariant, ResumedSkipsPreparation, InStream, Unsettled
<1>2. call' = call /\ hist'.submitted = hist.submitted /\ Owed' = Owed
  <2>1. ASSUME ProviderStart(Resumed)
        PROVE  call' = call /\ hist' = [hist EXCEPT !.unapproved = @ \cup ({Resumed} \ {Resumed})]
      BY <2>1 DEF ProviderStart
  <2>2. ASSUME TurnStep(Resumed), ~ProviderStart(Resumed) PROVE call' = call /\ hist' = hist
      BY <2>2 DEF TurnStep, TurnBlock, TurnUserFact, TurnReserve, TurnRegister, StreamEnd,
                  AbortedPreStream, FailedPreStream
  <2> QED
      BY <2>1, <2>2 DEF Histories, Owed
<1>3. Resumed \in Running
    BY <1>1, NoneIsNoRun
    DEF TurnStep, TurnBlock, TurnUserFact, TurnReserve, TurnRegister, ProviderStart, StreamEnd,
        AbortedPreStream, FailedPreStream, Running, PreStream, InStream
<1>4. \A j \in Inputs : turn'[j] = turn[j]
    BY NoneIsNoRun
    DEF TurnStep, TurnBlock, TurnUserFact, TurnReserve, TurnRegister, ProviderStart, StreamEnd,
        AbortedPreStream, FailedPreStream, Ended
<1>5. \A j \in Inputs : ~(j \in Running)'
    BY <1>3, <1>4, NoneIsNoRun DEF Running, OwnershipInvariant
<1>6. db' = db \/ (\E a, s : db' = SetAssistant(db, a, s))
  <2>1. ASSUME NEW result \in Results, StreamEnd(Resumed, result)
        PROVE  \E a, s : db' = SetAssistant(db, a, s)
      BY <1>1, <2>1 DEF StreamEnd, Undone
  <2>2. ASSUME NEW late \in BOOLEAN, AbortedPreStream(Resumed, late)
        PROVE  \E a, s : db' = SetAssistant(db, a, s)
      BY <2>2 DEF AbortedPreStream
  <2>3. CASE FailedPreStream(Resumed)
      BY <1>1, <2>3 DEF FailedPreStream
  <2>4. CASE TurnRegister(Resumed) \/ ProviderStart(Resumed)
      BY <1>1, <2>4 DEF TurnRegister, ProviderStart
  <2>5. ~TurnBlock(Resumed) /\ ~TurnUserFact(Resumed) /\ ~TurnReserve(Resumed)
      BY <1>1 DEF TurnBlock, TurnUserFact, TurnReserve
  <2> QED
      BY <2>1, <2>2, <2>3, <2>4, <2>5 DEF TurnStep
<1>7. Untouched(db, db')
    BY <1>6, AnswersLeaveMessages
<1> QED
    BY <1>2, <1>5, <1>7, QuietStory DEF Promoting

\* A crash, also in the middle of a rollback.
LEMMA CrashesStory ==
    ASSUME OwnershipInvariant, OwnershipInvariant', ClaimInvariant, BoundaryInvariant,
           Restart \/ \E r \in Runs : RestartMidRollback(r)
    PROVE  BoundaryInvariant' /\ StoryKept
<1> USE BoundaryFacts
<1>1. CASE Restart
    BY <1>1, CrashStory DEF Restart, RowsKept
<1>2. ASSUME NEW r \in Runs, RestartMidRollback(r) PROVE BoundaryInvariant' /\ StoryKept
  <2> DEFINE d == Rollback(db, r)
  <2>1. /\ r \in Inputs /\ CrashWith(d) /\ turn[r].stage \in InStream
        /\ CanEnd(r, "error") /\ Undone(r, "error")
      BY <1>2, LaunchedRuns DEF RestartMidRollback, Undone, Unsettled
  <2>2. d \in Databases /\ RowsKept(db, d) /\ d.msgs = db.msgs /\ Settles(db, d, r)
      BY <2>1, RunRollback
  <2> HIDE DEF d
  <2> QED
      BY <2>1, <2>2, CrashStory DEF Settles
<1> QED
    BY <1>1, <1>2

-----------------------------------------------------------------------------
(* The invariants. *)

\* A call holds its lane only where the instance makes such calls.
LEMMA LaneStep ==
    ASSUME TypeOK, LaneAsked, [Next]_vars
    PROVE  LaneAsked'
<1>1. \/ call'.lane \in {call.lane, "free"}
      \/ call'.lane = "steer" /\ "steerFiles" \in Sources
      \/ call'.lane = "promote" /\ "promote" \in Events
  <2> USE DEF TypeOK, Calls
  <2>1. CASE Admission
    <3>1. ASSUME NEW u \in Inputs, SteerText(u) PROVE call'.lane = "free"
        BY <3>1 DEF SteerText, AcceptVisibleSteer, NoCall
    <3>2. CASE SteerAccept
        BY <3>2 DEF SteerAccept, AcceptVisibleSteer, NoCall
    <3>3. ASSUME NEW u \in Inputs, SteerPrepare(u)
          PROVE  call'.lane = "steer" /\ "steerFiles" \in Sources
        BY <3>3 DEF SteerPrepare
    <3>4. ASSUME NEW i \in Inputs, PromoteClaim(i)
          PROVE  call'.lane = "promote" /\ "promote" \in Events
        BY <3>4 DEF PromoteClaim
    <3>5. CASE SteerDrop \/ PromoteBlock \/ PromoteFail \/ PromoteFinish
      <4>1. SteerDrop => call' = NoCall
          BY DEF SteerDrop
      <4>2. PromoteBlock => call' = EndPromotion
          BY DEF PromoteBlock
      <4>3. PromoteFail => call' = EndPromotion
          BY DEF PromoteFail
      <4>4. PromoteFinish => call' = EndPromotion
          BY DEF PromoteFinish
      <4>5. NoCall.lane = "free" /\ EndPromotion.lane = "free"
          BY DEF NoCall, EndPromotion
      <4> QED
          BY <3>5, <4>1, <4>2, <4>3, <4>4, <4>5
    <3>6. ASSUME NEW i \in Inputs, NEW j \in Inputs, NEW src,
                 \/ Queue(i, src) \/ Update(i) \/ Delete(i) \/ ResolveBlocked(i) \/ Retry(i)
                 \/ ResumeQueue(i) \/ Move(i, j)
          PROVE  call'.lane = call.lane
        BY <3>6 DEF Queue, Update, Delete, ResolveBlocked, Retry, ResumeQueue, Move
    <3> QED
        BY <2>1, <3>1, <3>2, <3>3, <3>4, <3>5, <3>6 DEF Admission
  <2>2. CASE Drain
      BY <2>2 DEF Drain, DrainLaunch, DrainIdle
  <2>3. ASSUME NEW r \in Runs, TurnStep(r) PROVE call' = call
      BY <2>3 DEF TurnStep, TurnBlock, TurnUserFact, TurnReserve, TurnRegister, ProviderStart,
                  StreamEnd, AbortedPreStream, FailedPreStream
  <2>4. CASE NextIfReady \/ (\E i \in Inputs : Finalize(i) \/ Respond(i)) \/ Cancel
      BY <2>4 DEF NextIfReady, Finalize, Respond, Cancel
  <2>5. CASE Restart \/ \E r \in Runs : RestartMidRollback(r)
      BY <2>5 DEF Restart, RestartMidRollback, CrashWith, NoCall
  <2>6. CASE UNCHANGED vars
      BY <2>6 DEF vars
  <2> QED
      BY <2>1, <2>2, <2>3, <2>4, <2>5, <2>6 DEF Next
<1> QED
    BY <1>1 DEF LaneAsked

LEMMA LanesAreAsked == Spec => []LaneAsked
<1>1. Init => LaneAsked
    BY DEF Init, NoCall, LaneAsked
<1>2. OwnershipInvariant => TypeOK
    BY DEF OwnershipInvariant
<1>3. TypeOK /\ LaneAsked /\ [Next]_vars => LaneAsked'
    BY LaneStep
<1> QED
    BY <1>1, <1>2, <1>3, OwnershipHolds, PTL DEF Spec

\* Every step keeps the boundary, and the story unless it rolls steer messages back.
LEMMA StoryStep ==
    ASSUME OwnershipInvariant, OwnershipInvariant', ClaimInvariant, BoundaryInvariant, LaneAsked,
           [Next]_vars
    PROVE  BoundaryInvariant' /\ StoryKept
<1> USE BoundaryFacts
<1>1. CASE UNCHANGED vars
  <2>1. Untouched(db, db')
      BY <1>1, AnswersLeaveMessages DEF vars
  <2> QED
      BY <1>1, <2>1, QuietStory DEF vars, TurnKept, Promoting, Owed
<1>2. CASE Admission
    BY <1>2, SteerCallStory, QueueStory, IdleStory, PromotionStory, PromoteFinishStory, EditStory
    DEF Admission
<1>3. CASE Drain \/ NextIfReady
    BY <1>3, DrainLaunchStory, IdleStory DEF Drain
<1>4. ASSUME NEW r \in Runs, TurnStep(r) PROVE BoundaryInvariant' /\ StoryKept
  <2>1. CASE r = Resumed
      BY <1>4, <2>1, ResumedStory
  <2>2. CASE r # Resumed
    <3>1. r \in Inputs
        BY <2>2, LaunchedRuns
    <3>2. r \in Running
        BY <1>4
        DEF TurnStep, TurnBlock, TurnUserFact, TurnReserve, TurnRegister, ProviderStart, StreamEnd,
            AbortedPreStream, FailedPreStream, Running, PreStream, InStream
    <3> QED
        BY <1>4, <3>1, <3>2, BlockStory, UserFactStepStory, GoOnStory, StreamEndStory,
           AbortedStory, FailedStory DEF TurnStep
  <2> QED
      BY <2>1, <2>2
<1>5. CASE Cancel \/ (\E i \in Inputs : Finalize(i)) \/ (\E a \in Inputs : Respond(a))
    BY <1>5, CancelStory, FinalizeStory, RespondStory
<1>6. CASE Restart \/ \E r \in Runs : RestartMidRollback(r)
    BY <1>6, CrashesStory
<1> QED
    BY <1>1, <1>2, <1>3, <1>4, <1>5, <1>6 DEF Next

LEMMA StoryInit == Init => BoundaryInvariant /\ TranscriptInvariant
<1> SUFFICES ASSUME Init PROVE BoundaryInvariant /\ TranscriptInvariant
    OBVIOUS
<1>1. /\ db = EmptyDatabase /\ turn = [r \in Runs |-> NoTurn] /\ call.lane = "free"
      /\ hist.accepted = {}
    BY DEF Init, NoCall
<1>2. \A i \in Inputs : /\ db.mode[i] = "queue" /\ db.state[i] = "none" /\ db.msgs[i] = {}
                        /\ db.seq[i] = 0
    BY <1>1 DEF EmptyDatabase
<1>3. db.tail = 0
    BY <1>1 DEF EmptyDatabase
<1>4. Placed(db)
    BY <1>2, <1>3 DEF Placed, IsUnread, Exists
<1>5. \A i \in Inputs : EmptyLink(i) /\ TextStanding(i)
    BY <1>1, <1>2, NoneIsNoRun DEF EmptyLink, TextStanding, NoTurn, PreStream, InStream
<1>6. TranscriptInvariant
    BY <1>1, <1>2
    DEF TranscriptInvariant, SteerRowsStand, LinksOwn, Present, QueueRows
<1> QED
    BY <1>4, <1>5, <1>6 DEF BoundaryInvariant

\* For any number of submissions and every event, the text of a queued turn stands above
\* the steer messages that interrupt it, and the rows know their messages.
THEOREM BoundaryHolds == Spec => []BoundaryInvariant
<1>1. Init => BoundaryInvariant
    BY StoryInit
<1>2. OwnershipInvariant /\ OwnershipInvariant' /\ ClaimInvariant /\ BoundaryInvariant
      /\ LaneAsked /\ [Next]_vars => BoundaryInvariant'
    BY StoryStep
<1> QED
    BY <1>1, <1>2, OwnershipHolds, ClaimsHold, LanesAreAsked, PTL DEF Spec

\* A turn that is told to hand over has its own message in the transcript, and no unread
\* steer message stands above it.
THEOREM HandoffsKeepTheBoundary == Spec => []HandoffBoundary
<1>1. BoundaryInvariant => HandoffBoundary
    BY DEF BoundaryInvariant, TextStanding, HandoffBoundary
<1> QED
    BY <1>1, BoundaryHolds, PTL

\* Where provider errors roll turns back no steer message arrives, or the other way round:
\* rows and messages tell one story.  (With both they do not: run steer_rollback.)
THEOREM TranscriptHolds ==
    ASSUME NoSteerRolledBack
    PROVE  Spec => []TranscriptInvariant
<1>1. Init => TranscriptInvariant
    BY StoryInit
<1>2. OwnershipInvariant /\ OwnershipInvariant' /\ ClaimInvariant /\ BoundaryInvariant
      /\ LaneAsked /\ TranscriptInvariant /\ [Next]_vars => TranscriptInvariant'
    BY StoryStep DEF StoryKept
<1> QED
    BY <1>1, <1>2, OwnershipHolds, ClaimsHold, BoundaryHolds, LanesAreAsked, PTL DEF Spec

\* No accepted input is lost: until the user deletes it, it waits in a row or stands in
\* the transcript, over edits, promotions, merges, aborts, failures and crashes.
THEOREM NothingIsLost ==
    ASSUME NoSteerRolledBack
    PROVE  Spec => []NoInputLost
<1>1. TranscriptInvariant => NoInputLost
    BY DEF TranscriptInvariant, Present, NoInputLost
<1> QED
    BY <1>1, TranscriptHolds, PTL

\* A steer row that waits can be claimed, and its messages follow it when it is claimed
\* and when it is consumed.
THEOREM ReceiptsAgree ==
    ASSUME NoSteerRolledBack
    PROVE  Spec => []ReceiptsFollowRows
<1>1. TranscriptInvariant => ReceiptsFollowRows
    BY DEF TranscriptInvariant, SteerRowsStand, SteerStanding, ReceiptFits, ReceiptsFollowRows,
           IsOpenSteer, CanClaimSteer, IsUnread, SteerRows
<1> QED
    BY <1>1, TranscriptHolds, PTL

\* The recovery of the next start never throws over a linked message.
THEOREM EveryCrashRecovers ==
    ASSUME NoSteerRolledBack
    PROVE  Spec => []AlwaysRecoverable
<1>1. TranscriptInvariant => AlwaysRecoverable
    BY DEF TranscriptInvariant, SteerRowsStand, SteerStanding, ReceiptFits, AlwaysRecoverable,
           Recoverable, IsUnread, SteerRows
<1> QED
    BY <1>1, TranscriptHolds, PTL

\* The messages of a steer row that is not settled stay in the transcript.
THEOREM SteerFactsStay ==
    ASSUME NoSteerRolledBack
    PROVE  Spec => []SteerFactsSurvive
<1>1. TranscriptInvariant => SteerFactsSurvive
    BY DEF TranscriptInvariant, SteerRowsStand, SteerStanding, SteerFactsSurvive
<1> QED
    BY <1>1, TranscriptHolds, PTL
=============================================================================
