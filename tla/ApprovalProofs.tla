---------------------------- MODULE ApprovalProofs ----------------------------
(***************************************************************************)
(* Proofs about approvals, for any calls, scopes, bindings and capacity.   *)
(*                                                                         *)
(* Sound(b) is the inductive invariant, over a broker b and the calls as   *)
(* they are.  An action changes the broker in steps (it prunes, it may     *)
(* create, it settles), so it is shown first that each step of the broker  *)
(* keeps Sound, and then that the calls may move on.                       *)
(***************************************************************************)
EXTENDS ApprovalProperties, FiniteSetTheorems, TLAPS

\* Where the calls of each kind can be, and which request they are about.
CallsPlaced ==
    /\ pc \in [Calls -> {"idle", "target", "presenting", "waiting", "asked", "leased",
                         "cleared", "granted", "failed"}]
    /\ at \in [Calls -> Requests \union {NoRequest}]
    /\ \A c \in Calls :
         /\ pc[c] \in {"presenting", "waiting", "asked", "leased"} => at[c] \in Requests
         /\ pc[c] \in {"target", "presenting"} => c \in Cli
         /\ pc[c] = "waiting" => c \notin Model
         /\ pc[c] \in {"asked", "leased", "cleared"} => c \in Model
         /\ at[c] \in Requests => Binding[c] = Binding[at[c][1]]

RestTyped ==
    /\ aborted \subseteq Calls
    /\ consent \in [App -> {"none", "open", "yes", "no", "done"}]
    /\ \A c \in App : consent[c] # "none" => at[c] \in Requests
    /\ targets \subseteq Requests /\ lost \subseteq Requests

\* A renderer target or mark belongs to a CLI request that is under way.
TargetsOpen ==
    \A r \in targets \union lost :
        r[1] \in Cli /\ at[r[1]] = r /\ pc[r[1]] \in {"presenting", "waiting"}

\* A caller without a decision is registered where it will be told.
WaitsSound(b) ==
    /\ \A c \in Calls :
         /\ pc[c] = "waiting" /\ b.got[c] = "none" => c \in b.req[at[c]].waiters
         /\ pc[c] \in {"idle", "target", "presenting"} => b.got[c] = "none"
         /\ b.got[c] # "none" => c \notin Model
    /\ \A r \in Requests : \A c \in b.req[r].waiters :
         /\ r = at[c] /\ b.req[r].status = "pending"
         /\ pc[c] = "waiting" /\ b.got[c] = "none"

\* Whoever a request let through had its binding and an approval, and ended it.
GrantsSound(b) ==
    /\ \A r \in Requests :
         /\ b.req[r].status # "gone" => b.granted[r] = {}
         /\ b.req[r].status = "approved" \/ b.granted[r] # {} => "allowed" \in b.said[r]
         /\ r[1] \notin App => \A c, e \in b.granted[r] : c = e
         /\ \A c \in b.granted[r] :
              /\ Binding[c] = Binding[r[1]]
              /\ c \in Model => pc[c] = "granted"
              /\ c \notin Model => r = at[c] /\ b.got[c] = "approved"
    /\ \A c \in Calls :
         /\ b.got[c] = "approved" => at[c] \in Requests /\ c \in b.granted[at[c]]
         /\ pc[c] = "granted" => \E r \in Requests : c \in b.granted[r]
         /\ \A r, q \in Requests : c \in b.granted[r] /\ c \in b.granted[q] => r = q

\* A CLI request is live only while its call needs it.
CliSound(b) ==
    \A r \in Requests : r[1] \in Cli /\ LiveIn(b, r) =>
        /\ at[r[1]] = r
        /\ \/ pc[r[1]] = "presenting"
           \/ pc[r[1]] = "waiting" /\ b.got[r[1]] = "none"

Sound(b) == b \in Broker /\ WaitsSound(b) /\ GrantsSound(b) /\ CliSound(b)

SoundState == CallsPlaced /\ RestTyped /\ TargetsOpen /\ Sound(broker)

-----------------------------------------------------------------------------
(* Requests that end by a refusal. *)

\* From b to b2 some live requests end, and their waiters are told a refusal.
Wipes(b, b2) ==
    /\ b2 \in Broker
    /\ b2.granted = b.granted
    /\ \A r \in Requests :
         /\ b.said[r] \subseteq b2.said[r]
         /\ \/ /\ b2.req[r].status = b.req[r].status
               /\ b2.req[r].waiters = b.req[r].waiters
            \/ LiveIn(b, r) /\ b2.req[r] = Gone
    /\ \A c \in Calls :
         \/ /\ b2.got[c] = b.got[c]
            /\ \A r \in Requests : c \in b.req[r].waiters => c \in b2.req[r].waiters
         \/ /\ b2.got[c] \in Refusals
            /\ \E r \in Requests : c \in b.req[r].waiters /\ b2.req[r] = Gone

LEMMA WipesSound ==
    ASSUME CallsPlaced, NEW b, Sound(b), NEW b2, Wipes(b, b2)
    PROVE  Sound(b2)
<1>1. b2 \in Broker
  BY DEF Wipes
<1> Gone.waiters = {} /\ Gone.status = "gone" /\ "none" \notin Refusals
    /\ "approved" \notin Refusals
  BY DEF Gone, Free, Refusals
<1>a. ASSUME NEW c \in Calls, b2.got[c] # b.got[c]
      PROVE  /\ pc[c] = "waiting" /\ b.got[c] = "none" /\ c \notin Model
             /\ b2.got[c] \in Refusals
             /\ b2.req[at[c]] = Gone
  BY <1>a DEF Wipes, Sound, WaitsSound, CallsPlaced
<1>b. ASSUME NEW r \in Requests, NEW c \in b2.req[r].waiters
      PROVE  c \in Calls /\ c \in b.req[r].waiters /\ b2.req[r].status = b.req[r].status
  BY DEF Wipes, Sound, Broker, Request
<1>2. WaitsSound(b2)
  <2>1. ASSUME NEW c \in Calls
        PROVE  /\ pc[c] = "waiting" /\ b2.got[c] = "none" => c \in b2.req[at[c]].waiters
               /\ pc[c] \in {"idle", "target", "presenting"} => b2.got[c] = "none"
               /\ b2.got[c] # "none" => c \notin Model
    <3>1. CASE b2.got[c] # b.got[c]
      BY <1>a, <3>1
    <3>2. CASE b2.got[c] = b.got[c]
      <4>1. \A r \in Requests : c \in b.req[r].waiters => c \in b2.req[r].waiters
        BY <3>2 DEF Wipes, Sound, WaitsSound
      <4> QED
        BY <3>2, <4>1 DEF Sound, WaitsSound, CallsPlaced
    <3> QED
      BY <3>1, <3>2
  <2>2. ASSUME NEW r \in Requests, NEW c \in b2.req[r].waiters
        PROVE  /\ r = at[c] /\ b2.req[r].status = "pending"
               /\ pc[c] = "waiting" /\ b2.got[c] = "none"
    BY <1>a, <1>b DEF Sound, WaitsSound
  <2> QED
    BY <2>1, <2>2 DEF WaitsSound
<1>c. /\ b2.granted = b.granted
      /\ \A r \in Requests : b.said[r] \subseteq b2.said[r]
      /\ \A r \in Requests : b2.req[r].status \in {b.req[r].status, "gone"}
  BY DEF Wipes
<1>d. \A c \in Calls :
        \/ b2.got[c] = b.got[c]
        \/ b.got[c] = "none" /\ b2.got[c] \notin {"none", "approved"}
  BY <1>a
<1>3. GrantsSound(b2)
  <2> USE DEF Sound, GrantsSound
  <2>1. ASSUME NEW r \in Requests
        PROVE  /\ b2.req[r].status # "gone" => b2.granted[r] = {}
               /\ b2.req[r].status = "approved" \/ b2.granted[r] # {} => "allowed" \in b2.said[r]
               /\ r[1] \notin App => \A c, e \in b2.granted[r] : c = e
    BY <1>c
  <2>2. ASSUME NEW r \in Requests, NEW c \in b2.granted[r]
        PROVE  /\ Binding[c] = Binding[r[1]]
               /\ c \in Model => pc[c] = "granted"
               /\ c \notin Model => r = at[c] /\ b2.got[c] = "approved"
    <3>1. c \in Calls
      BY <1>c DEF Broker
    <3> QED
      BY <1>c, <1>d, <3>1
  <2>3. ASSUME NEW c \in Calls
        PROVE  /\ b2.got[c] = "approved" => at[c] \in Requests /\ c \in b2.granted[at[c]]
               /\ pc[c] = "granted" => \E r \in Requests : c \in b2.granted[r]
               /\ \A r, q \in Requests : c \in b2.granted[r] /\ c \in b2.granted[q] => r = q
    BY <1>c, <1>d
  <2> QED
    BY <2>1, <2>2, <2>3
<1>4. CliSound(b2)
  <2> SUFFICES ASSUME NEW r \in Requests, r[1] \in Cli, LiveIn(b2, r)
               PROVE  /\ at[r[1]] = r
                      /\ \/ pc[r[1]] = "presenting"
                         \/ pc[r[1]] = "waiting" /\ b2.got[r[1]] = "none"
    BY DEF CliSound
  <2>1. LiveIn(b, r) /\ r[1] \in Calls /\ b2.req[r] # Gone
    BY DEF Wipes, LiveIn, Calls
  <2>2. b2.got[r[1]] # b.got[r[1]] => b2.req[at[r[1]]] = Gone
    BY <1>a, <2>1
  <2> QED
    BY <2>1, <2>2 DEF Sound, CliSound
<1> QED
  BY <1>1, <1>2, <1>3, <1>4 DEF Sound

LEMMA RefuseSound ==
    ASSUME CallsPlaced, NEW b, Sound(b), NEW S \in SUBSET Live(b), NEW w \in Refusals
    PROVE  Sound(Refuse(b, S, w))
<1> DEFINE b2 == Refuse(b, S, w)
<1>1. b \in Broker /\ S \subseteq Requests
  BY DEF Sound, Live
<1>2. b2 \in Broker
  BY <1>1 DEF Refuse, Broker, Request, Gone, Free, Decisions
<1>3. b2.granted = b.granted
  BY <1>1 DEF Refuse, Broker
<1>4. ASSUME NEW r \in Requests
      PROVE  /\ b.said[r] \subseteq b2.said[r]
             /\ b2.req[r] = IF r \in S THEN Gone ELSE b.req[r]
             /\ r \in S => LiveIn(b, r)
  BY <1>1 DEF Refuse, Broker, Live
<1>5. ASSUME NEW c \in Calls
      PROVE  b2.got[c] = IF \E r \in S : c \in b.req[r].waiters THEN w ELSE b.got[c]
  BY <1>1 DEF Refuse, Broker
<1>6. Wipes(b, b2)
  BY <1>1, <1>2, <1>3, <1>4, <1>5 DEF Wipes
<1> QED
  BY <1>6, WipesSound

\* What is dropped without a decision must have had no waiters.
LEMMA DropSound ==
    ASSUME CallsPlaced, NEW b, Sound(b), NEW S \in SUBSET Live(b),
           \A r \in S : b.req[r].waiters = {}
    PROVE  Sound(Drop(b, S))
<1> DEFINE b2 == Drop(b, S)
<1>1. b \in Broker /\ S \subseteq Requests
  BY DEF Sound, Live
<1>2. b2 \in Broker /\ b2.granted = b.granted /\ b2.said = b.said /\ b2.got = b.got
  BY <1>1 DEF Drop, Broker, Request, Gone, Free
<1>3. ASSUME NEW r \in Requests
      PROVE  /\ b2.req[r] = IF r \in S THEN Gone ELSE b.req[r]
             /\ r \in S => LiveIn(b, r)
  BY <1>1 DEF Drop, Broker, Live
<1>4. Wipes(b, b2)
  BY <1>1, <1>2, <1>3 DEF Wipes
<1> QED
  BY <1>4, WipesSound

LEMMA ExpireSound ==
    ASSUME CallsPlaced, NEW b, Sound(b), NEW S \in SUBSET Live(b)
    PROVE  Sound(Expire(b, S))
<1> DEFINE P == {r \in S : b.req[r].status = "pending"}
           A == {r \in S : b.req[r].status = "approved"}
           b1 == Refuse(b, P, "timeout")
<1>1. Sound(b1)
  BY RefuseSound DEF Refusals
<1>2. b \in Broker /\ S \subseteq Requests
  BY DEF Sound, Live
<1>3. \A r \in A : b1.req[r] = b.req[r]
  BY <1>2 DEF Refuse, Broker
<1>4. A \in SUBSET Live(b1) /\ \A r \in A : b1.req[r].waiters = {}
  BY <1>1, <1>2, <1>3 DEF Live, LiveIn, Sound, WaitsSound
<1> HIDE DEF b1, P, A
<1>5. Sound(Drop(b1, A))
  BY <1>1, <1>4, DropSound
<1> QED
  BY <1>5 DEF Expire, b1, P, A

LEMMA PruneSound ==
    ASSUME CallsPlaced, NEW b, Sound(b)
    PROVE  Sound(PruneExpired(b))
<1>1. {r \in Live(b) : b.req[r].due} \in SUBSET Live(b)
  OBVIOUS
<1> QED
  BY <1>1, ExpireSound DEF PruneExpired

LEMMA CancelEachSound ==
    ASSUME CallsPlaced, NEW b, Sound(b), NEW S
    PROVE  Sound(CancelEach(b, S))
<1> DEFINE p == PruneExpired(b)
<1>1. Sound(p) /\ S \intersect Live(p) \in SUBSET Live(p)
  BY PruneSound
<1> HIDE DEF p
<1>2. Sound(Refuse(p, S \intersect Live(p), "cancelled"))
  BY <1>1, RefuseSound DEF Refusals
<1> QED
  BY <1>2 DEF CancelEach, p

\* A deadline that passes changes nothing yet.
LEMMA ElapseSound ==
    ASSUME CallsPlaced, NEW b, Sound(b), NEW r \in Requests
    PROVE  Sound([b EXCEPT !.req[r].due = TRUE])
<1> DEFINE b2 == [b EXCEPT !.req[r].due = TRUE]
<1>1. b \in Broker
  BY DEF Sound
<1>2. b2 \in Broker /\ b2.granted = b.granted /\ b2.said = b.said /\ b2.got = b.got
  BY <1>1, ZenonT(40) DEF Broker, Request
<1>3. ASSUME NEW q \in Requests
      PROVE  b2.req[q].status = b.req[q].status /\ b2.req[q].waiters = b.req[q].waiters
  BY <1>1 DEF Broker, Request
<1>4. Wipes(b, b2)
  BY <1>1, <1>2, <1>3 DEF Wipes
<1> QED
  BY <1>4, WipesSound

-----------------------------------------------------------------------------
(* Requests that let someone through. *)

LEMMA AllowSound ==
    ASSUME CallsPlaced, NEW b, Sound(b), NEW r \in Requests, b.req[r].status = "pending"
    PROVE  Sound(Allow(b, r))
<1> DEFINE b2 == Allow(b, r)
           W == b.req[r].waiters
<1>1. b \in Broker /\ W \subseteq Calls
  BY DEF Sound, Broker, Request
<1>2. \A c \in W : /\ r = at[c] /\ pc[c] = "waiting" /\ b.got[c] = "none" /\ c \notin Model
                   /\ Binding[c] = Binding[r[1]] /\ (r[1] \in Model) = (c \in Model)
                   /\ r[1] \in Cli => c = r[1]
  <2> SUFFICES ASSUME NEW c \in W
               PROVE  /\ r = at[c] /\ pc[c] = "waiting" /\ b.got[c] = "none" /\ c \notin Model
                      /\ Binding[c] = Binding[r[1]] /\ (r[1] \in Model) = (c \in Model)
                      /\ r[1] \in Cli => c = r[1]
    OBVIOUS
  <2>1. /\ r = at[c] /\ pc[c] = "waiting" /\ b.got[c] = "none" /\ c \notin Model
        /\ Binding[c] = Binding[r[1]] /\ c \in Calls /\ r[1] \in Calls
    BY <1>1 DEF Sound, WaitsSound, CallsPlaced, Requests
  <2> QED
    BY <2>1, BindingAssumption
<1>3. b2 \in Broker
  <2> DEFINE gone == Consume(r) /\ W # {}
             entry == IF gone THEN Gone
                      ELSE [b.req[r] EXCEPT !.status = "approved", !.waiters = {}]
  <2>1. entry \in Request
    <3>1. b.req[r] \in Request
      BY <1>1 DEF Broker
    <3>2. [b.req[r] EXCEPT !.status = "approved", !.waiters = {}] \in Request
      BY <3>1 DEF Request
    <3>3. Gone \in Request
      BY DEF Request, Gone, Free
    <3> QED
      BY <3>2, <3>3
  <2>2. [b.req EXCEPT ![r] = entry] \in [Requests -> Request]
    BY <1>1, <2>1 DEF Broker
  <2>3. [b.granted EXCEPT ![r] = @ \union W] \in [Requests -> SUBSET Calls]
    BY <1>1 DEF Broker
  <2>4. [b.said EXCEPT ![r] = @ \union {"allowed"}]
            \in [Requests -> SUBSET {"allowed", "refused"}]
    BY <1>1 DEF Broker
  <2>5. [c \in Calls |-> IF c \in W THEN "approved" ELSE b.got[c]]
            \in [Calls -> {"none"} \union Decisions]
    BY <1>1 DEF Broker, Decisions
  <2>6. b2 = [b EXCEPT !.req = [b.req EXCEPT ![r] = entry],
                       !.got = [c \in Calls |-> IF c \in W THEN "approved" ELSE b.got[c]],
                       !.granted = [b.granted EXCEPT ![r] = @ \union W],
                       !.said = [b.said EXCEPT ![r] = @ \union {"allowed"}]]
    BY <1>1 DEF Allow, Broker
  <2> HIDE DEF b2, entry, W
  <2> QED
    BY <1>1, <2>2, <2>3, <2>4, <2>5, <2>6 DEF Broker
<1>4. ASSUME NEW q \in Requests
      PROVE  /\ q # r => b2.req[q] = b.req[q]
             /\ b2.req[r].waiters = {}
             /\ b2.req[r].status = IF r[1] \notin Model /\ W # {} THEN "gone" ELSE "approved"
             /\ b2.granted[q] = IF q = r THEN b.granted[r] \union W ELSE b.granted[q]
             /\ b2.said[q] = IF q = r THEN b.said[r] \union {"allowed"} ELSE b.said[q]
  BY <1>1 DEF Allow, Broker, Request, Gone, Free, Consume
<1>5. ASSUME NEW c \in Calls
      PROVE  b2.got[c] = IF c \in W THEN "approved" ELSE b.got[c]
  BY <1>1 DEF Allow, Broker
<1>6. b.granted[r] = {}
  BY DEF Sound, GrantsSound
<1>7. r[1] \in Model => W = {}
  BY <1>2
<1> HIDE DEF b2, W
<1>8. WaitsSound(b2)
  <2>1. ASSUME NEW c \in Calls
        PROVE  /\ pc[c] = "waiting" /\ b2.got[c] = "none" => c \in b2.req[at[c]].waiters
               /\ pc[c] \in {"idle", "target", "presenting"} => b2.got[c] = "none"
               /\ b2.got[c] # "none" => c \notin Model
    BY <1>2, <1>4, <1>5 DEF Sound, WaitsSound, CallsPlaced, W
  <2>2. ASSUME NEW q \in Requests, NEW c \in b2.req[q].waiters
        PROVE  /\ q = at[c] /\ b2.req[q].status = "pending"
               /\ pc[c] = "waiting" /\ b2.got[c] = "none"
    <3>1. q # r /\ c \in b.req[q].waiters /\ b2.req[q] = b.req[q]
      BY <1>4
    <3>2. c \in Calls /\ c \notin W
      BY <1>1, <1>2, <3>1 DEF Sound, WaitsSound, Broker, Request
    <3> QED
      BY <1>5, <3>1, <3>2 DEF Sound, WaitsSound
  <2> QED
    BY <2>1, <2>2 DEF WaitsSound
<1>9. GrantsSound(b2)
  <2> USE DEF Sound, GrantsSound
  <2>1. ASSUME NEW q \in Requests
        PROVE  /\ b2.req[q].status # "gone" => b2.granted[q] = {}
               /\ b2.req[q].status = "approved" \/ b2.granted[q] # {} => "allowed" \in b2.said[q]
               /\ q[1] \notin App => \A c, e \in b2.granted[q] : c = e
    <3>1. CASE q = r
      <4>1. r[1] \in Calls
        BY DEF Requests
      <4> QED
        BY <1>2, <1>4, <1>6, <1>7, <3>1, <4>1 DEF Calls
    <3>2. CASE q # r
      BY <1>4, <3>2
    <3> QED
      BY <3>1, <3>2
  <2>2. ASSUME NEW q \in Requests, NEW c \in b2.granted[q]
        PROVE  /\ Binding[c] = Binding[q[1]]
               /\ c \in Model => pc[c] = "granted"
               /\ c \notin Model => q = at[c] /\ b2.got[c] = "approved"
    <3>1. c \in Calls
      BY <1>3 DEF Broker
    <3> QED
      BY <1>2, <1>4, <1>5, <1>6, <3>1
  <2>3. ASSUME NEW c \in Calls
        PROVE  /\ b2.got[c] = "approved" => at[c] \in Requests /\ c \in b2.granted[at[c]]
               /\ pc[c] = "granted" => \E q \in Requests : c \in b2.granted[q]
    BY <1>2, <1>4, <1>5, <1>6
  <2>4. ASSUME NEW c \in Calls, NEW q \in Requests, NEW p \in Requests,
               c \in b2.granted[q], c \in b2.granted[p]
        PROVE  q = p
    <3>1. CASE c \in Model
      BY <1>2, <1>4, <1>6, <2>4, <3>1
    <3>2. CASE c \notin Model
      BY <2>2, <2>4, <3>2
    <3> QED
      BY <3>1, <3>2
  <2> QED
    BY <2>1, <2>2, <2>3, <2>4
<1>10. CliSound(b2)
  <2> SUFFICES ASSUME NEW q \in Requests, q[1] \in Cli, LiveIn(b2, q)
               PROVE  /\ at[q[1]] = q
                      /\ \/ pc[q[1]] = "presenting"
                         \/ pc[q[1]] = "waiting" /\ b2.got[q[1]] = "none"
    BY DEF CliSound
  <2>1. LiveIn(b, q) /\ q[1] \in Calls /\ q[1] \notin Model
    BY <1>4, CallsAssumption DEF LiveIn, Calls, Tools
  <2>2. CASE q = r
    <3>1. W = {}
      BY <1>4, <2>1, <2>2 DEF LiveIn
    <3> QED
      BY <1>5, <2>1, <3>1 DEF Sound, CliSound
  <2>3. CASE q # r
    <3>1. q[1] \in W => at[q[1]] = r
      BY <1>2
    <3> QED
      BY <1>5, <2>1, <2>3, <3>1 DEF Sound, CliSound
  <2> QED
    BY <2>2, <2>3
<1> QED
  BY <1>3, <1>8, <1>9, <1>10 DEF Sound, b2

LEMMA SettledSound ==
    ASSUME CallsPlaced, NEW b, Sound(b), NEW r \in Requests, NEW decision \in Decisions
    PROVE  Sound(Settled(b, r, decision))
<1>1. CASE decision = "approved"
  BY <1>1, AllowSound DEF Settled
<1>2. CASE decision # "approved" /\ LiveIn(b, r)
  <2>1. {r} \in SUBSET Live(b) /\ decision \in Refusals
    BY <1>2 DEF Live, Decisions
  <2>2. Sound(Refuse(b, {r}, decision))
    BY <2>1, RefuseSound
  <2> QED
    BY <1>2, <2>2 DEF Settled
<1>3. CASE decision # "approved" /\ ~LiveIn(b, r)
  BY <1>3 DEF Settled
<1> QED
  BY <1>1, <1>2, <1>3

LEMMA ResolveSound ==
    ASSUME CallsPlaced, NEW b, Sound(b), NEW r \in Requests, NEW decision \in Decisions
    PROVE  Sound(Resolve(b, r, decision))
BY PruneSound, SettledSound DEF Resolve

-----------------------------------------------------------------------------
(* New requests, and calls that move on. *)

Core(b) == b \in Broker /\ WaitsSound(b) /\ GrantsSound(b)

\* A created request, or one that is shared, has the caller's binding and no one waits
\* or has been let through.
LEMMA CreatedSound ==
    ASSUME CallsPlaced, NEW b, Core(b), NEW c \in Calls, NEW made \in Created(b, c)
    PROVE  /\ Core(made.broker)
           /\ made.req \in Requests
           /\ Binding[c] = Binding[made.req[1]]
           /\ made.broker.req[made.req].status = "pending"
           /\ made.broker.got = b.got /\ made.broker.granted = b.granted
           /\ \A q \in Requests : q # made.req => made.broker.req[q] = b.req[q]
           /\ c \in Cli => made.req[1] = c
<1> DEFINE b2 == made.broker
           r == made.req
<1>0. b \in Broker /\ {c} \ App \subseteq Calls
  BY DEF Core
<1>1. CASE c \in Tools /\ Shareable(b, c) # {}
  <2>1. PICK q \in Shareable(b, c) :
          made = [broker |-> [b EXCEPT !.req[q].aborts = @ \union ({c} \ App)], req |-> q]
    BY <1>1 DEF Created
  <2>2. /\ q \in Requests /\ b.req[q].status = "pending" /\ Binding[c] = Binding[q[1]]
        /\ r = q /\ b2 = [b EXCEPT !.req[q].aborts = @ \union ({c} \ App)]
    BY <2>1 DEF Shareable, Live
  <2> DEFINE entry == [b.req[q] EXCEPT !.aborts = @ \union ({c} \ App)]
  <2>a. b.req[q] \in Request
    BY <1>0, <2>2 DEF Broker
  <2>b. entry \in Request /\ entry.status = b.req[q].status /\ entry.waiters = b.req[q].waiters
    BY <1>0, <2>a DEF Request
  <2>c. b2 = [b EXCEPT !.req[q] = entry]
    BY <2>2
  <2> HIDE DEF b2, r, entry
  <2>d. q \in Requests
    BY <2>2
  <2>3. b2 \in Broker /\ b2.granted = b.granted /\ b2.said = b.said /\ b2.got = b.got
    BY <1>0, <2>b, <2>c, <2>d DEF Broker
  <2>4. ASSUME NEW p \in Requests
        PROVE  /\ b2.req[p].status = b.req[p].status /\ b2.req[p].waiters = b.req[p].waiters
               /\ p # q => b2.req[p] = b.req[p]
    BY <1>0, <2>2, <2>b, <2>c DEF Broker
  <2>5. WaitsSound(b2)
    BY <2>3, <2>4 DEF Core, WaitsSound, CallsPlaced
  <2>6. GrantsSound(b2)
    BY <2>3, <2>4 DEF Core, GrantsSound
  <2> QED
    BY <1>1, <2>2, <2>3, <2>4, <2>5, <2>6, CallsAssumption DEF Core, b2, r, Tools
<1>2. CASE ~(c \in Tools /\ Shareable(b, c) # {})
  <2> DEFINE entry == [Free EXCEPT !.status = "pending", !.aborts = {c} \ App]
  <2>1. PICK q \in Requests :
          Fresh(b, c, q) /\ made = [broker |-> [b EXCEPT !.req[q] = entry], req |-> q]
    BY <1>2 DEF Created
  <2>2. /\ q[1] = c /\ b.req[q].status = "free"
        /\ r = q /\ b2 = [b EXCEPT !.req[q] = entry]
    BY <2>1 DEF Fresh
  <2>3. entry \in Request /\ entry.status = "pending" /\ entry.waiters = {}
    BY <1>0 DEF Request, Free
  <2> HIDE DEF b2, r, entry
  <2>4. b2 \in Broker /\ b2.granted = b.granted /\ b2.said = b.said /\ b2.got = b.got
    BY <1>0, <2>2, <2>3 DEF Broker
  <2>5. ASSUME NEW p \in Requests
        PROVE  b2.req[p] = IF p = q THEN entry ELSE b.req[p]
    BY <1>0, <2>2 DEF Broker
  <2>6. b.req[q].waiters = {} /\ b.granted[q] = {}
    <3>1. \A e \in b.req[q].waiters : FALSE
      BY <2>2 DEF Core, WaitsSound
    <3> QED
      BY <2>2, <3>1 DEF Core, GrantsSound
  <2>7. WaitsSound(b2)
    <3>1. \A p \in Requests : b2.req[p].waiters = b.req[p].waiters
      BY <2>3, <2>5, <2>6
    <3>2. \A p \in Requests : b.req[p].waiters # {} => b2.req[p] = b.req[p]
      BY <2>5, <2>6
    <3> QED
      BY <2>4, <3>1, <3>2 DEF Core, WaitsSound, CallsPlaced
  <2>8. GrantsSound(b2)
    <3>1. \A p \in Requests : b2.req[p].status # "pending" => b2.req[p] = b.req[p]
      BY <2>3, <2>5
    <3>2. \A p \in Requests : b2.req[p].status # "gone" => b2.granted[p] = {}
      BY <2>4, <2>5, <2>6 DEF Core, GrantsSound
    <3> QED
      BY <2>4, <3>1, <3>2 DEF Core, GrantsSound
  <2> QED
    BY <2>2, <2>3, <2>4, <2>5, <2>7, <2>8 DEF Core, b2, r
<1> QED
  BY <1>1, <1>2

\* A call that no request holds may move on, and may be about another request.
Leaves(b, c, place) ==
    /\ broker' = b /\ Core(b)
    /\ pc' = [pc EXCEPT ![c] = place]
    /\ \A e \in Calls : e # c => at'[e] = at[e]
    /\ pc[c] # "granted" /\ (pc[c] = "waiting" => b.got[c] # "none")
    /\ at' = at \/ c \in Model \/ b.got[c] = "none"
    /\ place # "waiting" /\ (place \in {"idle", "target", "presenting"} => b.got[c] = "none")
    /\ IF place = "granted" THEN \E q \in Requests : c \in b.granted[q]
       ELSE \A q \in Requests : c \notin b.granted[q] \/ c \notin Model

LEMMA MoveCore ==
    ASSUME CallsPlaced, NEW b, NEW c \in Calls, NEW place, Leaves(b, c, place)
    PROVE  Core(broker)'
<1> USE DEF CallsPlaced, Leaves
<1>1. \A q \in Requests : c \notin b.req[q].waiters
  BY DEF Core, WaitsSound
<1>2. \A e \in Calls : e # c => pc'[e] = pc[e] /\ at'[e] = at[e]
  OBVIOUS
<1>3. pc'[c] = place
  OBVIOUS
<1>4. WaitsSound(broker)'
  <2>1. ASSUME NEW e \in Calls
        PROVE  /\ pc'[e] = "waiting" /\ broker'.got[e] = "none" => e \in broker'.req[at'[e]].waiters
               /\ pc'[e] \in {"idle", "target", "presenting"} => broker'.got[e] = "none"
               /\ broker'.got[e] # "none" => e \notin Model
    BY <1>2, <1>3 DEF Core, WaitsSound
  <2>2. ASSUME NEW q \in Requests, NEW e \in broker'.req[q].waiters
        PROVE  /\ q = at'[e] /\ broker'.req[q].status = "pending"
               /\ pc'[e] = "waiting" /\ broker'.got[e] = "none"
    <3>1. e \in Calls /\ e # c
      BY <1>1 DEF Core, Broker, Request
    <3> QED
      BY <1>2, <3>1 DEF Core, WaitsSound
  <2> QED
    BY <2>1, <2>2 DEF WaitsSound
<1>5. GrantsSound(broker)'
  <2>1. ASSUME NEW q \in Requests, NEW e \in b.granted[q]
        PROVE  /\ Binding[e] = Binding[q[1]]
               /\ e \in Model => pc'[e] = "granted"
               /\ e \notin Model => q = at'[e] /\ b.got[e] = "approved"
    <3>1. e \in Calls
      BY DEF Core, Broker
    <3>2. CASE e = c
      BY <1>3, <3>2 DEF Core, GrantsSound
    <3>3. CASE e # c
      BY <1>2, <3>1, <3>3 DEF Core, GrantsSound
    <3> QED
      BY <3>2, <3>3
  <2>2. ASSUME NEW e \in Calls
        PROVE  /\ b.got[e] = "approved" => at'[e] \in Requests /\ e \in b.granted[at'[e]]
               /\ pc'[e] = "granted" => \E q \in Requests : e \in b.granted[q]
    <3>1. CASE e = c
      BY <1>3, <3>1 DEF Core, GrantsSound, WaitsSound
    <3>2. CASE e # c
      BY <1>2, <3>2 DEF Core, GrantsSound
    <3> QED
      BY <3>1, <3>2
  <2> QED
    BY <2>1, <2>2 DEF Core, GrantsSound
<1> QED
  BY <1>4, <1>5 DEF Core

\* The end of wait() for call c: from b the broker tells c, or registers it with r.
LEMMA WaitEnds ==
    ASSUME CallsPlaced, NEW b, Sound(b), NEW c \in Calls \ Model, NEW r \in Requests,
           pc[c] \in {"idle", "presenting"}, Binding[c] = Binding[r[1]],
           pc' = [pc EXCEPT ![c] = "waiting"], at' = [at EXCEPT ![c] = r],
           c \in Cli => at[c] = r,
           \/ ~LiveIn(b, r) /\ broker' = [b EXCEPT !.got[c] = "cancelled"]
           \/ /\ b.req[r] = Gone /\ b.granted[r] = {} /\ "allowed" \in b.said[r]
              /\ broker' = [b EXCEPT !.got[c] = "approved", !.granted[r] = @ \union {c}]
           \/ /\ b.req[r].status = "pending"
              /\ broker' = [b EXCEPT !.req[r].waiters = @ \union {c},
                                     !.req[r].aborts = @ \union ({c} \ App)]
    PROVE  Sound(broker)'
<1> USE DEF CallsPlaced
<1>1. /\ b \in Broker /\ c \in Calls /\ c \notin Model /\ r[1] \in Calls
      /\ \A q \in Requests : c \notin b.req[q].waiters /\ c \notin b.granted[q]
      /\ b.got[c] = "none"
      /\ \A e \in Calls : e # c => pc'[e] = pc[e] /\ at'[e] = at[e]
      /\ pc'[c] = "waiting" /\ at'[c] = r
  BY DEF Sound, WaitsSound, GrantsSound, Requests
<1>2. /\ r[1] \notin Model
      /\ c \in Cli => r[1] = c
      /\ r[1] \in Cli => r[1] = c
  BY <1>1, BindingAssumption
<1>3. /\ \A q \in Requests : b.req[q] \in Request /\ b.granted[q] \subseteq Calls
      /\ \A q \in Requests : b.req[q].waiters \subseteq Calls
  BY <1>1 DEF Broker, Request
<1>c. ASSUME NEW q \in Requests, q[1] \in Cli, LiveIn(b, q), q # r
      PROVE  q[1] # c /\ q[1] \in Calls /\ at'[q[1]] = q
             /\ \/ pc'[q[1]] = "presenting"
                \/ pc'[q[1]] = "waiting" /\ b.got[q[1]] = "none"
  BY <1>c, <1>1 DEF Sound, CliSound, Calls
<1>4. CASE ~LiveIn(b, r) /\ broker' = [b EXCEPT !.got[c] = "cancelled"]
  <2>1. /\ broker' \in Broker /\ broker'.req = b.req /\ broker'.granted = b.granted
        /\ broker'.said = b.said
        /\ \A e \in Calls : broker'.got[e] = IF e = c THEN "cancelled" ELSE b.got[e]
    BY <1>1, <1>4 DEF Broker, Decisions, Refusals
  <2>2. WaitsSound(broker)'
    BY <1>1, <1>3, <2>1 DEF Sound, WaitsSound
  <2>3. GrantsSound(broker)'
    BY <1>1, <1>3, <2>1 DEF Sound, GrantsSound
  <2>4. CliSound(broker)'
    BY <1>4, <1>c, <2>1 DEF CliSound, LiveIn, Calls
  <2> QED
    BY <2>1, <2>2, <2>3, <2>4 DEF Sound
<1>5. CASE /\ b.req[r] = Gone /\ b.granted[r] = {} /\ "allowed" \in b.said[r]
           /\ broker' = [b EXCEPT !.got[c] = "approved", !.granted[r] = @ \union {c}]
  <2>1. /\ broker' \in Broker /\ broker'.req = b.req /\ broker'.said = b.said
        /\ \A q \in Requests : broker'.granted[q] = IF q = r THEN {c} ELSE b.granted[q]
        /\ \A e \in Calls : broker'.got[e] = IF e = c THEN "approved" ELSE b.got[e]
    <3> DEFINE H == [b.granted EXCEPT ![r] = {c}]
    <3> DEFINE G == [b.got EXCEPT ![c] = "approved"]
    <3>1. /\ H \in [Requests -> SUBSET Calls]
          /\ \A q \in Requests : H[q] = IF q = r THEN {c} ELSE b.granted[q]
      BY <1>1 DEF Broker
    <3>2. /\ G \in [Calls -> {"none"} \union Decisions]
          /\ \A e \in Calls : G[e] = IF e = c THEN "approved" ELSE b.got[e]
      BY <1>1 DEF Broker, Decisions
    <3>3. broker' = [b EXCEPT !.got = G, !.granted = H]
      BY <1>1, <1>5 DEF Broker
    <3> HIDE DEF G, H
    <3> QED
      BY <1>1, <3>1, <3>2, <3>3 DEF Broker
  <2>2. WaitsSound(broker)'
    BY <1>1, <1>3, <2>1 DEF Sound, WaitsSound
  <2>3. GrantsSound(broker)'
    <3>1. ASSUME NEW q \in Requests
          PROVE  /\ b.req[q].status # "gone" => broker'.granted[q] = {}
                 /\ b.req[q].status = "approved" \/ broker'.granted[q] # {} => "allowed" \in b.said[q]
                 /\ q[1] \notin App => \A x, y \in broker'.granted[q] : x = y
                 /\ \A e \in broker'.granted[q] :
                      /\ Binding[e] = Binding[q[1]]
                      /\ e \in Model => pc'[e] = "granted"
                      /\ e \notin Model => q = at'[e] /\ broker'.got[e] = "approved"
      BY <1>1, <1>3, <1>5, <2>1 DEF Sound, GrantsSound, Gone, Free
    <3>2. ASSUME NEW e \in Calls
          PROVE  /\ broker'.got[e] = "approved" => at'[e] \in Requests /\ e \in broker'.granted[at'[e]]
                 /\ pc'[e] = "granted" => \E q \in Requests : e \in broker'.granted[q]
                 /\ \A q, p \in Requests : e \in broker'.granted[q] /\ e \in broker'.granted[p] => q = p
      BY <1>1, <1>5, <2>1 DEF Sound, GrantsSound
    <3> QED
      BY <2>1, <3>1, <3>2 DEF GrantsSound
  <2>4. CliSound(broker)'
    BY <1>5, <1>c, <2>1 DEF CliSound, LiveIn, Calls, Gone, Free
  <2> QED
    BY <2>1, <2>2, <2>3, <2>4 DEF Sound
<1>6. CASE /\ b.req[r].status = "pending"
           /\ broker' = [b EXCEPT !.req[r].waiters = @ \union {c},
                                  !.req[r].aborts = @ \union ({c} \ App)]
  <2> DEFINE entry == [b.req[r] EXCEPT !.waiters = @ \union {c}, !.aborts = @ \union ({c} \ App)]
  <2>1. entry \in Request /\ entry.status = "pending" /\ entry.waiters = b.req[r].waiters \union {c}
    <3>1. b.req[r] \in Request /\ b.req[r].status = "pending" /\ {c} \ App \subseteq Calls
      BY <1>1, <1>3, <1>6
    <3> QED
      BY <1>1, <3>1 DEF Request
  <2>2. broker' = [b EXCEPT !.req[r] = entry]
    BY <1>1, <1>6 DEF Broker
  <2> HIDE DEF entry
  <2>3. /\ broker' \in Broker /\ broker'.got = b.got /\ broker'.granted = b.granted
        /\ broker'.said = b.said
        /\ \A q \in Requests : broker'.req[q] = IF q = r THEN entry ELSE b.req[q]
    BY <1>1, <2>1, <2>2 DEF Broker
  <2>4. WaitsSound(broker)'
    BY <1>1, <1>3, <2>1, <2>3 DEF Sound, WaitsSound
  <2>5. GrantsSound(broker)'
    <3>0. ASSUME NEW q \in Requests
          PROVE  broker'.req[q].status = b.req[q].status
      BY <1>6, <2>1, <2>3
    <3>1. ASSUME NEW q \in Requests, NEW e \in b.granted[q]
          PROVE  /\ e \in Model => pc'[e] = "granted"
                 /\ e \notin Model => q = at'[e] /\ b.got[e] = "approved"
      <4>1. e \in Calls /\ e # c
        BY <1>1, <1>3
      <4> QED
        BY <1>1, <4>1 DEF Sound, GrantsSound
    <3>2. ASSUME NEW e \in Calls
          PROVE  /\ b.got[e] = "approved" => at'[e] \in Requests /\ e \in b.granted[at'[e]]
                 /\ pc'[e] = "granted" => \E q \in Requests : e \in b.granted[q]
      BY <1>1 DEF Sound, GrantsSound
    <3> QED
      BY <2>3, <3>0, <3>1, <3>2 DEF Sound, GrantsSound
  <2>6. CliSound(broker)'
    BY <1>1, <1>2, <1>c, <2>3 DEF CliSound, LiveIn, Calls
  <2> QED
    BY <2>3, <2>4, <2>5, <2>6 DEF Sound
<1> QED
  BY <1>4, <1>5, <1>6

\* wait() of a call whose request was created for it, or for a call it shares it with.
LEMMA WaitSound ==
    ASSUME CallsPlaced, NEW b, Sound(b), NEW c \in Calls \ Model, NEW r \in Requests,
           pc[c] \in {"idle", "presenting"}, Binding[c] = Binding[r[1]],
           broker' = Waits(b, c, r), pc' = [pc EXCEPT ![c] = "waiting"],
           at' = [at EXCEPT ![c] = r], c \in Cli => at[c] = r
    PROVE  Sound(broker)'
<1>1. b \in Broker /\ r[1] \in Calls
  BY DEF Sound, Requests
<1>2. r[1] \notin Model
  BY <1>1, BindingAssumption
<1>3. CASE ~LiveIn(b, r)
  <2>1. broker' = [b EXCEPT !.got[c] = "cancelled"]
    BY <1>3 DEF Waits
  <2> QED
    BY <1>3, <2>1, WaitEnds
<1>4. CASE LiveIn(b, r) /\ c \in aborted
  <2> DEFINE b1 == Refuse(b, {r}, "cancelled")
  <2>1. {r} \in SUBSET Live(b)
    BY <1>4 DEF Live
  <2>2. Sound(b1)
    BY <2>1, RefuseSound DEF Refusals
  <2>3. ~LiveIn(b1, r)
    BY <1>1 DEF Refuse, Broker, LiveIn, Gone, Free
  <2>4. broker' = [b1 EXCEPT !.got[c] = "cancelled"]
    BY <1>4 DEF Waits
  <2> HIDE DEF b1
  <2> QED
    BY <2>2, <2>3, <2>4, WaitEnds
<1>5. CASE b.req[r].status = "approved" /\ c \notin aborted
  <2> DEFINE b1 == Drop(b, {r})
  <2>1. {r} \in SUBSET Live(b) /\ \A q \in {r} : b.req[q].waiters = {}
    BY <1>5 DEF Live, LiveIn, Sound, WaitsSound
  <2>2. Sound(b1)
    BY <2>1, DropSound
  <2>3. b1.req[r] = Gone /\ b1.granted[r] = {} /\ "allowed" \in b1.said[r]
    BY <1>1, <1>5 DEF Drop, Broker, Sound, GrantsSound
  <2>4. broker' = [b1 EXCEPT !.got[c] = "approved", !.granted[r] = @ \union {c}]
    BY <1>2, <1>5 DEF Waits, LiveIn, Consume
  <2> HIDE DEF b1
  <2> QED
    BY <2>2, <2>3, <2>4, WaitEnds
<1>6. CASE b.req[r].status = "pending" /\ c \notin aborted
  <2>1. broker' = [b EXCEPT !.req[r].waiters = @ \union {c},
                            !.req[r].aborts = @ \union ({c} \ App)]
    BY <1>6 DEF Waits, LiveIn
  <2> QED
    BY <1>6, <2>1, WaitEnds
<1> QED
  BY <1>3, <1>4, <1>5, <1>6 DEF LiveIn

\* An approval that a model's call consumes ends, and lets that call through.
LEMMA ConsumedSound ==
    ASSUME CallsPlaced, NEW b, Sound(b), NEW c \in Model, NEW r \in Consumable(b, c),
           pc[c] # "granted", broker' = Consumed(b, c, r),
           pc' = [pc EXCEPT ![c] = "granted"], at' = at
    PROVE  Sound(broker)'
<1> DEFINE b1 == Drop(b, {r})
<1>1. /\ b \in Broker /\ c \in Calls /\ r \in Requests /\ r[1] \in Calls
      /\ b.req[r].status = "approved" /\ Binding[r[1]] = Binding[c] /\ LiveIn(b, r)
  BY DEF Sound, Consumable, Live, Requests, Calls
<1>2. r[1] \in Model /\ r[1] \notin Cli /\ c \notin Cli
  BY <1>1, BindingAssumption, CallsAssumption DEF Tools
<1>3. Sound(b1)
  <2>1. {r} \in SUBSET Live(b) /\ \A q \in {r} : b.req[q].waiters = {}
    BY <1>1 DEF Live, Sound, WaitsSound
  <2> QED
    BY <2>1, DropSound
<1>4. /\ b1.req[r] = Gone /\ b1.granted[r] = {} /\ "allowed" \in b1.said[r]
      /\ b1 \in Broker
  BY <1>1, <1>3 DEF Drop, Broker, Sound, GrantsSound
<1>5. broker' = [b1 EXCEPT !.granted[r] = @ \union {c}]
  BY DEF Consumed
<1> HIDE DEF b1
<1>6. /\ broker' \in Broker /\ broker'.req = b1.req /\ broker'.said = b1.said
      /\ broker'.got = b1.got
      /\ \A q \in Requests : broker'.granted[q] = IF q = r THEN {c} ELSE b1.granted[q]
  <2> DEFINE H == [b1.granted EXCEPT ![r] = {c}]
  <2>1. /\ H \in [Requests -> SUBSET Calls]
        /\ \A q \in Requests : H[q] = IF q = r THEN {c} ELSE b1.granted[q]
    BY <1>1, <1>4 DEF Broker
  <2>2. broker' = [b1 EXCEPT !.granted = H]
    BY <1>4, <1>5 DEF Broker
  <2> HIDE DEF H
  <2> QED
    BY <1>4, <2>1, <2>2 DEF Broker
<1>7. /\ \A e \in Calls : e # c => pc'[e] = pc[e]
      /\ pc'[c] = "granted"
      /\ pc[c] \notin {"waiting", "presenting"}
      /\ \A q \in Requests : c \notin b1.req[q].waiters /\ c \notin b1.granted[q]
      /\ \A q \in Requests : b1.req[q].waiters \subseteq Calls /\ b1.granted[q] \subseteq Calls
  BY <1>1, <1>2, <1>3, <1>4, CallsAssumption
  DEF CallsPlaced, Sound, WaitsSound, GrantsSound, Broker, Request
<1>8. WaitsSound(broker)'
  BY <1>3, <1>6, <1>7 DEF Sound, WaitsSound
<1>9. GrantsSound(broker)'
  <2>1. ASSUME NEW q \in Requests
        PROVE  /\ b1.req[q].status # "gone" => broker'.granted[q] = {}
               /\ b1.req[q].status = "approved" \/ broker'.granted[q] # {}
                    => "allowed" \in b1.said[q]
               /\ q[1] \notin App => \A x, y \in broker'.granted[q] : x = y
    BY <1>3, <1>4, <1>6 DEF Sound, GrantsSound, Gone, Free
  <2>2. ASSUME NEW q \in Requests, NEW e \in broker'.granted[q]
        PROVE  /\ Binding[e] = Binding[q[1]]
               /\ e \in Model => pc'[e] = "granted"
               /\ e \notin Model => q = at'[e] /\ b1.got[e] = "approved"
    BY <1>1, <1>3, <1>6, <1>7 DEF Sound, GrantsSound
  <2>3. ASSUME NEW e \in Calls
        PROVE  /\ b1.got[e] = "approved" => at'[e] \in Requests /\ e \in broker'.granted[at'[e]]
               /\ pc'[e] = "granted" => \E q \in Requests : e \in broker'.granted[q]
               /\ \A q, p \in Requests :
                    e \in broker'.granted[q] /\ e \in broker'.granted[p] => q = p
    BY <1>1, <1>3, <1>4, <1>6, <1>7 DEF Sound, GrantsSound
  <2> QED
    BY <1>6, <2>1, <2>2, <2>3 DEF GrantsSound
<1>10. CliSound(broker)'
  BY <1>2, <1>3, <1>6, <1>7 DEF Sound, CliSound, LiveIn
<1> QED
  BY <1>6, <1>8, <1>9, <1>10 DEF Sound

-----------------------------------------------------------------------------
(* The actions. *)

\* Actions that leave the calls where they are.
LEMMA StaySound ==
    ASSUME SoundState, Sound(broker'), UNCHANGED <<pc, at>>, RestTyped',
           targets' \union lost' \subseteq targets \union lost
    PROVE  SoundState'
<1>1. CallsPlaced' /\ TargetsOpen'
  BY DEF SoundState, CallsPlaced, TargetsOpen
<1>2. Sound(broker)'
  BY DEF Sound, WaitsSound, GrantsSound, CliSound
<1> QED
  BY <1>1, <1>2 DEF SoundState

\* Actions that move call c, once pruning and the like made broker b.
Moves(b, c, place) ==
    /\ broker' = b /\ Core(b)
    /\ pc' = [pc EXCEPT ![c] = place]
    /\ pc[c] # "granted" /\ (pc[c] = "waiting" => b.got[c] # "none")
    /\ \/ at' = at
       \/ /\ c \in Model \/ pc[c] = "target"
          /\ \E r \in Requests : at' = [at EXCEPT ![c] = r] /\ Binding[c] = Binding[r[1]]
    /\ place \in {"target", "presenting", "asked", "leased", "cleared", "granted", "failed"}
    /\ place \in {"target", "presenting"} => c \in Cli
    /\ place \in {"asked", "leased", "cleared"} => c \in Model
    /\ place \in {"presenting", "asked", "leased"} => at'[c] \in Requests
    /\ place = "target" => pc[c] = "idle"
    /\ place = "presenting" => pc[c] = "target"
    /\ place = "granted" => c \notin Model /\ b.got[c] = "approved"
    /\ \A r \in Requests : r[1] \in Cli /\ LiveIn(b, r) =>
         IF r[1] = c THEN place = "presenting" /\ at'[c] = r
         ELSE /\ at[r[1]] = r
              /\ \/ pc[r[1]] = "presenting"
                 \/ pc[r[1]] = "waiting" /\ b.got[r[1]] = "none"
    /\ RestTyped'
    /\ \A r \in targets' \union lost' :
         IF r[1] = c THEN c \in Cli /\ place = "presenting" /\ at'[c] = r
         ELSE r \in targets \union lost

LEMMA MoveSound ==
    ASSUME SoundState, NEW b, NEW c \in Calls, NEW place, Moves(b, c, place)
    PROVE  SoundState'
<1> USE DEF SoundState, Moves
<1>0. c \in Cli => c \notin Model
  BY CallsAssumption DEF Tools
<1>1. CallsPlaced'
  BY <1>0 DEF CallsPlaced
<1>2. /\ \A e \in Calls : e # c => pc'[e] = pc[e] /\ at'[e] = at[e]
      /\ pc'[c] = place
  BY DEF CallsPlaced
<1>3. Core(broker)'
  <2>1. place \in {"idle", "target", "presenting"} => b.got[c] = "none"
    BY DEF Core, WaitsSound
  <2>2. place = "granted" => \E q \in Requests : c \in b.granted[q]
    BY DEF Core, GrantsSound
  <2>3. place # "granted" => \A q \in Requests : c \notin b.granted[q] \/ c \notin Model
    BY DEF Core, GrantsSound
  <2>4. at' = at \/ c \in Model \/ b.got[c] = "none"
    BY DEF Core, WaitsSound
  <2>5. \A e \in Calls : e # c => at'[e] = at[e]
    BY <1>2
  <2>6. CallsPlaced /\ place # "waiting"
    OBVIOUS
  <2>7. Leaves(b, c, place)
    BY <2>1, <2>2, <2>3, <2>4, <2>5, <2>6 DEF Leaves
  <2> QED
    BY <2>6, <2>7, MoveCore
<1>4. CliSound(broker)'
  BY <1>2 DEF CliSound, LiveIn, Requests, Calls
<1>5. TargetsOpen'
  BY <1>2 DEF TargetsOpen, RestTyped, Requests, Calls
<1> QED
  BY <1>1, <1>3, <1>4, <1>5 DEF Sound, Core

\* What pruning and the like leave to an action that then moves a call.
LEMMA SoundIsCore ==
    ASSUME NEW b, Sound(b)
    PROVE  /\ Core(b)
           /\ \A r \in Requests : r[1] \in Cli /\ LiveIn(b, r) =>
                /\ at[r[1]] = r
                /\ \/ pc[r[1]] = "presenting"
                   \/ pc[r[1]] = "waiting" /\ b.got[r[1]] = "none"
BY DEF Sound, Core, CliSound

LEMMA AuthorizeSound ==
    ASSUME SoundState, NEW c \in Cli, Authorize(c)
    PROVE  SoundState'
<1>1. /\ c \in Calls /\ c \notin Model /\ pc[c] = "idle" /\ UNCHANGED <<broker, at, targets, lost>>
      /\ pc' = [pc EXCEPT ![c] = "target"]
  BY CallsAssumption DEF Authorize, Made, Goto, Calls, Tools
<1>2. RestTyped'
  BY DEF SoundState, RestTyped, Authorize
<1>3. Core(broker) /\ Sound(broker)
  BY SoundIsCore DEF SoundState
<1>4. /\ \A r \in Requests : r[1] = c => ~(r[1] \in Cli /\ LiveIn(broker, r))
      /\ \A r \in targets \union lost : r[1] # c
  BY <1>1, SoundIsCore, <1>3 DEF SoundState, TargetsOpen
<1>5. Moves(broker, c, "target")
  BY <1>1, <1>2, <1>3, <1>4, SoundIsCore DEF Moves
<1> QED
  BY <1>1, <1>5, MoveSound

LEMMA TargetMissingSound ==
    ASSUME SoundState, NEW c \in Cli, TargetMissing(c)
    PROVE  SoundState'
<1>1. /\ c \in Calls /\ pc[c] = "target" /\ UNCHANGED <<broker, at, targets, lost>>
      /\ pc' = [pc EXCEPT ![c] = "failed"]
  BY DEF TargetMissing, Goto, Calls
<1>2. RestTyped'
  BY DEF SoundState, RestTyped, TargetMissing
<1>3. Core(broker) /\ Sound(broker)
  BY SoundIsCore DEF SoundState
<1>4. /\ \A r \in Requests : r[1] = c => ~(r[1] \in Cli /\ LiveIn(broker, r))
      /\ \A r \in targets \union lost : r[1] # c
  BY <1>1, SoundIsCore, <1>3 DEF SoundState, TargetsOpen
<1>5. Moves(broker, c, "failed")
  BY <1>1, <1>2, <1>3, <1>4, SoundIsCore DEF Moves
<1> QED
  BY <1>1, <1>5, MoveSound

LEMMA PresentSound ==
    ASSUME SoundState, NEW c \in Cli, Present(c)
    PROVE  SoundState'
<1> DEFINE b == PruneExpired(broker)
<1>0. /\ c \in Calls /\ c \notin Model /\ pc[c] = "target" /\ UNCHANGED <<aborted, consent, lost>>
  BY CallsAssumption DEF Present, Calls, Tools
<1>1. Sound(b) /\ CallsPlaced
  BY PruneSound DEF SoundState
<1>2. /\ \A r \in Requests : r[1] = c => ~(r[1] \in Cli /\ LiveIn(b, r))
      /\ \A r \in targets \union lost : r[1] # c
  BY <1>0, SoundIsCore, <1>1 DEF SoundState, TargetsOpen
<1>3. CASE \E made \in Created(b, c) :
              /\ broker' = made.broker
              /\ at' = [at EXCEPT ![c] = made.req]
              /\ targets' = targets \union {made.req}
              /\ Goto(c, "presenting")
  <2>1. PICK made \in Created(b, c) :
              /\ broker' = made.broker
              /\ at' = [at EXCEPT ![c] = made.req]
              /\ targets' = targets \union {made.req}
              /\ Goto(c, "presenting")
    BY <1>3
  <2> DEFINE b2 == made.broker
             r == made.req
  <2> HIDE DEF b
  <2>2. /\ Core(b2) /\ r \in Requests /\ Binding[c] = Binding[r[1]]
        /\ b2.got = b.got /\ r[1] = c
        /\ \A q \in Requests : q # r => b2.req[q] = b.req[q]
    BY <1>0, <1>1, SoundIsCore, CreatedSound
  <2>3. /\ broker' = b2 /\ at' = [at EXCEPT ![c] = r] /\ targets' = targets \union {r}
        /\ pc' = [pc EXCEPT ![c] = "presenting"]
    BY <2>1 DEF Goto
  <2> HIDE DEF b2, r
  <2>4. at'[c] = r /\ RestTyped'
    BY <1>0, <1>1, <2>2, <2>3 DEF SoundState, RestTyped, CallsPlaced
  <2>5. \A q \in Requests : q[1] \in Cli /\ LiveIn(b2, q) =>
               IF q[1] = c THEN at'[c] = q
               ELSE /\ at[q[1]] = q
                    /\ \/ pc[q[1]] = "presenting"
                       \/ pc[q[1]] = "waiting" /\ b2.got[q[1]] = "none"
    BY <1>1, <1>2, <2>2, <2>4, SoundIsCore DEF LiveIn
  <2>6. \A q \in targets' \union lost' :
               IF q[1] = c THEN at'[c] = q ELSE q \in targets \union lost
    BY <1>0, <1>2, <2>2, <2>3, <2>4
  <2>7. Moves(b2, c, "presenting")
    BY <1>0, <2>2, <2>3, <2>4, <2>5, <2>6 DEF Moves
  <2> QED
    BY <1>0, <2>7, MoveSound
<1>4. CASE broker' = b /\ Goto(c, "failed") /\ UNCHANGED <<at, targets>>
  <2>1. pc' = [pc EXCEPT ![c] = "failed"] /\ RestTyped'
    BY <1>0, <1>4 DEF Goto, SoundState, RestTyped
  <2> HIDE DEF b
  <2>2. Moves(b, c, "failed")
    BY <1>0, <1>1, <1>2, <1>4, <2>1, SoundIsCore DEF Moves
  <2> QED
    BY <1>0, <2>2, MoveSound
<1> QED
  BY <1>3, <1>4 DEF Present

\* A refusal ends the request it is about, and brings no other back.
LEMMA ResolveEnds ==
    ASSUME CallsPlaced, NEW b, Sound(b), NEW r \in Requests, NEW w \in Refusals
    PROVE  /\ Sound(Resolve(b, r, w))
           /\ ~LiveIn(Resolve(b, r, w), r)
<1> DEFINE p == PruneExpired(b)
<1>1. Sound(p) /\ w # "approved" /\ w \in Decisions
  BY PruneSound DEF Refusals, Decisions
<1>2. p.req \in [Requests -> Request]
  BY <1>1 DEF Sound, Broker
<1> HIDE DEF p
<1>3. ~LiveIn(Settled(p, r, w), r)
  BY <1>1, <1>2 DEF Settled, Refuse, LiveIn, Gone, Free
<1>4. Resolve(b, r, w) = Settled(p, r, w)
  BY DEF Resolve, p
<1> QED
  BY <1>1, <1>3, <1>4, SettledSound

LEMMA PresentFailsSound ==
    ASSUME SoundState, NEW c \in Cli, PresentFails(c)
    PROVE  SoundState'
<1> DEFINE b == Resolve(broker, at[c], "cancelled")
<1>1. /\ c \in Calls /\ c \notin Model /\ pc[c] = "presenting" /\ broker' = b
      /\ pc' = [pc EXCEPT ![c] = "failed"] /\ UNCHANGED <<at, aborted, consent>>
      /\ targets' = targets \ {at[c]} /\ lost' = lost \ {at[c]}
      /\ at[c] \in Requests /\ CallsPlaced
  BY CallsAssumption DEF PresentFails, Goto, Forget, Calls, Tools, SoundState, CallsPlaced
<1>2. Sound(b) /\ ~LiveIn(b, at[c])
  BY <1>1, ResolveEnds DEF SoundState, Refusals
<1> HIDE DEF b
<1>3. Core(b) /\ RestTyped'
  BY <1>1, <1>2, SoundIsCore DEF SoundState, RestTyped
<1>4. /\ \A r \in Requests : r[1] = c => ~(r[1] \in Cli /\ LiveIn(b, r))
      /\ \A r \in targets' \union lost' : r[1] # c /\ r \in targets \union lost
  BY <1>1, <1>2, SoundIsCore DEF SoundState, TargetsOpen
<1>5. Moves(b, c, "failed")
  BY <1>1, <1>2, <1>3, <1>4, SoundIsCore DEF Moves
<1> QED
  BY <1>1, <1>5, MoveSound

LEMMA DecidedSound ==
    ASSUME SoundState, NEW c \in Cli, Decided(c)
    PROVE  SoundState'
<1> DEFINE place == IF broker.got[c] = "approved" THEN "granted" ELSE "failed"
<1>1. /\ c \in Calls /\ c \notin Model /\ pc[c] = "waiting" /\ broker.got[c] # "none"
      /\ pc' = [pc EXCEPT ![c] = place] /\ UNCHANGED <<broker, at, aborted, consent>>
      /\ targets' = targets \ {at[c]} /\ lost' = lost \ {at[c]}
      /\ place \in {"granted", "failed"} /\ (place = "granted" => broker.got[c] = "approved")
  BY CallsAssumption DEF Decided, Goto, Forget, Calls, Tools
<1> HIDE DEF place
<1>2. Sound(broker)
  BY DEF SoundState
<1>3. Core(broker) /\ RestTyped'
  BY <1>1, <1>2, SoundIsCore DEF SoundState, RestTyped
<1>4. /\ \A r \in Requests : r[1] = c => ~(r[1] \in Cli /\ LiveIn(broker, r))
      /\ \A r \in targets' \union lost' : r[1] # c /\ r \in targets \union lost
  BY <1>1, <1>2, SoundIsCore DEF SoundState, TargetsOpen
<1>5. Moves(broker, c, place)
  BY <1>1, <1>2, <1>3, <1>4, SoundIsCore DEF Moves
<1> QED
  BY <1>1, <1>5, MoveSound

LEMMA WaitActionSound ==
    ASSUME SoundState, NEW c \in Cli, Wait(c)
    PROVE  SoundState'
<1> DEFINE b == PruneExpired(broker)
<1>1. /\ c \in Calls \ Model /\ pc[c] = "presenting" /\ broker' = Waits(b, c, at[c])
      /\ pc' = [pc EXCEPT ![c] = "waiting"]
      /\ UNCHANGED <<at, aborted, consent, targets, lost>>
      /\ at[c] \in Requests /\ CallsPlaced /\ Binding[c] = Binding[at[c][1]]
  BY CallsAssumption DEF Wait, Goto, Calls, Tools, SoundState, CallsPlaced
<1>2. Sound(b)
  BY <1>1, PruneSound DEF SoundState
<1> HIDE DEF b
<1>3. at' = [at EXCEPT ![c] = at[c]]
  BY <1>1 DEF CallsPlaced
<1>4. Sound(broker)'
  BY <1>1, <1>2, <1>3, WaitSound, Zenon
<1>5. CallsPlaced' /\ RestTyped' /\ TargetsOpen'
  BY <1>1 DEF SoundState, CallsPlaced, RestTyped, TargetsOpen
<1> QED
  BY <1>4, <1>5 DEF SoundState

\* Actions of the host that change the broker and leave every call where it is.
LEMMA HostSound ==
    ASSUME SoundState, NEW b, Sound(b), broker' = b, UNCHANGED <<pc, at>>,
           aborted' \subseteq Calls, UNCHANGED consent,
           targets' \subseteq targets, lost' \subseteq lost \union targets
    PROVE  SoundState'
<1>1. RestTyped' /\ targets' \union lost' \subseteq targets \union lost
  BY DEF SoundState, RestTyped
<1>2. Sound(broker')
  OBVIOUS
<1> QED
  BY <1>1, <1>2, StaySound

LEMMA AnswerSound ==
    ASSUME SoundState, NEW r \in Requests, NEW d \in {"approved", "denied"}, Answer(r, d)
    PROVE  SoundState'
<1>1. Sound(Resolve(broker, r, d))
  BY ResolveSound DEF SoundState, Decisions, Refusals
<1> QED
  BY <1>1, HostSound DEF Answer, SoundState, RestTyped

LEMMA CancelRendererSound ==
    ASSUME SoundState, CancelRenderer
    PROVE  SoundState'
<1>1. Sound(CancelEach(broker, targets))
  BY CancelEachSound DEF SoundState
<1> QED
  BY <1>1, HostSound DEF CancelRenderer, SoundState, RestTyped

LEMMA ClearSound ==
    ASSUME SoundState, ClearGuard \/ Clear
    PROVE  SoundState'
<1> DEFINE S == {r \in Live(broker) : r[1] \in Cli}
<1>1. Sound(Refuse(broker, Live(broker), "cancelled")) /\ Sound(Refuse(broker, S, "cancelled"))
  BY RefuseSound DEF SoundState, Refusals
<1>2. CASE ClearGuard
  BY <1>1, <1>2, HostSound DEF ClearGuard, SoundState, RestTyped
<1>3. CASE Clear
  BY <1>1, <1>3, HostSound DEF Clear, SoundState, RestTyped
<1> QED
  BY <1>2, <1>3

LEMMA AbortSound ==
    ASSUME SoundState, NEW c \in Calls, Abort(c)
    PROVE  SoundState'
<1> DEFINE S == {r \in Live(broker) : c \in broker.req[r].aborts}
<1>1. Sound(CancelEach(broker, S))
  BY CancelEachSound DEF SoundState
<1> QED
  BY <1>1, HostSound DEF Abort, SoundState, RestTyped

LEMMA CancelScopeSound ==
    ASSUME SoundState, NEW s, CancelScope(s)
    PROVE  SoundState'
<1> DEFINE S == {r \in Live(broker) : Scope[r[1]] = s}
<1>1. Sound(CancelEach(broker, S))
  BY CancelEachSound DEF SoundState
<1> QED
  BY <1>1, HostSound DEF CancelScope, SoundState, RestTyped

LEMMA TimeSound ==
    ASSUME SoundState, NEW r \in Requests, Elapse(r) \/ Timer(r)
    PROVE  SoundState'
<1>1. CASE Elapse(r)
  <2>1. Sound([broker EXCEPT !.req[r].due = TRUE])
    BY ElapseSound DEF SoundState
  <2> QED
    BY <1>1, <2>1, HostSound DEF Elapse, SoundState, RestTyped
<1>2. CASE Timer(r)
  <2>1. {r} \in SUBSET Live(broker)
    BY <1>2 DEF Timer, Live
  <2>2. Sound(Expire(broker, {r}))
    BY <2>1, ExpireSound DEF SoundState
  <2> QED
    BY <1>2, <2>2, HostSound DEF Timer, SoundState, RestTyped
<1> QED
  BY <1>1, <1>2

LEMMA ConsentSound ==
    ASSUME SoundState, NEW r \in Requests, NEW yes \in BOOLEAN, Consent(r, yes)
    PROVE  SoundState'
<1>1. RestTyped'
  BY DEF Consent, SoundState, RestTyped, Asking
<1>2. Sound(broker')
  BY DEF Consent, SoundState
<1> QED
  BY <1>1, <1>2, StaySound DEF Consent

LEMMA ConsentThenSound ==
    ASSUME SoundState, NEW c \in App, ConsentThen(c)
    PROVE  SoundState'
<1>1. RestTyped' /\ at[c] \in Requests
  BY DEF ConsentThen, SoundState, RestTyped
<1>2. Sound(broker')
  BY <1>1, ResolveSound DEF ConsentThen, SoundState, Decisions, Refusals
<1> QED
  BY <1>1, <1>2, StaySound DEF ConsentThen

LEMMA AppDecidedSound ==
    ASSUME SoundState, NEW c \in App, AppDecided(c)
    PROVE  SoundState'
<1> DEFINE place == IF broker.got[c] = "approved" THEN "granted" ELSE "failed"
<1>1. /\ c \in Calls /\ c \notin Model /\ c \notin Cli /\ pc[c] = "waiting"
      /\ broker.got[c] # "none" /\ pc' = [pc EXCEPT ![c] = place]
      /\ UNCHANGED <<broker, at, aborted, consent, targets, lost>>
      /\ place \in {"granted", "failed"} /\ (place = "granted" => broker.got[c] = "approved")
  BY CallsAssumption DEF AppDecided, Goto, Calls, Tools
<1> HIDE DEF place
<1>2. Sound(broker) /\ RestTyped'
  BY <1>1 DEF SoundState, RestTyped
<1>3. \A r \in targets' \union lost' : r[1] # c /\ r \in targets \union lost
  BY <1>1 DEF SoundState, TargetsOpen
<1>4. Moves(broker, c, place)
  BY <1>1, <1>2, <1>3, SoundIsCore DEF Moves
<1> QED
  BY <1>1, <1>4, MoveSound

-----------------------------------------------------------------------------
(* A model's tool call, and an App's. *)

\* The facts of a model's call that moves and owns no CLI request and no target.
LEMMA ModelMoves ==
    ASSUME SoundState, NEW b, Sound(b), broker' = b, NEW c \in Model,
           NEW place \in {"asked", "leased", "cleared", "failed"},
           pc' = [pc EXCEPT ![c] = place], pc[c] \notin {"granted", "waiting"},
           \/ at' = at /\ (place \in {"asked", "leased"} => at[c] \in Requests)
           \/ \E r \in Requests : at' = [at EXCEPT ![c] = r] /\ Binding[c] = Binding[r[1]],
           UNCHANGED <<aborted, consent, targets, lost>>
    PROVE  SoundState'
<1>1. c \in Calls /\ c \notin Cli /\ c \notin App
  BY CallsAssumption DEF Calls, Tools
<1>a. at \in [Calls -> Requests \union {NoRequest}]
  BY DEF SoundState, CallsPlaced
<1>b. \A e \in App : e \in Calls /\ at'[e] = at[e]
  BY <1>1, <1>a DEF Calls
<1>2. RestTyped' /\ (place \in {"presenting", "asked", "leased"} => at'[c] \in Requests)
  <2>1. RestTyped'
    BY <1>b DEF SoundState, RestTyped
  <2>2. place \in {"presenting", "asked", "leased"} => at'[c] \in Requests
    BY <1>1, <1>a
  <2> QED
    BY <2>1, <2>2
<1>3. \A r \in targets' \union lost' : r[1] # c /\ r \in targets \union lost
  BY <1>1 DEF SoundState, TargetsOpen
<1>4. Moves(b, c, place)
  BY <1>1, <1>2, <1>3, SoundIsCore DEF Moves
<1> QED
  BY <1>1, <1>4, MoveSound

\* Asking leaves a sound broker, whatever becomes of the request.
LEMMA AskSound ==
    ASSUME CallsPlaced, NEW b, Sound(b), NEW c \in Tools, NEW place, Ask(c, b, place)
    PROVE  /\ Sound(broker')
           /\ \/ /\ pc' = [pc EXCEPT ![c] = place]
                 /\ \E r \in Requests : at' = [at EXCEPT ![c] = r] /\ Binding[c] = Binding[r[1]]
              \/ pc' = [pc EXCEPT ![c] = "failed"] /\ at' = at
<1>1. c \in Calls /\ c \notin Cli /\ Core(b)
  BY CallsAssumption, SoundIsCore DEF Calls, Tools
<1>2. CASE \E made \in Created(b, c) : /\ broker' = made.broker
                                       /\ at' = [at EXCEPT ![c] = made.req]
                                       /\ Goto(c, place)
  <2>1. PICK made \in Created(b, c) : /\ broker' = made.broker
                                      /\ at' = [at EXCEPT ![c] = made.req]
                                      /\ Goto(c, place)
    BY <1>2
  <2>2. /\ Core(made.broker) /\ made.req \in Requests /\ Binding[c] = Binding[made.req[1]]
        /\ made.broker.got = b.got
        /\ \A q \in Requests : q # made.req => made.broker.req[q] = b.req[q]
    BY <1>1, CreatedSound
  <2>3. made.req[1] \notin Cli
    BY <1>1, <2>2, BindingAssumption DEF Requests
  <2>4. CliSound(made.broker)
    BY <2>2, <2>3, SoundIsCore DEF CliSound, LiveIn
  <2>5. Sound(made.broker)
    BY <2>2, <2>4 DEF Sound, Core
  <2> QED
    BY <2>1, <2>2, <2>5 DEF Goto
<1>3. CASE broker' = b /\ Goto(c, "failed") /\ UNCHANGED at
  BY <1>3 DEF Goto
<1> QED
  BY <1>2, <1>3 DEF Ask

LEMMA EvaluateSound ==
    ASSUME SoundState, NEW c \in Model, Evaluate(c)
    PROVE  SoundState'
<1> DEFINE b == PruneExpired(broker)
<1>1. /\ c \in Tools /\ pc[c] = "idle" /\ Ask(c, b, "asked")
      /\ UNCHANGED <<aborted, consent, targets, lost>>
      /\ Sound(b) /\ CallsPlaced
  BY PruneSound DEF Evaluate, Made, Tools, SoundState
<1> HIDE DEF b
<1>2. /\ Sound(broker')
      /\ \/ /\ pc' = [pc EXCEPT ![c] = "asked"]
            /\ \E r \in Requests : at' = [at EXCEPT ![c] = r] /\ Binding[c] = Binding[r[1]]
         \/ pc' = [pc EXCEPT ![c] = "failed"] /\ at' = at
  BY <1>1, AskSound
<1> QED
  BY <1>1, <1>2, ModelMoves

LEMMA ExecuteSound ==
    ASSUME SoundState, NEW c \in Model, Execute(c)
    PROVE  SoundState'
<1> DEFINE b == PruneExpired(broker)
<1>1. /\ c \in Tools /\ pc[c] \in {"leased", "cleared"}
      /\ UNCHANGED <<aborted, consent, targets, lost>>
      /\ Sound(b) /\ CallsPlaced
  BY PruneSound DEF Execute, Tools, SoundState
<1> HIDE DEF b
<1>2. CASE \E r \in Consumable(b, c) :
              broker' = Consumed(b, c, r) /\ Goto(c, "granted") /\ UNCHANGED at
  <2>1. PICK r \in Consumable(b, c) :
              broker' = Consumed(b, c, r) /\ Goto(c, "granted") /\ UNCHANGED at
    BY <1>2
  <2>2. pc' = [pc EXCEPT ![c] = "granted"] /\ at' = at /\ pc[c] # "granted"
    BY <1>1, <2>1 DEF Goto
  <2>3. Sound(broker)'
    BY <1>1, <2>1, <2>2, ConsumedSound
  <2>4. CallsPlaced' /\ RestTyped'
    BY <1>1, <2>2 DEF SoundState, CallsPlaced, RestTyped
  <2>5. TargetsOpen'
    BY <1>1, <2>2, CallsAssumption DEF SoundState, CallsPlaced, TargetsOpen, Tools
  <2> QED
    BY <2>3, <2>4, <2>5 DEF SoundState
<1>3. CASE Ask(c, b, "asked")
  <2>1. /\ Sound(broker')
        /\ \/ /\ pc' = [pc EXCEPT ![c] = "asked"]
              /\ \E r \in Requests : at' = [at EXCEPT ![c] = r] /\ Binding[c] = Binding[r[1]]
           \/ pc' = [pc EXCEPT ![c] = "failed"] /\ at' = at
    BY <1>1, <1>3, AskSound
  <2> QED
    BY <1>1, <2>1, ModelMoves
<1> QED
  BY <1>2, <1>3 DEF Execute, b

\* The user's answer to a model's call, and the end of its lease.
LEMMA ModelAnswerSound ==
    ASSUME SoundState, NEW c \in Model,
           Approve(c) \/ Deny(c) \/ RevokeLease(c) \/ ExecuteAborted(c)
    PROVE  SoundState'
<1> DEFINE b == PruneExpired(broker)
<1>1. /\ pc[c] \in {"asked", "leased", "cleared"} /\ c \in Calls
      /\ UNCHANGED <<at, aborted, consent, targets, lost>>
      /\ Sound(broker) /\ CallsPlaced /\ Sound(b)
      /\ pc[c] \in {"asked", "leased"} => at[c] \in Requests
  BY PruneSound DEF SoundState, CallsPlaced, Calls, Approve, Deny, RevokeLease, ExecuteAborted
<1> HIDE DEF b
<1>2. CASE Approve(c)
  <2>1. Sound(Settled(b, at[c], "approved"))
    BY <1>1, <1>2, SettledSound DEF Approve, Decisions
  <2>2. /\ broker' = Settled(b, at[c], "approved")
        /\ \E place \in {"leased", "cleared"} : pc' = [pc EXCEPT ![c] = place]
    BY <1>2 DEF Approve, Goto, b
  <2> QED
    BY <1>1, <1>2, <2>1, <2>2, ModelMoves DEF Approve
<1>3. CASE Deny(c) \/ RevokeLease(c)
  <2>1. \E w \in Refusals : broker' = Resolve(broker, at[c], w)
    BY <1>3 DEF Deny, RevokeLease, Refusals
  <2>2. Sound(broker')
    BY <1>1, <1>3, <2>1, ResolveSound DEF Deny, RevokeLease, Decisions
  <2>3. pc' = [pc EXCEPT ![c] = "failed"]
    BY <1>3 DEF Deny, RevokeLease, Goto
  <2> QED
    BY <1>1, <2>2, <2>3, ModelMoves
<1>4. CASE ExecuteAborted(c)
  <2>1. pc' = [pc EXCEPT ![c] = "failed"] /\ Sound(broker')
    BY <1>1, <1>4 DEF ExecuteAborted, Goto
  <2> QED
    BY <1>1, <2>1, ModelMoves
<1> QED
  BY <1>2, <1>3, <1>4

LEMMA RequestAppSound ==
    ASSUME SoundState, NEW c \in App, RequestApp(c)
    PROVE  SoundState'
<1> DEFINE b == PruneExpired(broker)
<1>1. /\ c \in Tools /\ c \in Calls \ Model /\ c \notin Cli /\ pc[c] = "idle"
      /\ UNCHANGED <<aborted, targets, lost>> /\ Sound(b) /\ CallsPlaced
  BY PruneSound, CallsAssumption DEF RequestApp, Made, Tools, Calls, SoundState
<1>2. \A r \in targets \union lost : r[1] # c /\ r[1] \in Calls
  BY <1>1 DEF SoundState, TargetsOpen, Calls
<1> HIDE DEF b
<1>3. ASSUME NEW made \in Created(b, c), broker' = Waits(made.broker, c, made.req),
             at' = [at EXCEPT ![c] = made.req], Goto(c, "waiting"),
             NEW x \in {"no", "open"}, consent' = [consent EXCEPT ![c] = x]
      PROVE  SoundState'
  <2> DEFINE r == made.req
             b2 == made.broker
  <2>1. /\ Core(b2) /\ r \in Requests /\ Binding[c] = Binding[r[1]]
        /\ b2.got = b.got
        /\ \A q \in Requests : q # r => b2.req[q] = b.req[q]
    BY <1>1, CreatedSound, SoundIsCore
  <2>2. /\ broker' = Waits(b2, c, r) /\ at' = [at EXCEPT ![c] = r]
        /\ pc' = [pc EXCEPT ![c] = "waiting"]
    BY <1>3 DEF Goto
  <2> HIDE DEF r, b2
  <2>3. r[1] \notin Cli
    BY <1>1, <2>1, BindingAssumption DEF Requests
  <2>4. CliSound(b2)
    BY <1>1, <2>1, <2>3, SoundIsCore DEF CliSound, LiveIn
  <2>5. Sound(b2)
    BY <2>1, <2>4 DEF Sound, Core
  <2>6. Sound(broker)'
    BY <1>1, <2>1, <2>2, <2>5, WaitSound, Zenon
  <2>7. CallsPlaced' /\ RestTyped'
    BY <1>1, <1>3, <2>1, <2>2 DEF SoundState, CallsPlaced, RestTyped
  <2>8. TargetsOpen'
    BY <1>1, <1>2, <2>2 DEF SoundState, CallsPlaced, TargetsOpen
  <2> QED
    BY <2>6, <2>7, <2>8 DEF SoundState
<1>4. CASE broker' = b /\ Goto(c, "failed") /\ UNCHANGED <<at, consent>>
  <2>1. RestTyped' /\ pc' = [pc EXCEPT ![c] = "failed"]
    BY <1>1, <1>4 DEF SoundState, RestTyped, Goto
  <2>2. Moves(b, c, "failed")
    BY <1>1, <1>2, <1>4, <2>1, SoundIsCore DEF Moves
  <2> QED
    BY <1>1, <2>2, MoveSound
<1> QED
  BY <1>3, <1>4 DEF RequestApp, b

-----------------------------------------------------------------------------
(* The specification. *)

LEMMA InitSound == Init => SoundState
<1> SUFFICES ASSUME Init PROVE SoundState
  OBVIOUS
<1>1. broker \in Broker
  BY DEF Init, Broker, Request, Free
<1>2. CallsPlaced /\ RestTyped /\ TargetsOpen
  BY DEF Init, CallsPlaced, RestTyped, TargetsOpen, NoRequest, Requests
<1>3. /\ \A r \in Requests : /\ broker.req[r] = Free /\ broker.granted[r] = {}
                             /\ broker.said[r] = {}
      /\ \A c \in Calls : broker.got[c] = "none" /\ pc[c] = "idle"
  BY DEF Init
<1>4. WaitsSound(broker) /\ GrantsSound(broker) /\ CliSound(broker)
  BY <1>3 DEF WaitsSound, GrantsSound, CliSound, LiveIn, Free
<1> QED
  BY <1>1, <1>2, <1>4 DEF SoundState, Sound

LEMMA NextSound == SoundState /\ [Next]_vars => SoundState'
<1> SUFFICES ASSUME SoundState, [Next]_vars PROVE SoundState'
  OBVIOUS
<1>1. ASSUME NEW c \in Cli, CliStep(c) PROVE SoundState'
  <2>1. c \in Calls
    BY DEF Calls
  <2> QED
    BY <1>1, <2>1, AuthorizeSound, TargetMissingSound, PresentSound, PresentFailsSound,
       WaitActionSound, DecidedSound, AbortSound DEF CliStep
<1>2. ASSUME NEW c \in Model, ModelStep(c) PROVE SoundState'
  <2>1. c \in Calls
    BY DEF Calls
  <2> QED
    BY <1>2, <2>1, EvaluateSound, ModelAnswerSound, ExecuteSound, AbortSound DEF ModelStep
<1>3. ASSUME NEW c \in App, AppStep(c) PROVE SoundState'
  BY <1>3, RequestAppSound, ConsentThenSound, AppDecidedSound DEF AppStep
<1>4. CASE HostStep
  BY <1>4, CancelRendererSound, ClearSound, CancelScopeSound, AnswerSound, ConsentSound,
     TimeSound DEF HostStep
<1>5. CASE UNCHANGED vars
  <2>1. Sound(broker') /\ RestTyped'
    BY <1>5 DEF vars, SoundState, RestTyped
  <2> QED
    BY <1>5, <2>1, StaySound DEF vars
<1> QED
  BY <1>1, <1>2, <1>3, <1>4, <1>5 DEF Next

\* In every reachable state each live request, waiter, grant and target is accounted for.
THEOREM SoundAlways == Spec => []SoundState
<1> QED
  BY InitSound, NextSound, PTL DEF Spec

\* Every variable keeps its type.
THEOREM ApprovalTypes == Spec => []ApprovalTypeOK
<1>1. SoundState => ApprovalTypeOK
  BY DEF SoundState, CallsPlaced, RestTyped, Sound, ApprovalTypeOK
<1> QED
  BY <1>1, SoundAlways, PTL

\* However calls, answers, aborts and timers interleave, a caller that waits without a
\* decision stays registered with its own request, which is still pending.
THEOREM WaitersStayReachable == Spec => []WaitersReachable
<1>1. SoundState => WaitersReachable
  <2> SUFFICES ASSUME SoundState PROVE WaitersReachable
    OBVIOUS
  <2>1. ASSUME NEW c \in Calls, pc[c] = "waiting", broker.got[c] = "none"
        PROVE  \E r \in Requests : c \in broker.req[r].waiters
    BY <2>1 DEF SoundState, Sound, WaitsSound, CallsPlaced
  <2>2. \A c \in Calls : \A r \in Requests : c \in broker.req[r].waiters =>
              /\ r = at[c] /\ broker.req[r].status = "pending"
              /\ pc[c] = "waiting" /\ broker.got[c] = "none"
    BY DEF SoundState, Sound, WaitsSound
  <2> QED
    BY <2>1, <2>2 DEF WaitersReachable
<1> QED
  BY <1>1, SoundAlways, PTL

\* Nobody goes ahead without an approval of exactly what they ask for.
THEOREM GrantsNeedApproval == Spec => []GrantsAreApproved
<1>1. SoundState => GrantsAreApproved
  BY DEF SoundState, Sound, GrantsSound, GrantsAreApproved
<1> QED
  BY <1>1, SoundAlways, PTL

\* One approval of a model's call or a CLI request lets one execution through.
THEOREM ApprovalsAreSpent == Spec => []ApprovalUsedOnce
<1>1. SoundState => ApprovalUsedOnce
  <2> SUFFICES ASSUME SoundState, NEW r \in Requests, r[1] \notin App
               PROVE  Cardinality(broker.granted[r]) <= 1
    BY DEF ApprovalUsedOnce
  <2>1. \A c, e \in broker.granted[r] : c = e
    BY DEF SoundState, Sound, GrantsSound
  <2>2. CASE broker.granted[r] = {}
    BY <2>2, FS_EmptySet
  <2>3. CASE broker.granted[r] # {}
    <3>1. PICK c : c \in broker.granted[r]
      BY <2>3
    <3>2. broker.granted[r] = {c}
      BY <2>1, <3>1
    <3>3. Cardinality({c}) = 1
      BY FS_Singleton, Zenon
    <3> QED
      BY <3>2, <3>3
  <2> QED
    BY <2>2, <2>3
<1> QED
  BY <1>1, SoundAlways, PTL

\* However a CLI request ends, it leaves nothing to answer, to use or to cancel.
THEOREM CliLeavesNothing == Spec => []NothingLeftBehind
<1>1. SoundState => NothingLeftBehind
  <2> SUFFICES ASSUME SoundState, NEW c \in Cli, pc[c] \in {"granted", "failed"},
                      NEW k \in 1 .. Tries
               PROVE  ~LiveIn(broker, <<c, k>>) /\ <<c, k>> \notin targets \union lost
    BY DEF NothingLeftBehind
  <2>1. <<c, k>> \in Requests /\ <<c, k>>[1] = c
    BY DEF Requests, Calls
  <2> QED
    BY <2>1 DEF SoundState, Sound, CliSound, TargetsOpen
<1> QED
  BY <1>1, SoundAlways, PTL

-----------------------------------------------------------------------------
(* Deadlines.  Every entry point that may let a call through prunes first, and *)
(* pruning leaves nothing that is due; so a request that lets a call through   *)
(* was live and in time before the step.                                       *)

\* From b to b2 only live requests let calls through.
LiveGrants(b, b2) == \A r \in Requests : LiveIn(b, r) \/ b2.granted[r] = b.granted[r]

LEMMA DropsGrantNothing ==
    ASSUME NEW b \in Broker, NEW S, NEW w
    PROVE  Refuse(b, S, w).granted = b.granted /\ Drop(b, S).granted = b.granted
BY DEF Refuse, Drop, Broker

LEMMA DropsKeepType ==
    ASSUME NEW b \in Broker, NEW S, NEW w \in Refusals
    PROVE  Refuse(b, S, w) \in Broker /\ Drop(b, S) \in Broker
<1>1. Gone \in Request
  BY DEF Gone, Free, Request
<1>2. Refuse(b, S, w) \in Broker
  BY <1>1 DEF Refuse, Broker, Decisions
<1>3. Drop(b, S) \in Broker
  BY <1>1 DEF Drop, Broker
<1> QED
  BY <1>2, <1>3

\* What is live after pruning was live before, and its deadline has not passed.
LEMMA PruneEffect ==
    ASSUME NEW b \in Broker
    PROVE  LET p == PruneExpired(b)
           IN  /\ p \in Broker /\ p.granted = b.granted
               /\ \A r \in Requests : LiveIn(p, r) => ~b.req[r].due
<1> DEFINE S == {r \in Live(b) : b.req[r].due}
           P == {r \in S : b.req[r].status = "pending"}
           A == {r \in S : b.req[r].status = "approved"}
           m == Refuse(b, P, "timeout")
           p == Drop(m, A)
<1>1. m \in Broker /\ m.granted = b.granted
  BY DropsKeepType, DropsGrantNothing DEF Refusals
<1>2. \A r \in Requests : m.req[r] = IF r \in P THEN Gone ELSE b.req[r]
  BY DEF Refuse, Broker
<1>3. p = PruneExpired(b)
  BY DEF PruneExpired, Expire
<1> HIDE DEF m
<1>4. p \in Broker /\ p.granted = m.granted
  BY <1>1, DropsKeepType, DropsGrantNothing DEF Refusals
<1>5. \A r \in Requests : p.req[r] = IF r \in A THEN Gone ELSE m.req[r]
  BY <1>1 DEF Drop, Broker
<1> HIDE DEF p
<1>6. ASSUME NEW r \in Requests, LiveIn(p, r) PROVE ~b.req[r].due
  <2>1. Gone.status = "gone"
    BY DEF Gone, Free
  <2>2. p.req[r] = b.req[r] /\ r \notin P /\ r \notin A
    BY <1>2, <1>5, <1>6, <2>1 DEF LiveIn
  <2>3. r \in Live(b)
    BY <1>6, <2>2 DEF Live, LiveIn
  <2> QED
    BY <2>2, <2>3 DEF Live, LiveIn
<1> QED
  BY <1>1, <1>3, <1>4, <1>6

\* If a step prunes and then lets only live requests grant, it grants nothing late.
LEMMA PrunedGrants ==
    ASSUME NEW b \in Broker, NEW b2, LiveGrants(PruneExpired(b), b2)
    PROVE  \A r \in Requests : b.req[r].due => b2.granted[r] = b.granted[r]
BY PruneEffect DEF LiveGrants

LEMMA SameGrants ==
    ASSUME NEW b, NEW b2, b2.granted = b.granted
    PROVE  LiveGrants(b, b2)
BY DEF LiveGrants

LEMMA SettledGrants ==
    ASSUME NEW b \in Broker, NEW r \in Requests, NEW decision
    PROVE  LiveGrants(b, Settled(b, r, decision))
<1>1. LiveGrants(b, b) /\ LiveGrants(b, Refuse(b, {r}, decision))
  BY DropsGrantNothing, SameGrants
<1>2. ASSUME b.req[r].status = "pending" PROVE LiveGrants(b, Allow(b, r))
  BY <1>2 DEF LiveGrants, LiveIn, Allow, Broker
<1> QED
  BY <1>1, <1>2 DEF Settled

LEMMA ResolveGrants ==
    ASSUME NEW b \in Broker, NEW r \in Requests, NEW decision
    PROVE  LiveGrants(PruneExpired(b), Resolve(b, r, decision))
BY PruneEffect, SettledGrants DEF Resolve

LEMMA CancelEachGrants ==
    ASSUME NEW b \in Broker, NEW S
    PROVE  CancelEach(b, S).granted = b.granted
<1>1. PruneExpired(b) \in Broker /\ PruneExpired(b).granted = b.granted
  BY PruneEffect
<1> QED
  BY <1>1, DropsGrantNothing DEF CancelEach

LEMMA WaitsGrants ==
    ASSUME NEW b \in Broker, NEW c \in Calls, NEW r \in Requests
    PROVE  LiveGrants(b, Waits(b, c, r))
<1>1. CASE ~LiveIn(b, r)
  BY <1>1, SameGrants DEF Waits, Broker
<1>2. CASE LiveIn(b, r) /\ c \in aborted
  <2> DEFINE e == Refuse(b, {r}, "cancelled")
  <2>1. e.granted = b.granted /\ e \in Broker
    BY DropsGrantNothing, DropsKeepType DEF Refusals
  <2>2. Waits(b, c, r) = [e EXCEPT !.got[c] = "cancelled"]
    BY <1>2 DEF Waits
  <2> HIDE DEF e
  <2> QED
    BY <2>1, <2>2, SameGrants DEF Broker
<1>3. CASE LiveIn(b, r) /\ c \notin aborted
  <2>1. \A S : Drop(b, S).granted = b.granted /\ Drop(b, S) \in Broker
    BY DropsGrantNothing, DropsKeepType DEF Refusals
  <2>2. ASSUME b.req[r].status = "approved"
        PROVE  \A q \in Requests \ {r} : Waits(b, c, r).granted[q] = b.granted[q]
    <3> DEFINE e == Drop(b, IF Consume(r) THEN {r} ELSE {})
    <3>1. e \in Broker /\ e.granted = b.granted
      BY <2>1
    <3>2. Waits(b, c, r) = [e EXCEPT !.got[c] = "approved", !.granted[r] = @ \union {c}]
      BY <1>3, <2>2 DEF Waits
    <3> HIDE DEF e
    <3> QED
      BY <3>1, <3>2 DEF Broker
  <2>3. ASSUME b.req[r].status # "approved" PROVE Waits(b, c, r).granted = b.granted
    BY <1>3, <2>3 DEF Waits, Broker
  <2> QED
    BY <1>3, <2>2, <2>3 DEF LiveGrants
<1> QED
  BY <1>1, <1>2, <1>3

LEMMA CreatedGrants ==
    ASSUME NEW b \in Broker, NEW c \in Calls, NEW made \in Created(b, c)
    PROVE  made.broker.granted = b.granted
BY DEF Created, Broker

\* A request that is created, or shared, is pending.
LEMMA CreatedPending ==
    ASSUME NEW b \in Broker, NEW c \in Calls, NEW made \in Created(b, c)
    PROVE  /\ made.broker \in Broker /\ made.req \in Requests
           /\ made.broker.req[made.req].status = "pending"
<1> DEFINE signal == {c} \ App
<1>1. ASSUME NEW r \in Requests, b.req[r].status = "pending",
             made = [broker |-> [b EXCEPT !.req[r].aborts = @ \union signal], req |-> r]
      PROVE  made.broker \in Broker /\ made.broker.req[r].status = "pending"
  <2>1. b.req[r] \in Request
    BY DEF Broker
  <2> DEFINE q == [b.req[r] EXCEPT !.aborts = @ \union signal]
  <2>2. q \in Request /\ q.status = "pending"
    BY <1>1, <2>1 DEF Request
  <2>3. made.broker = [b EXCEPT !.req = [b.req EXCEPT ![r] = q]]
    BY <1>1
  <2> HIDE DEF q
  <2> QED
    BY <2>2, <2>3 DEF Broker
<1>2. ASSUME NEW r \in Requests,
             made = [broker |-> [b EXCEPT !.req[r] = [Free EXCEPT !.status = "pending",
                                                             !.aborts = signal]], req |-> r]
      PROVE  made.broker \in Broker /\ made.broker.req[r].status = "pending"
  BY <1>2 DEF Broker, Request, Free
<1>3. \/ \E r \in Requests :
            /\ b.req[r].status = "pending"
            /\ made = [broker |-> [b EXCEPT !.req[r].aborts = @ \union signal], req |-> r]
      \/ \E r \in Requests :
            made = [broker |-> [b EXCEPT !.req[r] = [Free EXCEPT !.status = "pending",
                                                         !.aborts = signal]], req |-> r]
  BY DEF Created, Shareable, Live
<1> QED
  BY <1>1, <1>2, <1>3

\* No step of the system lets a call through on a request whose deadline has passed.
LEMMA OnTimeStep ==
    ASSUME SoundState, [Next]_vars
    PROVE  \A r \in Requests : broker.req[r].due => broker'.granted[r] = broker.granted[r]
<1> DEFINE p == PruneExpired(broker)
           Kept == broker'.granted = broker.granted
           Late == LiveGrants(p, broker')
<1>1. broker \in Broker
  BY DEF SoundState, Sound
<1>2. p \in Broker /\ p.granted = broker.granted
  BY <1>1, PruneEffect
<1> SUFFICES Kept \/ Late
  BY <1>1, PrunedGrants
<1> HIDE DEF p
<1>3. ASSUME NEW c \in Calls, at[c] \in Requests, NEW decision,
             broker' = Resolve(broker, at[c], decision)
      PROVE  Late
  BY <1>1, <1>3, ResolveGrants DEF p
<1>4. \A c \in Calls : /\ pc[c] \in {"presenting", "waiting", "asked", "leased"} =>
                              at[c] \in Requests
                       /\ c \in App /\ consent[c] # "none" => at[c] \in Requests
  BY DEF SoundState, CallsPlaced, RestTyped
<1>5. ASSUME NEW S, broker' = CancelEach(broker, S) PROVE Kept
  BY <1>1, <1>5, CancelEachGrants
<1>6. ASSUME NEW c \in Calls, NEW place, Ask(c, p, place) PROVE Kept
  BY <1>2, <1>6, CreatedGrants DEF Ask
<1>7. ASSUME NEW c \in Calls,
             Authorize(c) \/ TargetMissing(c) \/ Decided(c) \/ ExecuteAborted(c) \/ AppDecided(c)
      PROVE  Kept
  BY <1>7 DEF Authorize, TargetMissing, Decided, ExecuteAborted, AppDecided
<1>8. ASSUME NEW c \in Calls, Present(c) PROVE Kept
  BY <1>2, <1>8, CreatedGrants DEF Present, p
<1>9. ASSUME NEW c \in Calls, PresentFails(c) \/ Deny(c) \/ RevokeLease(c) PROVE Late
  BY <1>3, <1>4, <1>9 DEF PresentFails, Deny, RevokeLease
<1>10. ASSUME NEW c \in Calls, Wait(c) PROVE Late
  BY <1>2, <1>4, <1>10, WaitsGrants DEF Wait, p
<1>11. ASSUME NEW c \in Calls, Abort(c) PROVE Kept
  BY <1>5, <1>11 DEF Abort
<1>12. ASSUME NEW c \in Calls, Evaluate(c) PROVE Kept
  BY <1>6, <1>12 DEF Evaluate, p
<1>13. ASSUME NEW c \in Calls, Approve(c) PROVE Late
  BY <1>2, <1>4, <1>13, SettledGrants DEF Approve, p
<1>14. ASSUME NEW c \in Calls, Execute(c) PROVE Kept \/ Late
  <2>1. ASSUME NEW r \in Consumable(p, c), broker' = Consumed(p, c, r) PROVE Late
    <3>1. r \in Requests /\ LiveIn(p, r)
      BY <2>1 DEF Consumable, Live
    <3>2. Drop(p, {r}) \in Broker /\ Drop(p, {r}).granted = p.granted
      BY <1>2, DropsKeepType, DropsGrantNothing DEF Refusals
    <3>3. \A q \in Requests \ {r} : broker'.granted[q] = p.granted[q]
      BY <2>1, <3>2 DEF Consumed, Broker
    <3> QED
      BY <3>1, <3>3 DEF LiveGrants
  <2>2. (\E r \in Consumable(p, c) : broker' = Consumed(p, c, r)) \/ Ask(c, p, "asked")
    BY <1>14 DEF Execute, p
  <2> QED
    BY <1>6, <2>1, <2>2
<1>15. ASSUME NEW c \in Calls, RequestApp(c) PROVE Kept \/ Late
  <2>1. CASE broker' = p
    BY <1>2, <2>1
  <2>2. ASSUME NEW made \in Created(p, c), broker' = Waits(made.broker, c, made.req)
        PROVE  Late
    <3> DEFINE m == made.broker
               q == made.req
    <3>1. m \in Broker /\ q \in Requests /\ m.granted = p.granted
      <4>1. m.granted = p.granted
        BY <1>2, <2>2, CreatedGrants
      <4>2. m \in Broker /\ q \in Requests
        BY <1>2, <2>2, CreatedPending
      <4> QED
        BY <4>1, <4>2
    <3>2. m.req[q].status = "pending"
      BY <1>2, <2>2, CreatedPending
    <3> HIDE DEF m, q
    <3>3. broker'.granted = m.granted
      <4>1. Refuse(m, {q}, "cancelled") \in Broker
            /\ Refuse(m, {q}, "cancelled").granted = m.granted
        BY <3>1, DropsKeepType, DropsGrantNothing DEF Refusals
      <4>2. broker' = Waits(m, c, q)
        BY <2>2 DEF m, q
      <4> QED
        BY <3>1, <3>2, <4>1, <4>2 DEF Waits, Broker
    <3> QED
      BY <3>1, <3>3, SameGrants DEF LiveGrants
  <2>3. broker' = p \/ \E made \in Created(p, c) : broker' = Waits(made.broker, c, made.req)
    BY <1>15 DEF RequestApp, p
  <2> QED
    BY <2>1, <2>2, <2>3
<1>16. ASSUME NEW c \in App, ConsentThen(c) PROVE Late
  <2>1. c \in Calls /\ consent[c] # "none"
    BY <1>16 DEF ConsentThen, Calls, Tools
  <2> QED
    BY <1>3, <1>4, <1>16, <2>1 DEF ConsentThen
<1>17. CASE HostStep
  <2>1. CancelRenderer \/ (\E s : CancelScope(s)) => Kept
    BY <1>5 DEF CancelRenderer, CancelScope
  <2>2. ClearGuard \/ Clear => Kept
    BY <1>1, DropsGrantNothing DEF ClearGuard, Clear
  <2>3. ASSUME NEW r \in Requests, NEW decision, Answer(r, decision) PROVE Late
    BY <1>1, <2>3, ResolveGrants DEF Answer, p
  <2>4. ASSUME NEW r \in Requests, NEW yes, Consent(r, yes) PROVE Kept
    BY <2>4 DEF Consent
  <2>5. ASSUME NEW r \in Requests, Elapse(r) PROVE Kept
    BY <1>1, <2>5 DEF Elapse, Broker
  <2>6. ASSUME NEW r \in Requests, Timer(r) PROVE Kept
    <3>1. \A S : Refuse(broker, S, "timeout") \in Broker
                 /\ Refuse(broker, S, "timeout").granted = broker.granted
      BY <1>1, DropsKeepType, DropsGrantNothing DEF Refusals
    <3>2. \A S, T : Drop(Refuse(broker, S, "timeout"), T).granted = broker.granted
      BY <3>1, DropsGrantNothing
    <3> QED
      BY <2>6, <3>2 DEF Timer, Expire
  <2> QED
    BY <1>17, <2>1, <2>2, <2>3, <2>4, <2>5, <2>6 DEF HostStep
<1>18. UNCHANGED vars => Kept
  BY DEF vars
<1>19. ASSUME NEW c \in Calls, CliStep(c) \/ ModelStep(c) \/ AppDecided(c) \/ RequestApp(c)
       PROVE  Kept \/ Late
  BY <1>7, <1>8, <1>9, <1>10, <1>11, <1>12, <1>13, <1>14, <1>15, <1>19 DEF CliStep, ModelStep
<1>20. Cli \subseteq Calls /\ Model \subseteq Calls /\ App \subseteq Calls
  BY DEF Calls, Tools
<1> QED
  BY <1>16, <1>17, <1>18, <1>19, <1>20 DEF Next, AppStep

\* An approval is worth nothing after its deadline: whoever asks, however late the timer
\* of the request runs, no step lets a call through on it.
THEOREM NothingIsGrantedLate == Spec => NoLateGrant
<1>1. SoundState /\ [Next]_vars =>
        [\A r \in Requests : broker.req[r].due => broker'.granted[r] = broker.granted[r]]_vars
  BY OnTimeStep
<1> QED
  BY <1>1, SoundAlways, PTL DEF Spec, NoLateGrant
=============================================================================
