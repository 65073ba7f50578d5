------------------------------ MODULE Approvals ------------------------------
(***************************************************************************)
(* Host-owned approvals: the ApprovalBroker and its two adapters, the      *)
(* ToolPermissionBroker (a model's tool call is asked about before it runs *)
(* and consumes the approval when it runs; an MCP App's call waits) and    *)
(* the CliMutationGuard (a socket request waits for the user's answer).    *)
(*                                                                         *)
(* A call is one invocation that needs the user's consent.  Request        *)
(* <<c, k>> is the k-th approval request call c created; the calls that    *)
(* share a deduplicated request name the call that created it.  One action *)
(* is one stretch between awaits, with the pruning it starts with.         *)
(***************************************************************************)
EXTENDS Integers, FiniteSets

CONSTANTS Cli,         \* the calls of CLI requests
          Model,       \* the tool calls of a model
          App,         \* the tool calls of MCP Apps
          Scope,       \* call -> its scope key: a connection or a conversation
          Binding,     \* call -> operation, effect, binding key and argument hash
          Instance,    \* App call -> the App instance it comes from
          MaxPending,  \* maxPendingPerScope
          Tries,       \* bound: requests one call may create
          MaxCalls     \* bound: calls made in one behaviour

Calls == Cli \union Model \union App
Tools == Model \union App
Requests == Calls \X (1 .. Tries)
NoRequest == <<>>
Scopes == {Scope[c] : c \in Calls}

ASSUME CallsAssumption ==
    /\ Cli \intersect Tools = {} /\ Model \intersect App = {}
    /\ {MaxPending, Tries, MaxCalls} \subseteq Nat \ {0}
    /\ DOMAIN Scope = Calls /\ DOMAIN Binding = Calls /\ DOMAIN Instance = App

\* executionId is part of a CLI binding, the source of a tool's, the scope and the
\* domain of both: calls with one binding agree on these.
ASSUME BindingAssumption ==
    \A c, e \in Calls : Binding[c] = Binding[e] =>
        /\ Scope[c] = Scope[e]
        /\ c \in Cli => c = e
        /\ (c \in Model) = (e \in Model)

VARIABLES broker,   \* [req, got, granted, said]: the broker, and what it has told
          pc,       \* call -> where it is
          at,       \* call -> the request it is about
          aborted,  \* the calls whose abort signal has fired
          consent,  \* App call -> its host dialog, up to the callback behind it
          targets,  \* pendingTargets of the guard: requests a renderer may resolve
          lost      \* rendererUnavailableRequests

vars == <<broker, pc, at, aborted, consent, targets, lost>>

Refusals == {"denied", "cancelled", "timeout"}
Decisions == {"approved"} \union Refusals

\* An entry of `pending`.  due: expiresAt has passed; waiters: its settlers; aborts: the
\* calls whose signal cancels it.
Request == [status : {"free", "pending", "approved", "gone"}, due : BOOLEAN,
            waiters : SUBSET Calls, aborts : SUBSET Calls]
Free == [status |-> "free", due |-> FALSE, waiters |-> {}, aborts |-> {}]
Gone == [Free EXCEPT !.status = "gone"]

\* got: the decision a call's wait() settled with; granted (history): the calls each
\* request let through; said (history): what was published about it.
Broker == [req : [Requests -> Request],
           got : [Calls -> {"none"} \union Decisions],
           granted : [Requests -> SUBSET Calls],
           said : [Requests -> SUBSET {"allowed", "refused"}]]

Consume(r) == r[1] \notin Model                    \* consumeOnApprove
LiveIn(b, r) == b.req[r].status \in {"pending", "approved"}
Live(b) == {r \in Requests : LiveIn(b, r)}

-----------------------------------------------------------------------------
(* The broker: operators from broker to broker. *)

\* settle(refusal), emit 'resolved' and deletePending for every request of S at once.
Refuse(b, S, refusal) ==
    [b EXCEPT
        !.req = [r \in Requests |-> IF r \in S THEN Gone ELSE @[r]],
        !.got = [c \in Calls |->
                    IF \E r \in S : c \in b.req[r].waiters THEN refusal ELSE @[c]],
        !.said = [r \in Requests |-> IF r \in S THEN @[r] \union {"refused"} ELSE @[r]]]

\* deletePending without a decision: the approval is consumed, or expires unused.
Drop(b, S) ==
    [b EXCEPT !.req = [r \in Requests |-> IF r \in S THEN Gone ELSE @[r]]]

\* A slip: expiry deletes the entry and forgets its waiters.
ExpireUnsettled(b, S) == Drop(b, S \intersect Live(b))

\* expire(): only a request that is still pending is told a decision.
Expire(b, S) ==
    Drop(Refuse(b, {r \in S : b.req[r].status = "pending"}, "timeout"),
         {r \in S : b.req[r].status = "approved"})

\* A slip: expiry is left to the timers.
PruneNothing(b) == b

PruneExpired(b) == Expire(b, {r \in Live(b) : b.req[r].due})

\* resolve(cancelled) of each request of S; each resolve() prunes first.
CancelEach(b, S) ==
    IF S = {} THEN b
    ELSE LET p == PruneExpired(b) IN Refuse(p, S \intersect Live(p), "cancelled")

\* settle(allowed) and emit 'resolved'; the entry goes if it had a waiter to resume.
Allow(b, r) ==
    LET gone == Consume(r) /\ b.req[r].waiters # {} IN
    [b EXCEPT
        !.req[r] = IF gone THEN Gone ELSE [@ EXCEPT !.status = "approved", !.waiters = {}],
        !.got = [c \in Calls |-> IF c \in b.req[r].waiters THEN "approved" ELSE @[c]],
        !.granted[r] = @ \union b.req[r].waiters,
        !.said[r] = @ \union {"allowed"}]

\* What resolve() does after pruning: only a pending request may be approved, but one
\* that is approved and not yet consumed may still be denied or cancelled.
Settled(b, r, decision) ==
    IF decision = "approved"
    THEN IF b.req[r].status = "pending" THEN Allow(b, r) ELSE b
    ELSE IF LiveIn(b, r) THEN Refuse(b, {r}, decision) ELSE b

Resolve(b, r, decision) == Settled(PruneExpired(b), r, decision)

\* create() after pruning.  Only a pending request is shared.
Shareable(b, c) ==
    {r \in Live(b) : b.req[r].status = "pending" /\ Binding[r[1]] = Binding[c]}

\* The next request call c may create.
Fresh(b, c, r) ==
    /\ r[1] = c /\ b.req[r].status = "free"
    /\ \A k \in 1 .. r[2] - 1 : b.req[<<c, k>>].status # "free"

Full(b, c) ==
    Cardinality({r \in Live(b) : Scope[r[1]] = Scope[c]}) >= MaxPending

\* The outcomes of create() for call c.  A tool deduplicates, the guard never does; only
\* an App call brings no signal.
Created(b, c) ==
    LET signal == {c} \ App IN
    IF c \in Tools /\ Shareable(b, c) # {}
    THEN {[broker |-> [b EXCEPT !.req[r].aborts = @ \union signal], req |-> r] :
             r \in Shareable(b, c)}
    ELSE {[broker |-> [b EXCEPT !.req[r] = [Free EXCEPT !.status = "pending",
                                                        !.aborts = signal]], req |-> r] :
             r \in {q \in Requests : Fresh(b, c, q) /\ ~Full(b, c)}}

\* ApprovalCapacityError
Refused(b, c) == (c \in Cli \/ Shareable(b, c) = {}) /\ Full(b, c)

\* wait() of call c after pruning: settled at once, or registered with the request.
Waits(b, c, r) ==
    IF ~LiveIn(b, r) THEN [b EXCEPT !.got[c] = "cancelled"]
    ELSE IF c \in aborted
    THEN [Refuse(b, {r}, "cancelled") EXCEPT !.got[c] = "cancelled"]
    ELSE IF b.req[r].status = "approved"
    THEN [Drop(b, IF Consume(r) THEN {r} ELSE {}) EXCEPT
             !.got[c] = "approved", !.granted[r] = @ \union {c}]
    ELSE [b EXCEPT !.req[r].waiters = @ \union {c},
                   !.req[r].aborts = @ \union ({c} \ App)]

\* A slip: a request that is still pending will do.
ConsumableUnanswered(b, c) == {r \in Live(b) : Binding[r[1]] = Binding[c]}

\* consumeApproved() takes the first approved request with the caller's binding.
Consumable(b, c) ==
    {r \in Live(b) : b.req[r].status = "approved" /\ Binding[r[1]] = Binding[c]}

\* A slip: the approval survives its use.
ConsumedAgain(b, c, r) == [b EXCEPT !.granted[r] = @ \union {c}]

Consumed(b, c, r) == [Drop(b, {r}) EXCEPT !.granted[r] = @ \union {c}]

-----------------------------------------------------------------------------
(* The CLI guard. *)

Init ==
    /\ broker = [req |-> [r \in Requests |-> Free], got |-> [c \in Calls |-> "none"],
                 granted |-> [r \in Requests |-> {}], said |-> [r \in Requests |-> {}]]
    /\ pc = [c \in Calls |-> "idle"]
    /\ at = [c \in Calls |-> NoRequest]
    /\ aborted = {}
    /\ consent = [c \in App |-> "none"]
    /\ targets = {}
    /\ lost = {}

Goto(c, place) == pc' = [pc EXCEPT ![c] = place]

\* The finally block of authorize().
Forget(r) == targets' = targets \ {r} /\ lost' = lost \ {r}

\* A call whose signal fired before it was made throws at once and is not shown.
Made(c) ==
    /\ pc[c] = "idle"
    /\ Cardinality({e \in Calls : pc[e] # "idle"}) < MaxCalls

\* authorize() asks for a renderer, ...
Authorize(c) ==
    /\ Made(c)
    /\ Goto(c, "target")
    /\ UNCHANGED <<broker, at, aborted, consent, targets, lost>>

\* ... finds none, or is aborted, ...
TargetMissing(c) ==
    /\ pc[c] = "target"
    /\ Goto(c, "failed")
    /\ UNCHANGED <<broker, at, aborted, consent, targets, lost>>

\* ... or creates its request and presents it to the renderer, ...
Present(c) ==
    /\ pc[c] = "target" /\ c \notin aborted
    /\ LET b == PruneExpired(broker) IN
       \/ \E made \in Created(b, c) :
            /\ broker' = made.broker
            /\ at' = [at EXCEPT ![c] = made.req]
            /\ targets' = targets \union {made.req}
            /\ Goto(c, "presenting")
       \/ /\ Refused(b, c)
          /\ broker' = b
          /\ Goto(c, "failed")
          /\ UNCHANGED <<at, targets>>
    /\ UNCHANGED <<aborted, consent, lost>>

\* A slip: the request of a renderer that is gone stays open.
PresentFailsQuietly(c) ==
    /\ pc[c] = "presenting"
    /\ Goto(c, "failed")
    /\ Forget(at[c])
    /\ UNCHANGED <<broker, at, aborted, consent>>

\* ... which cannot show it, ...
PresentFails(c) ==
    /\ pc[c] = "presenting"
    /\ broker' = Resolve(broker, at[c], "cancelled")
    /\ Goto(c, "failed")
    /\ Forget(at[c])
    /\ UNCHANGED <<at, aborted, consent>>

\* ... or does; the user may have answered before wait() is called.
Wait(c) ==
    /\ pc[c] = "presenting"
    /\ broker' = Waits(PruneExpired(broker), c, at[c])
    /\ Goto(c, "waiting")
    /\ UNCHANGED <<at, aborted, consent, targets, lost>>

\* The continuation of wait(): authorize() returns or throws, past its finally.
Decided(c) ==
    /\ pc[c] = "waiting" /\ c \in Cli
    /\ broker.got[c] # "none"
    /\ Goto(c, IF broker.got[c] = "approved" THEN "granted" ELSE "failed")
    /\ Forget(at[c])
    /\ UNCHANGED <<broker, at, aborted, consent>>

\* resolve() of the guard: the user answers in the renderer.
Answer(r, decision) ==
    /\ r \in targets
    /\ broker' = Resolve(broker, r, decision)
    /\ UNCHANGED <<pc, at, aborted, consent, targets, lost>>

\* cancelRenderer(): the window of the requests is gone.
CancelRenderer ==
    /\ targets # {}
    /\ broker' = CancelEach(broker, targets)
    /\ lost' = lost \union targets
    /\ UNCHANGED <<pc, at, aborted, consent, targets>>

\* clear() of the guard and, at shutdown, of the broker: nothing is pruned before.
ClearGuard ==
    /\ broker' = Refuse(broker, {r \in Live(broker) : r[1] \in Cli}, "cancelled")
    /\ targets' = {} /\ lost' = {}
    /\ UNCHANGED <<pc, at, aborted, consent>>

Clear ==
    /\ broker' = Refuse(broker, Live(broker), "cancelled")
    /\ UNCHANGED <<pc, at, aborted, consent, targets, lost>>

\* The listeners attachAbort() installs run when the signal of a call fires.  They stay
\* with a request that outlives the call.
Abort(c) ==
    /\ c \notin aborted
    /\ \/ pc[c] \notin {"idle", "granted", "failed"}
       \/ \E r \in Live(broker) : c \in broker.req[r].aborts
    /\ aborted' = aborted \union {c}
    /\ broker' = CancelEach(broker, {r \in Live(broker) : c \in broker.req[r].aborts})
    /\ UNCHANGED <<pc, at, consent, targets, lost>>

-----------------------------------------------------------------------------
(* A model's tool call. *)

\* createPending() of the broker adapter, for a call that then goes to `place`.
Ask(c, b, place) ==
    \/ \E made \in Created(b, c) :
         /\ broker' = made.broker
         /\ at' = [at EXCEPT ![c] = made.req]
         /\ Goto(c, place)
    \/ /\ Refused(b, c)
       /\ broker' = b
       /\ Goto(c, "failed")
       /\ UNCHANGED at

\* evaluateModel(): the pre-check before the call pauses its turn.
Evaluate(c) ==
    /\ Made(c)
    /\ Ask(c, PruneExpired(broker), "asked")
    /\ UNCHANGED <<aborted, consent, targets, lost>>

\* approvePermission(): the user allows the call.  If the request is no longer pending
\* the call proceeds all the same, without a lease on the approval.
Approve(c) ==
    /\ pc[c] = "asked"
    /\ LET b == PruneExpired(broker) IN
       /\ broker' = Settled(b, at[c], "approved")
       /\ Goto(c, IF b.req[at[c]].status = "pending" THEN "leased" ELSE "cleared")
    /\ UNCHANGED <<at, aborted, consent, targets, lost>>

\* denyPermission(), and an approval whose lease is revoked before the call runs.
Deny(c) ==
    /\ pc[c] = "asked"
    /\ broker' = Resolve(broker, at[c], "denied")
    /\ Goto(c, "failed")
    /\ UNCHANGED <<at, aborted, consent, targets, lost>>

RevokeLease(c) ==
    /\ pc[c] = "leased"
    /\ broker' = Resolve(broker, at[c], "cancelled")
    /\ Goto(c, "failed")
    /\ UNCHANGED <<at, aborted, consent, targets, lost>>

\* authorizeExecution(): consume an approval of this binding, or ask again.
Execute(c) ==
    /\ pc[c] \in {"leased", "cleared"} /\ c \notin aborted
    /\ LET b == PruneExpired(broker) IN
       \/ \E r \in Consumable(b, c) :
            /\ broker' = Consumed(b, c, r)
            /\ Goto(c, "granted")
            /\ UNCHANGED at
       \/ Consumable(b, c) = {} /\ Ask(c, b, "asked")
    /\ UNCHANGED <<aborted, consent, targets, lost>>

\* An aborted execution throws before it looks.
ExecuteAborted(c) ==
    /\ pc[c] = "cleared" /\ c \in aborted
    /\ Goto(c, "failed")
    /\ UNCHANGED <<broker, at, aborted, consent, targets, lost>>

\* cancelConversation(): the session's permissions are cleared, or it is deleted.
CancelScope(s) ==
    /\ broker' = CancelEach(broker, {r \in Live(broker) : Scope[r[1]] = s})
    /\ UNCHANGED <<pc, at, aborted, consent, targets, lost>>

-----------------------------------------------------------------------------
(* An MCP App's tool call, with the host dialog of its request. *)

\* The calls whose dialog for request r is open: one instance owns it.
Asking(r) == {e \in App : at[e] = r /\ consent[e] = "open"}

\* requestAppDecision(): create, wait, and a dialog in the same stretch.  Identical
\* calls of one instance join its dialog; another instance is refused one.
RequestApp(c) ==
    /\ Made(c)
    /\ LET b == PruneExpired(broker) IN
       \/ \E made \in Created(b, c) :
            /\ broker' = Waits(made.broker, c, made.req)
            /\ at' = [at EXCEPT ![c] = made.req]
            /\ consent' = [consent EXCEPT ![c] =
                  IF \E e \in Asking(made.req) : Instance[e] # Instance[c]
                  THEN "no" ELSE "open"]
            /\ Goto(c, "waiting")
       \/ /\ Refused(b, c)
          /\ broker' = b
          /\ Goto(c, "failed")
          /\ UNCHANGED <<at, consent>>
    /\ UNCHANGED <<aborted, targets, lost>>

\* submitConsent(), a dialog that times out, or an instance that is revoked.
Consent(r, yes) ==
    /\ Asking(r) # {}
    /\ consent' = [c \in App |-> IF c \in Asking(r)
                                 THEN IF yes THEN "yes" ELSE "no" ELSE consent[c]]
    /\ UNCHANGED <<broker, pc, at, aborted, targets, lost>>

\* The callback behind requestConsent() carries the answer to the broker.
ConsentThen(c) ==
    /\ consent[c] \in {"yes", "no"}
    /\ broker' = Resolve(broker, at[c], IF consent[c] = "yes" THEN "approved" ELSE "denied")
    /\ consent' = [consent EXCEPT ![c] = "done"]
    /\ UNCHANGED <<pc, at, aborted, targets, lost>>

AppDecided(c) ==
    /\ pc[c] = "waiting" /\ c \in App
    /\ broker.got[c] # "none"
    /\ Goto(c, IF broker.got[c] = "approved" THEN "granted" ELSE "failed")
    /\ UNCHANGED <<broker, at, aborted, consent, targets, lost>>

-----------------------------------------------------------------------------
(* Time. *)

\* The clock passes a deadline; the timer runs later, when the event loop is free.
Elapse(r) ==
    /\ LiveIn(broker, r) /\ ~broker.req[r].due
    /\ broker' = [broker EXCEPT !.req[r].due = TRUE]
    /\ UNCHANGED <<pc, at, aborted, consent, targets, lost>>

Timer(r) ==
    /\ LiveIn(broker, r) /\ broker.req[r].due
    /\ broker' = Expire(broker, {r})
    /\ UNCHANGED <<pc, at, aborted, consent, targets, lost>>

CliStep(c) ==
    \/ Authorize(c) \/ TargetMissing(c) \/ Present(c) \/ PresentFails(c)
    \/ Wait(c) \/ Decided(c) \/ Abort(c)
ModelStep(c) ==
    \/ Evaluate(c) \/ Approve(c) \/ Deny(c) \/ RevokeLease(c)
    \/ Execute(c) \/ ExecuteAborted(c) \/ Abort(c)
AppStep(c) == RequestApp(c) \/ ConsentThen(c) \/ AppDecided(c)
HostStep ==
    \/ CancelRenderer \/ ClearGuard \/ Clear
    \/ \E s \in {Scope[c] : c \in Tools} : CancelScope(s)
    \/ \E r \in Requests : \/ \E decision \in {"approved", "denied"} : Answer(r, decision)
                           \/ \E yes \in BOOLEAN : Consent(r, yes)
                           \/ Elapse(r)
                           \/ Timer(r)

Next ==
    \/ \E c \in Cli : CliStep(c)
    \/ \E c \in Model : ModelStep(c)
    \/ \E c \in App : AppStep(c)
    \/ HostStep

Spec == Init /\ [][Next]_vars

\* The event loop runs timers and continuations; a renderer answers present().
Fairness ==
    /\ \A r \in Requests : WF_vars(Elapse(r)) /\ WF_vars(Timer(r))
    /\ \A c \in Cli : /\ WF_vars(TargetMissing(c) \/ Present(c))
                      /\ WF_vars(PresentFails(c) \/ Wait(c))
                      /\ WF_vars(Decided(c))
    /\ \A c \in App : WF_vars(AppDecided(c))

FairSpec == Spec /\ Fairness
=============================================================================
