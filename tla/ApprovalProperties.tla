-------------------------- MODULE ApprovalProperties --------------------------
(***************************************************************************)
(* What the user's consent is worth: who it lets through, for how long,    *)
(* and what is left of a request that ended.                               *)
(***************************************************************************)
EXTENDS Approvals

\* Every variable holds values of its type.
ApprovalTypeOK ==
    /\ broker \in Broker
    /\ pc \in [Calls -> {"idle", "target", "presenting", "waiting", "asked", "leased",
                         "cleared", "granted", "failed"}]
    /\ at \in [Calls -> Requests \union {NoRequest}]
    /\ aborted \subseteq Calls
    /\ consent \in [App -> {"none", "open", "yes", "no", "done"}]
    /\ targets \subseteq Requests /\ lost \subseteq Requests

\* A caller that waits is registered with its own request and that request is still
\* pending, so an answer, an abort, a timer or a clear reaches it (approvalBroker.ts wait,
\* settle, deletePending: no path deletes an entry and forgets a settler).
WaitersReachable ==
    \A c \in Calls :
        /\ pc[c] = "waiting" /\ broker.got[c] = "none" =>
              \E r \in Requests : c \in broker.req[r].waiters
        /\ \A r \in Requests : c \in broker.req[r].waiters =>
              /\ r = at[c] /\ broker.req[r].status = "pending"
              /\ pc[c] = "waiting" /\ broker.got[c] = "none"

\* A call goes ahead only on a request the user allowed, whose scope, operation, effect,
\* binding key and argument hash are its own, and it was let through exactly once
\* (consumeApproved, wait, resolve).
GrantsAreApproved ==
    /\ \A r \in Requests : broker.granted[r] # {} => "allowed" \in broker.said[r]
    /\ \A r \in Requests : \A c \in broker.granted[r] : Binding[c] = Binding[r[1]]
    /\ \A c \in Calls : pc[c] = "granted" =>
          \E r \in Requests : c \in broker.granted[r]
    /\ \A c \in Calls, r, q \in Requests :
          c \in broker.granted[r] /\ c \in broker.granted[q] => r = q

\* One approval lets one tool execution of a model, or one CLI request, through: whoever
\* consumes it, by waiting or by executing, is the only one.
ApprovalUsedOnce ==
    \A r \in Requests : r[1] \notin App =>
        Cardinality(broker.granted[r]) <= 1

\* An approval is worth nothing after its deadline, however late its timer runs.
NoLateGrant ==
    [][\A r \in Requests : broker.req[r].due => broker'.granted[r] = broker.granted[r]]_vars

\* A CLI request that returned or threw leaves no approval to answer or to use, no
\* renderer target and no mark (authorize() and its finally).
NothingLeftBehind ==
    \A c \in Cli : pc[c] \in {"granted", "failed"} =>
        \A k \in 1 .. Tries :
            /\ ~LiveIn(broker, <<c, k>>)
            /\ <<c, k>> \notin targets \union lost

\* A caller that waits gets its decision, and no request holds its place in the scope's
\* capacity for ever.
EveryRequestEnds ==
    /\ \A r \in Requests : LiveIn(broker, r) ~> ~LiveIn(broker, r)
    /\ \A c \in Cli \union App : pc[c] # "idle" ~> pc[c] \in {"granted", "failed"}
=============================================================================
