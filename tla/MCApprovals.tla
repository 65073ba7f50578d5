----------------------------- MODULE MCApprovals -----------------------------
(***************************************************************************)
(* An instance of Approvals for TLC: calls of each kind, with one scope    *)
(* for the CLI requests and one for the tools, so that calls compete for   *)
(* its capacity and identical tool calls share a request.                  *)
(***************************************************************************)
EXTENDS ApprovalProperties

MCScope == [c \in Calls |-> IF c \in Cli THEN "connection" ELSE "conversation"]
\* All model calls, and all App calls, have the same arguments.
MCBinding == [c \in Calls |-> IF c \in Model THEN "model" ELSE
                              IF c \in App THEN "app" ELSE c]
\* Every App call comes from an App instance of its own.
MCInstance == [c \in App |-> c]
=============================================================================
