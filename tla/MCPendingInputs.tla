---------------------------- MODULE MCPendingInputs ----------------------------
(***************************************************************************)
(* The instances TLC checks.  A scenario names what may happen beside the  *)
(* normal course of a turn; the .cfg files pair one with the submissions,  *)
(* their number and the capacity of the queue.  Keeping scenarios apart    *)
(* keeps each instance small and says which circumstances a property needs.*)
(***************************************************************************)
EXTENDS PendingInputProperties

\* Everything but what changes the head of the queue while its wakeup may be dropped.
WakeupEvents == AllEvents \ {"promote", "move", "delete"}

\* Stop, restart and promotion: what changes which message a run answers.
ContractEvents == {"cancel", "restart", "promote"}

\* Everything short of a provider error, which deletes accepted steer messages (run
\* steer_rollback), and of the mere edits of the queue.
SessionEvents == AllEvents \ {"streamError", "move", "edit"}

AllSubmissions == AllSources
QueueSubmissions == {"send", "queue"}
SteeredSubmissions == {"queue", "steer"}
=============================================================================
