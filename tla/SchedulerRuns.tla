--------------------------- MODULE SchedulerRuns ---------------------------
(***************************************************************************)
(* The runs of scheduled jobs in the main process: the rows of             *)
(* cron_job_runs, the executor's map of active sessions, the sessions      *)
(* themselves and the reports sent to the delivery targets.                *)
(*                                                                         *)
(* SQLite is synchronous, so a stretch of the executor between two awaits  *)
(* is one step.  The awaits are the stages of `work`: "checking" waits in  *)
(* assertRunnable, "creating" in createSessionForRun, "starting" in        *)
(* startSessionRun.                                                        *)
(***************************************************************************)
EXTENDS Naturals, Sequences

CONSTANTS
  Jobs,         \* the ids of jobs
  Runs,         \* the ids of runs, handed out in increasing order
  AgentStates   \* what the agent catalogue may answer: {TRUE} or BOOLEAN

ASSUME RunsAssumption == Runs \subseteq Nat

ASSUME AgentsAssumption == AgentStates \subseteq BOOLEAN

VARIABLES
  status,    \* run -> its row's status; "none" before it is queued, "deleted" after a cascade
  slot,      \* run -> the job it is for, the time it was scheduled for and the reason
  work,      \* run -> the await its processDueRun stands in, "rest" if none
  runnable,  \* run -> whether the job read for it was enabled, while "checking"
  watched,   \* the runs whose session is in the executor's activeSessions, with their timer
  session,   \* run -> its detached session: "none", "open", "closed", "adrift" (not cancelled)
  cancel,    \* the runs whose timeout awaits the cancellation of the session
  told       \* run -> the statuses reported to the delivery targets, in order

runVars == <<status, slot, work, runnable, watched, session, cancel, told>>

-----------------------------------------------------------------------------
Times == Nat

NoSlot == [job |-> "none", at |-> 0, reason |-> "none"]

Slots == [job : Jobs, at : Times, reason : {"scheduled", "manual"}] \union {NoSlot}

Settled == {"completed", "failed", "cancelled"}

RunStatuses == Settled \union {"none", "queued", "running", "deleted"}

RunStages == {"rest", "checking", "creating", "starting"}

SessionStates == {"none", "open", "closed", "adrift"}

RunsInit ==
  /\ status = [r \in Runs |-> "none"]
  /\ slot = [r \in Runs |-> NoSlot]
  /\ work = [r \in Runs |-> "rest"]
  /\ runnable = [r \in Runs |-> FALSE]
  /\ watched = {}
  /\ session = [r \in Runs |-> "none"]
  /\ cancel = {}
  /\ told = [r \in Runs |-> <<>>]

-----------------------------------------------------------------------------
(* Rows.                                                                   *)

HasRow(r) == status[r] \notin {"none", "deleted"}

\* A row for the same occurrence: the partial unique index on job and time.
\* A slip: every scheduled insert succeeds.
TakenByNone(s) == FALSE

Taken(s) == s.reason = "scheduled" /\ \E r \in Runs : HasRow(r) /\ slot[r] = s

\* Ids for the slots of S: the next ones nobody has used.
Allocation(S) ==
  {f \in [S -> {r \in Runs : status[r] = "none"}] :
     /\ \A s, t \in S : f[s] = f[t] => s = t
     /\ \A s \in S, q \in Runs :
          q < f[s] => status[q] # "none" \/ \E t \in S : f[t] = q}

\* The rows of f are queued.
Queued(f) ==
  LET new == {f[s] : s \in DOMAIN f}
      of(r) == CHOOSE s \in DOMAIN f : f[s] = r
  IN  /\ status' = [r \in Runs |-> IF r \in new THEN "queued" ELSE status[r]]
      /\ slot' = [r \in Runs |-> IF r \in new THEN of(r) ELSE slot[r]]

RunsOf(j) == {r \in Runs : HasRow(r) /\ slot[r].job = j}

\* countActiveRunsByJob, the run itself left out.
OtherActive(r) == \E q \in RunsOf(slot[r].job) \ {r} : status[q] = "running"

\* deleteJob: the rows of the job go with it.
DeleteRunsOf(j) ==
  /\ status' = [r \in Runs |-> IF r \in RunsOf(j) THEN "deleted" ELSE status[r]]
  /\ UNCHANGED <<slot, work, runnable, watched, session, cancel, told>>

-----------------------------------------------------------------------------
(* Settling a run.                                                         *)

Tell(r, s) == told' = [told EXCEPT ![r] = Append(@, s)]

Mark(r, s) == status' = [status EXCEPT ![r] = s]

Rest(r) ==
  /\ work' = [work EXCEPT ![r] = "rest"]
  /\ runnable' = [runnable EXCEPT ![r] = FALSE]

\* The run is given a status and reported, if it still runs.
SettleIfRunning(r, s) ==
  IF status[r] = "running" THEN Mark(r, s) /\ Tell(r, s) ELSE UNCHANGED <<status, told>>

-----------------------------------------------------------------------------
(* processDueRun and the executor.                                         *)

\* A due run reaches the main process, which reads the row of its job.
ProcessDue(r, exists, enabled) ==
  IF ~HasRow(r)
    THEN UNCHANGED runVars
  ELSE IF ~exists
    THEN /\ Mark(r, "failed")
         /\ UNCHANGED <<slot, work, runnable, watched, session, cancel, told>>
  ELSE /\ work' = [work EXCEPT ![r] = "checking"]
       /\ runnable' = [runnable EXCEPT ![r] = enabled]
       /\ UNCHANGED <<status, slot, watched, session, cancel, told>>

\* assertRunnable refuses: the run is failed whatever its status, and reported.
Refuse(r) ==
  /\ work[r] = "checking"
  /\ \E ok \in AgentStates : ~(runnable[r] /\ ok)
  /\ IF HasRow(r) THEN Mark(r, "failed") /\ Tell(r, "failed") ELSE UNCHANGED <<status, told>>
  /\ Rest(r)
  /\ UNCHANGED <<slot, watched, session, cancel>>

\* assertRunnable accepts and the executor claims the row, in one stretch.
Passes(r) ==
  /\ work[r] = "checking"
  /\ runnable[r]
  /\ TRUE \in AgentStates

\* claimRun finds no queued row: the job was deleted meanwhile.
ClaimLost(r) ==
  /\ Passes(r)
  /\ status[r] # "queued"
  /\ Rest(r)
  /\ UNCHANGED <<status, slot, watched, session, cancel, told>>

\* Another run of the job is active: the claimed run waits again or is cancelled.
\* Nobody reports it.
ClaimBlocked(r, policy) ==
  /\ Passes(r)
  /\ status[r] = "queued"
  /\ OtherActive(r)
  /\ Mark(r, IF policy = "queue" THEN "queued" ELSE "cancelled")
  /\ Rest(r)
  /\ UNCHANGED <<slot, watched, session, cancel, told>>

\* A slip: the executor does not look for another run.
ClaimUnchecked(r) ==
  /\ Passes(r)
  /\ status[r] = "queued"
  /\ Mark(r, "running")
  /\ work' = [work EXCEPT ![r] = "creating"]
  /\ runnable' = [runnable EXCEPT ![r] = FALSE]
  /\ UNCHANGED <<slot, watched, session, cancel, told>>

Claim(r) ==
  /\ Passes(r)
  /\ status[r] = "queued"
  /\ ~OtherActive(r)
  /\ Mark(r, "running")
  /\ work' = [work EXCEPT ![r] = "creating"]
  /\ runnable' = [runnable EXCEPT ![r] = FALSE]
  /\ UNCHANGED <<slot, watched, session, cancel, told>>

\* The session exists: it is recorded on the row and watched, with a timer,
\* and the task prompt is sent.  updateRunSession throws if the row is gone.
\* A slip: the session is recorded and not watched.
SessionUnwatched(r) ==
  /\ work[r] = "creating"
  /\ IF HasRow(r)
       THEN /\ work' = [work EXCEPT ![r] = "starting"]
            /\ session' = [session EXCEPT ![r] = "open"]
            /\ UNCHANGED runnable
       ELSE /\ Rest(r)
            /\ UNCHANGED session
  /\ UNCHANGED <<status, slot, watched, cancel, told>>

SessionCreated(r) ==
  /\ work[r] = "creating"
  /\ IF HasRow(r)
       THEN /\ work' = [work EXCEPT ![r] = "starting"]
            /\ watched' = watched \union {r}
            /\ session' = [session EXCEPT ![r] = "open"]
            /\ UNCHANGED runnable
       ELSE /\ Rest(r)
            /\ UNCHANGED <<watched, session>>
  /\ UNCHANGED <<status, slot, cancel, told>>

CreateFails(r) ==
  /\ work[r] = "creating"
  /\ SettleIfRunning(r, "failed")
  /\ Rest(r)
  /\ UNCHANGED <<slot, watched, session, cancel>>

\* sendMessage returned.  If it names a message and the row is gone, updateRunOutput
\* throws and the session is watched no more.
SessionStarted(r) ==
  /\ work[r] = "starting"
  /\ watched' \in IF HasRow(r) THEN {watched} ELSE {watched, watched \ {r}}
  /\ Rest(r)
  /\ UNCHANGED <<status, slot, session, cancel, told>>

\* sendMessage threw: the session does not run on.
StartFails(r) ==
  /\ work[r] = "starting"
  /\ watched' = watched \ {r}
  /\ session' = [session EXCEPT ![r] = "closed"]
  /\ SettleIfRunning(r, "failed")
  /\ Rest(r)
  /\ UNCHANGED <<slot, cancel>>

-----------------------------------------------------------------------------
(* Session updates and the timer.                                          *)

\* The session reports idle or error, perhaps before sendMessage returned.
\* A run that is not watched hears nothing of it.
SessionEnds(r, s) ==
  /\ session[r] \in {"open", "adrift"}
  /\ session' = [session EXCEPT ![r] = "closed"]
  /\ IF r \in watched
       THEN SettleIfRunning(r, s)
       ELSE UNCHANGED <<status, told>>
  /\ watched' = watched \ {r}
  /\ UNCHANGED <<slot, work, runnable, cancel>>

\* The timer of the run fires: the row fails first, the session is cancelled and the
\* run reported after.
\* A slip: the session is left alone.
TimeoutUncancelled(r) ==
  /\ r \in watched
  /\ watched' = watched \ {r}
  /\ SettleIfRunning(r, "failed")
  /\ UNCHANGED <<slot, work, runnable, session, cancel>>

\* A slip: the run is reported before the cancellation too.
TimeoutToldTwice(r) ==
  /\ r \in watched
  /\ watched' = watched \ {r}
  /\ SettleIfRunning(r, "failed")
  /\ cancel' = IF status[r] = "running" THEN cancel \union {r} ELSE cancel
  /\ UNCHANGED <<slot, work, runnable, session>>

Timeout(r) ==
  /\ r \in watched
  /\ watched' = watched \ {r}
  /\ IF status[r] = "running"
       THEN Mark(r, "failed") /\ cancel' = cancel \union {r}
       ELSE UNCHANGED <<status, cancel>>
  /\ UNCHANGED <<slot, work, runnable, session, told>>

\* The cancellation has ended, and only now is the timeout reported.
\* A cancellation that fails is logged: the session runs on.
Cancelled(r, ended) ==
  /\ r \in cancel
  /\ cancel' = cancel \ {r}
  /\ session' = [session EXCEPT ![r] = IF ended \/ @ # "open" THEN "closed" ELSE "adrift"]
  /\ Tell(r, "failed")
  /\ UNCHANGED <<status, slot, work, runnable, watched>>

-----------------------------------------------------------------------------
\* The app stopped and starts again: what was in memory is gone, and
\* failStaleRunningRuns fails the rows the old process left running.
\* A slip: the rows of runs whose session was not created yet are passed over.
RunsRestartPartly ==
  /\ status' = [r \in Runs |->
                  IF status[r] = "running" /\ session[r] # "none" THEN "failed" ELSE status[r]]
  /\ work' = [r \in Runs |-> "rest"]
  /\ watched' = {}
  /\ session' = [r \in Runs |-> IF session[r] = "none" THEN "none" ELSE "closed"]
  /\ runnable' = [r \in Runs |-> FALSE]
  /\ cancel' = {}
  /\ UNCHANGED <<slot, told>>

RunsRestart ==
  /\ status' = [r \in Runs |-> IF status[r] = "running" THEN "failed" ELSE status[r]]
  /\ work' = [r \in Runs |-> "rest"]
  /\ watched' = {}
  /\ session' = [r \in Runs |-> IF session[r] = "none" THEN "none" ELSE "closed"]
  /\ runnable' = [r \in Runs |-> FALSE]
  /\ cancel' = {}
  /\ UNCHANGED <<slot, told>>

=============================================================================
