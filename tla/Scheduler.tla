----------------------------- MODULE Scheduler -----------------------------
(***************************************************************************)
(* The scheduler: the table of jobs in the main process, the utility       *)
(* process (the "host") that scans it for due occurrences, and the         *)
(* manager that starts, replaces and restarts that process.                *)
(*                                                                         *)
(* Main process and host share the SQLite file.  The host selects the due  *)
(* rows, then queues them and moves next_run_at in a transaction, then     *)
(* posts RUN_DUE.  An operation of the main process (edit, delete, list,   *)
(* run now) awaits the agent catalogue with the rows it read before, and   *)
(* every one ends by reconciling the stored schedules and the host.        *)
(*                                                                         *)
(* Time is a clock of whole steps up to MaxTime; a cron expression is the  *)
(* set of its occurrences, followed by one beyond the horizon.             *)
(***************************************************************************)
EXTENDS SchedulerRuns, FiniteSets

CONSTANTS
  Callers,      \* who may have an operation under way
  Hosts,        \* the utility processes that are ever forked
  MaxTime,      \* bound on the clock
  Cron,         \* job -> the occurrences of its cron expression
  Grace,        \* how late an occurrence may be found without having been missed
  CatchUp,      \* how many missed occurrences "run_once" makes up for
  Policies,     \* the misfire and concurrency policies jobs have
  MaxRestarts,  \* maxRestartAttempts
  MaxCalls,     \* bound on user operations
  MaxFaults     \* bound on crashes, exits and failing spawns

ASSUME TimeAssumption ==
  /\ MaxTime \in Nat
  /\ Grace \in Nat
  /\ CatchUp \in Nat \ {0}
  /\ MaxRestarts \in Nat
  /\ Cron \in [Jobs -> SUBSET (1 .. MaxTime)]

ASSUME PolicyAssumption ==
  Policies \subseteq [misfire : {"skip", "run_once"}, concurrency : {"skip", "queue"}]

\* 0 stands for no host.
ASSUME HostsAssumption == 0 \notin Hosts

ASSUME BoundsAssumption == MaxCalls \in Nat /\ MaxFaults \in Nat

VARIABLES
  now,       \* the clock
  job,       \* job -> its row: present, enabled and next_run_at
  policy,    \* job -> its misfire and concurrency policy
  op,        \* caller -> its operation between awaits
  host,      \* host -> "off", "spawning" or "up"
  found,     \* host -> the due rows it has selected and not yet queued
  due,       \* the RUN_DUE messages under way
  mgr,       \* the fields of SchedulerProcessManager
  calls,     \* user operations begun
  faults     \* faults so far

hostVars == <<host, found, due>>

vars == <<now, job, policy, op, hostVars, mgr, calls, faults, runVars>>

-----------------------------------------------------------------------------
NoTime == 0

Horizon == MaxTime + 1

NoHost == 0

\* A row of cron_jobs: whether it exists, enabled, next_run_at.
Rows == [exists : BOOLEAN, enabled : BOOLEAN, next : 0 .. Horizon]

NoRow == [exists |-> FALSE, enabled |-> FALSE, next |-> NoTime]

\* The rows a scan has selected, and when.
Scans == [at : 0 .. MaxTime, rows : SUBSET (Jobs \X (1 .. Horizon))]

NotScanned == [at |-> NoTime, rows |-> {}]

Stages == {"rest", "edit", "assert", "running", "reconcile"}

\* An operation: the await it stands in, the job and the run it is about, the
\* time and the rows it has read, the jobs it has still to reconcile.
Ops == [stage : Stages, job : Jobs \union {"none"}, run : Runs \union {0}, at : 0 .. MaxTime,
        rows : [Jobs -> Rows], todo : SUBSET Jobs]

NoOp == [stage |-> "rest", job |-> "none", run |-> 0, at |-> 0,
         rows |-> [j \in Jobs |-> NoRow], todo |-> {}]

\* The manager: this.host, the host this.hostReady waits for, the restart timer,
\* the host its reconcile waits for, the restarts so far, the idle timer, and
\* whether its state is "error".
Managers == [host : Hosts \union {NoHost}, ready : Hosts \union {NoHost}, timer : BOOLEAN,
             retry : Hosts \union {NoHost}, attempts : 0 .. MaxRestarts, idle : BOOLEAN,
             error : BOOLEAN]

NewManager == [host |-> NoHost, ready |-> NoHost, timer |-> FALSE, retry |-> NoHost,
               attempts |-> 0, idle |-> FALSE, error |-> FALSE]

-----------------------------------------------------------------------------
(* Schedules.                                                              *)

\* computeNextRunAt: strictly after t.
NextAfter(j, t) ==
  LET later == {u \in Cron[j] : u > t}
  IN  IF later = {} THEN Horizon ELSE CHOOSE u \in later : \A v \in later : u <= v

\* reconcileDueRun: the occurrences to queue for a row that was due at a.
DueTimes(j, a, t) ==
  LET missed == {u \in Cron[j] : a <= u /\ u <= t}
  IN  IF policy[j].misfire = "run_once"
        THEN {u \in missed : Cardinality({v \in missed : v < u}) < CatchUp}
        ELSE IF t - a <= Grace THEN {a} ELSE {}

\* computeJobState for an enabled flag, a time and the answer of the catalogue.
StateOf(j, enabled, at, ok) ==
  [exists |-> TRUE, enabled |-> enabled /\ ok,
   next |-> IF enabled /\ ok THEN NextAfter(j, at) ELSE NoTime]

Existing(table) == {j \in Jobs : table[j].exists}

Enabled(table) == {j \in Jobs : table[j].exists /\ table[j].enabled}

-----------------------------------------------------------------------------
(* The process manager: what its methods make of its fields M.             *)

\* scheduleRestart
RestartScheduled(M) ==
  IF M.timer \/ M.attempts >= MaxRestarts
    THEN M
    ELSE [M EXCEPT !.timer = TRUE, !.attempts = @ + 1]

\* stop
Stopped(M) ==
  [M EXCEPT !.host = NoHost, !.ready = NoHost, !.timer = FALSE, !.idle = FALSE, !.error = FALSE]

\* A host that is not running and has no message under way.
Free(h) == host[h] = "off" /\ \A m \in due : m.host # h

\* reconcile, from fields M and processes H, for a table of jobs: a host is forked
\* if there is something to scan for and none is there or on its way.  The
\* RECONCILE it posts makes the host scan, which it may do at any time here.
ManagerReconcile(M, H, table, retrying) ==
  IF Enabled(table) = {}
    THEN /\ mgr' = [M EXCEPT !.idle = @ \/ M.host # NoHost, !.error = @ /\ M.host # NoHost]
         /\ host' = H
  ELSE IF M.host # NoHost
    THEN mgr' = [M EXCEPT !.idle = FALSE] /\ host' = H
  ELSE IF M.ready # NoHost
    THEN /\ mgr' = [M EXCEPT !.idle = FALSE, !.retry = IF retrying THEN M.ready ELSE @]
         /\ host' = H
  ELSE \E h \in Hosts :
         /\ Free(h)
         /\ H[h] = "off"
         /\ host' = [H EXCEPT ![h] = "spawning"]
         /\ mgr' = [M EXCEPT !.idle = FALSE, !.ready = h, !.error = FALSE,
                             !.retry = IF retrying THEN h ELSE @]

\* The processes once the manager has killed the one it knows.
Killed(M) == [h \in Hosts |-> IF h = M.host THEN "off" ELSE host[h]]

Forgotten(M) == [h \in Hosts |-> IF h = M.host THEN NotScanned ELSE found[h]]

-----------------------------------------------------------------------------
(* Operations of the main process.                                         *)

MayCall(c) == op[c].stage = "rest" /\ calls < MaxCalls

Called == calls' = calls + 1

\* reconcileScheduler starts: the time and all the rows are read at once.
Reconciling(table) ==
  [NoOp EXCEPT !.stage = "reconcile", !.at = now, !.rows = table, !.todo = Existing(table)]

\* list, or a system resume
List(c) ==
  /\ MayCall(c)
  /\ op' = [op EXCEPT ![c] = Reconciling(job)]
  /\ Called
  /\ UNCHANGED <<now, job, policy, hostVars, mgr, faults, runVars>>

\* upsert and toggle: the draft is made, then the agent is looked up.
Edit(c, j, enabled) ==
  /\ MayCall(c)
  /\ op' = [op EXCEPT ![c] = [NoOp EXCEPT !.stage = "edit", !.job = j, !.at = now,
                                          !.rows = [job EXCEPT ![j].enabled = enabled]]]
  /\ Called
  /\ UNCHANGED <<now, job, policy, hostVars, mgr, faults, runVars>>

\* The whole row is written, whatever has become of it meanwhile.
EditWrite(c) ==
  LET j == op[c].job
      want == op[c].rows[j].enabled
  IN  /\ op[c].stage = "edit"
      /\ \E ok \in AgentStates :
           /\ want => ok
           /\ job' = [job EXCEPT ![j] = StateOf(j, want, op[c].at, ok)]
      /\ op' = [op EXCEPT ![c] = Reconciling(job')]
      /\ UNCHANGED <<now, policy, hostVars, mgr, calls, faults, runVars>>

\* An enabled job needs an agent: the operation throws.
EditRefused(c) ==
  /\ op[c].stage = "edit"
  /\ op[c].rows[op[c].job].enabled
  /\ FALSE \in AgentStates
  /\ op' = [op EXCEPT ![c] = NoOp]
  /\ UNCHANGED <<now, job, policy, hostVars, mgr, calls, faults, runVars>>

Delete(c, j) ==
  /\ MayCall(c)
  /\ job[j].exists
  /\ job' = [job EXCEPT ![j] = NoRow]
  /\ DeleteRunsOf(j)
  /\ op' = [op EXCEPT ![c] = Reconciling(job')]
  /\ Called
  /\ UNCHANGED <<now, policy, hostVars, mgr, faults>>

\* reconcileStoredSchedules, one job: the row that was read is written back whole
\* if its state has changed.
ReconcileJob(c, j) ==
  /\ op[c].stage = "reconcile"
  /\ j \in op[c].todo
  /\ \E ok \in AgentStates :
       LET read == op[c].rows[j]
           state == StateOf(j, read.enabled, op[c].at, ok)
       IN  job' = IF state = read THEN job ELSE [job EXCEPT ![j] = state]
  /\ op' = [op EXCEPT ![c].todo = @ \ {j}, ![c].rows[j] = NoRow]
  /\ UNCHANGED <<now, policy, hostVars, mgr, calls, faults, runVars>>

ReconcileDone(c) ==
  /\ op[c].stage = "reconcile"
  /\ op[c].todo = {}
  /\ ManagerReconcile(mgr, host, job, FALSE)
  /\ op' = [op EXCEPT ![c] = NoOp]
  /\ UNCHANGED <<now, job, policy, found, due, calls, faults, runVars>>

RunNow(c, j) ==
  /\ MayCall(c)
  /\ job[j].exists
  /\ op' = [op EXCEPT ![c] = [NoOp EXCEPT !.stage = "assert", !.job = j, !.rows = job]]
  /\ Called
  /\ UNCHANGED <<now, job, policy, hostVars, mgr, faults, runVars>>

RunNowRefused(c) ==
  /\ op[c].stage = "assert"
  /\ \E ok \in AgentStates : ~(op[c].rows[op[c].job].enabled /\ ok)
  /\ op' = [op EXCEPT ![c] = NoOp]
  /\ UNCHANGED <<now, job, policy, hostVars, mgr, calls, faults, runVars>>

\* A manual run is queued and processed at once.
RunNowQueued(c) ==
  LET j == op[c].job
      s == [job |-> j, at |-> now, reason |-> "manual"]
  IN  /\ op[c].stage = "assert"
      /\ op[c].rows[j].enabled
      /\ TRUE \in AgentStates
      /\ \E f \in Allocation({s}) :
           LET r == f[s]
           IN  /\ status' = [status EXCEPT ![r] = IF job[j].exists THEN "queued" ELSE "failed"]
               /\ slot' = [slot EXCEPT ![r] = s]
               /\ work' = [work EXCEPT ![r] = IF job[j].exists THEN "checking" ELSE "rest"]
               /\ runnable' = [runnable EXCEPT ![r] = job[j].enabled]
               /\ op' = [op EXCEPT ![c] = [NoOp EXCEPT !.stage = "running", !.run = r]]
      /\ UNCHANGED <<now, job, policy, hostVars, mgr, calls, faults, watched, session, cancel, told>>

RunNowDone(c) ==
  /\ op[c].stage = "running"
  /\ work[op[c].run] = "rest"
  /\ op' = [op EXCEPT ![c] = Reconciling(job)]
  /\ UNCHANGED <<now, job, policy, hostVars, mgr, calls, faults, runVars>>

\* restartScheduler: stop, then reconcile.
RestartScheduler(c) ==
  /\ MayCall(c)
  /\ ManagerReconcile([Stopped(mgr) EXCEPT !.attempts = 0], Killed(mgr), job, FALSE)
  /\ found' = Forgotten(mgr)
  /\ Called
  /\ UNCHANGED <<now, job, policy, op, due, faults, runVars>>

-----------------------------------------------------------------------------
(* The utility process.                                                    *)

\* The host spawned first or last becomes the one the manager knows; one that
\* was known until then scans on unseen.
SpawnDone(h) ==
  /\ host[h] = "spawning"
  /\ host' = [host EXCEPT ![h] = "up"]
  /\ mgr' = [mgr EXCEPT !.host = h, !.ready = NoHost, !.attempts = 0, !.error = FALSE,
                        !.retry = IF @ = h THEN NoHost ELSE @]
  /\ UNCHANGED <<now, job, policy, op, found, due, calls, faults, runVars>>

\* A scan selects the due rows ...
Scan(h) ==
  LET rows == {<<j, job[j].next>> : j \in {i \in Enabled(job) : job[i].next \in 1 .. now}}
  IN  /\ host[h] = "up"
      /\ found[h] = NotScanned
      /\ rows # {}
      /\ found' = [found EXCEPT ![h] = [at |-> now, rows |-> rows]]
      /\ UNCHANGED <<now, job, policy, op, host, due, mgr, calls, faults, runVars>>

\* The occurrences a scan queues: the unique index ignores the ones that have a row.
NewSlots(scan) ==
  {s \in [job : Jobs, at : 1 .. Horizon, reason : {"scheduled"}] :
     /\ \E row \in scan.rows : row[1] = s.job /\ s.at \in DueTimes(s.job, row[2], scan.at)
     /\ ~Taken(s)}

\* ... and a transaction queues them, moves next_run_at where it still is what was
\* selected, and the host posts what it has queued.
\* A slip: next_run_at stays where it is.
QueueDueStuck(h) ==
  LET scan == found[h]
  IN  /\ host[h] = "up"
      /\ scan # NotScanned
      /\ \E f \in Allocation(NewSlots(scan)) :
           /\ Queued(f)
           /\ due' = due \union {[host |-> h, run |-> f[s]] : s \in DOMAIN f}
      /\ found' = [found EXCEPT ![h] = NotScanned]
      /\ UNCHANGED <<now, job, policy, op, host, mgr, calls, faults>>
      /\ UNCHANGED <<work, runnable, watched, session, cancel, told>>

QueueDue(h) ==
  LET scan == found[h]
  IN  /\ host[h] = "up"
      /\ scan # NotScanned
      /\ \E f \in Allocation(NewSlots(scan)) :
           /\ Queued(f)
           /\ due' = due \union {[host |-> h, run |-> f[s]] : s \in DOMAIN f}
      /\ job' = [j \in Jobs |->
                   IF job[j].exists /\ <<j, job[j].next>> \in scan.rows
                     THEN [job[j] EXCEPT !.next = NextAfter(j, scan.at)]
                     ELSE job[j]]
      /\ found' = [found EXCEPT ![h] = NotScanned]
      /\ UNCHANGED <<now, policy, op, host, mgr, calls, faults>>
      /\ UNCHANGED <<work, runnable, watched, session, cancel, told>>

\* handleHostMessage: only the known host is listened to.
\* A slip: nor is a host that may be stopped soon.
DueIfNotIdle(m) ==
  LET j == slot[m.run].job
  IN  /\ due' = due \ {m}
      /\ IF m.host = mgr.host /\ ~mgr.idle
           THEN ProcessDue(m.run, job[j].exists, job[j].enabled)
           ELSE UNCHANGED runVars
      /\ UNCHANGED <<now, job, policy, op, host, found, mgr, calls, faults>>

DueArrives(m) ==
  LET j == slot[m.run].job
  IN  /\ due' = due \ {m}
      /\ IF m.host = mgr.host
           THEN ProcessDue(m.run, job[j].exists, job[j].enabled)
           ELSE UNCHANGED runVars
      /\ UNCHANGED <<now, job, policy, op, host, found, mgr, calls, faults>>

\* A heartbeat of the known host, handled as it is sent.
Heartbeat(h) ==
  /\ h = mgr.host
  /\ host[h] = "up"
  /\ mgr' = [mgr EXCEPT !.idle = @ \/ Enabled(job) = {}, !.error = FALSE]
  /\ mgr' # mgr
  /\ UNCHANGED <<now, job, policy, op, hostVars, calls, faults, runVars>>

-----------------------------------------------------------------------------
(* The manager's timers.                                                   *)

IdleStop ==
  /\ mgr.idle
  /\ IF Enabled(job) = {}
       THEN mgr' = Stopped(mgr) /\ host' = Killed(mgr) /\ found' = Forgotten(mgr)
       ELSE mgr' = [mgr EXCEPT !.idle = FALSE] /\ UNCHANGED <<host, found>>
  /\ UNCHANGED <<now, job, policy, op, due, calls, faults, runVars>>

RestartFires ==
  /\ mgr.timer
  /\ ManagerReconcile([mgr EXCEPT !.timer = FALSE], host, job, TRUE)
  /\ UNCHANGED <<now, job, policy, op, found, due, calls, faults, runVars>>

-----------------------------------------------------------------------------
(* Failures.                                                               *)

MayFail == faults < MaxFaults

Failed == faults' = faults + 1

\* The utility process exits before it has spawned.  Whoever awaited it sees an
\* error; only the restart timer tries again.
SpawnFails(h) ==
  /\ MayFail
  /\ host[h] = "spawning"
  /\ host' = [host EXCEPT ![h] = "off"]
  /\ LET M == [mgr EXCEPT !.ready = NoHost, !.error = TRUE]
     IN  mgr' = IF mgr.retry = h THEN RestartScheduled([M EXCEPT !.retry = NoHost]) ELSE M
  /\ Failed
  /\ UNCHANGED <<now, job, policy, op, found, due, calls, runVars>>

\* A running host exits: the manager restarts the one it knows while there is a
\* job to scan for, and hears no more of what it has posted.
\* A slip: the exit is taken for an expected one.
HostExitExpected(h) ==
  /\ MayFail
  /\ host[h] = "up"
  /\ host' = [host EXCEPT ![h] = "off"]
  /\ found' = [found EXCEPT ![h] = NotScanned]
  /\ mgr' = IF h = mgr.host THEN [mgr EXCEPT !.host = NoHost, !.ready = NoHost, !.error = FALSE] ELSE mgr
  /\ Failed
  /\ UNCHANGED <<now, job, policy, op, due, calls, runVars>>

HostExit(h) ==
  /\ MayFail
  /\ host[h] = "up"
  /\ host' = [host EXCEPT ![h] = "off"]
  /\ found' = [found EXCEPT ![h] = NotScanned]
  /\ LET M == [mgr EXCEPT !.host = NoHost, !.ready = NoHost, !.error = Enabled(job) # {}]
     IN  mgr' = IF h # mgr.host THEN mgr
                ELSE IF Enabled(job) = {} THEN M
                ELSE RestartScheduled(M)
  /\ Failed
  /\ UNCHANGED <<now, job, policy, op, due, calls, runVars>>

\* The app stops, with its hosts and everything under way, and starts again.
AppRestart ==
  /\ MayFail
  /\ RunsRestart
  /\ host' = [h \in Hosts |-> "off"]
  /\ found' = [h \in Hosts |-> NotScanned]
  /\ due' = {}
  /\ mgr' = NewManager
  /\ \E c \in Callers : op' = [[d \in Callers |-> NoOp] EXCEPT ![c] = Reconciling(job)]
  /\ Failed
  /\ UNCHANGED <<now, job, policy, calls>>

Tick ==
  /\ now < MaxTime
  /\ now' = now + 1
  /\ UNCHANGED <<job, policy, op, hostVars, mgr, calls, faults, runVars>>

-----------------------------------------------------------------------------
Init ==
  /\ now = 0
  /\ job \in [Jobs -> {NoRow} \union {StateOf(j, TRUE, 0, TRUE) : j \in Jobs}]
  /\ \A j \in Jobs : job[j].exists => job[j].next = NextAfter(j, 0)
  /\ policy \in [Jobs -> Policies]
  /\ \E c \in Callers : op = [[d \in Callers |-> NoOp] EXCEPT ![c] = Reconciling(job)]
  /\ host = [h \in Hosts |-> "off"]
  /\ found = [h \in Hosts |-> NotScanned]
  /\ due = {}
  /\ mgr = NewManager
  /\ calls = 0
  /\ faults = 0
  /\ RunsInit

\* A run changes the runs alone.
Alone(step) ==
  /\ step
  /\ UNCHANGED <<now, job, policy, op, hostVars, mgr, calls, faults>>

\* The await a processDueRun stands in ends.
Executor(r) ==
  \/ Refuse(r) \/ ClaimLost(r) \/ Claim(r)
  \/ work[r] = "checking" /\ ClaimBlocked(r, policy[slot[r].job].concurrency)
  \/ SessionCreated(r) \/ CreateFails(r)
  \/ SessionStarted(r) \/ StartFails(r)

Session(r) ==
  \/ \E s \in {"completed", "failed"} : SessionEnds(r, s)
  \/ \E ended \in BOOLEAN : Cancelled(r, ended)

User(c) ==
  \/ List(c)
  \/ RestartScheduler(c)
  \/ \E j \in Jobs : Delete(c, j) \/ RunNow(c, j) \/ \E b \in BOOLEAN : Edit(c, j, b)

Operation(c) ==
  \/ EditWrite(c) \/ EditRefused(c)
  \/ RunNowRefused(c) \/ RunNowQueued(c) \/ RunNowDone(c)
  \/ ReconcileDone(c) \/ \E j \in Jobs : ReconcileJob(c, j)

HostStep(h) == SpawnDone(h) \/ Scan(h) \/ QueueDue(h)

Fault == AppRestart \/ \E h \in Hosts : SpawnFails(h) \/ HostExit(h)

Next ==
  \/ \E c \in Callers : User(c) \/ Operation(c)
  \/ \E h \in Hosts : HostStep(h) \/ Heartbeat(h)
  \/ \E m \in due : DueArrives(m)
  \/ IdleStop \/ RestartFires
  \/ \E r \in Runs : Alone(Executor(r)) \/ Alone(Session(r)) \/ Alone(Timeout(r))
  \/ Fault
  \/ Tick

Spec == Init /\ [][Next]_vars

\* Operations, hosts, messages and timers make progress; an agent session need
\* not ever end by itself, but its timer fires.
Fairness ==
  /\ \A c \in Callers : WF_vars(Operation(c))
  /\ \A h \in Hosts : WF_vars(HostStep(h))
  /\ \A r \in Runs : WF_vars(\E m \in due : m.run = r /\ DueArrives(m))
  /\ WF_vars(RestartFires)
  /\ \A r \in Runs :
       /\ WF_vars(Alone(Executor(r)))
       /\ WF_vars(Alone(Timeout(r)))

FairSpec == Spec /\ Fairness

=============================================================================
