-------------------------- MODULE SchedulerProofs --------------------------
(***************************************************************************)
(* Proofs about the scheduler, for any jobs, runs, callers, hosts and      *)
(* bounds: first what the jobs, operations, hosts and the manager hold,    *)
(* then the runs.                                                          *)
(***************************************************************************)
EXTENDS SchedulerProperties, WellFoundedInduction, TLAPS

\* The types of the variables that are not the runs', and that an operation which
\* is to write or to run a job is about one.
RestTyped ==
  /\ now \in 0 .. MaxTime
  /\ job \in [Jobs -> Rows]
  /\ policy \in [Jobs -> Policies]
  /\ op \in [Callers -> Ops]
  /\ host \in [Hosts -> {"off", "spawning", "up"}]
  /\ found \in [Hosts -> Scans]
  /\ due \subseteq [host : Hosts, run : Runs]
  /\ mgr \in Managers
  /\ calls \in 0 .. MaxCalls
  /\ faults \in 0 .. MaxFaults
  /\ \A c \in Callers : op[c].stage \in {"edit", "assert"} => op[c].job \in Jobs

-----------------------------------------------------------------------------
(* The operators the actions are made of.                                  *)

LEMMA LeastTime ==
  ASSUME NEW S \in SUBSET Nat, S # {}
  PROVE  \E u \in S : \A v \in S : u <= v
<1>1. IsWellFoundedOn(OpToRel(<, Nat), Nat)
  BY NatLessThanWellFounded
<1>2. \E x \in S : \A y \in S : ~ (<<y, x>> \in OpToRel(<, Nat))
  BY <1>1, WFMin, Zenon
<1>3. PICK x \in S : \A y \in S : ~ (<<y, x>> \in OpToRel(<, Nat))
  BY <1>2
<1>4. \A y \in S : ~ (y < x)
  BY <1>3 DEF OpToRel
<1> QED BY <1>4

LEMMA NextTyped ==
  ASSUME NEW j \in Jobs, NEW t
  PROVE  NextAfter(j, t) \in 1 .. Horizon
<1> DEFINE later == {u \in Cron[j] : u > t}
<1>1. later \in SUBSET (1 .. MaxTime) /\ MaxTime \in Nat
  BY TimeAssumption
<1>2. later \in SUBSET Nat
  BY <1>1
<1>3. NextAfter(j, t) = IF later = {} THEN Horizon ELSE CHOOSE u \in later : \A v \in later : u <= v
  BY Zenon DEF NextAfter
<1> HIDE DEF later
<1>4. CASE later = {}
  BY <1>1, <1>3, <1>4 DEF Horizon
<1>5. CASE later # {}
  <2>1. \E u \in later : \A v \in later : u <= v
    BY <1>2, <1>5, LeastTime
  <2>2. NextAfter(j, t) \in later
    BY <1>3, <1>5, <2>1
  <2>3. NextAfter(j, t) \in 1 .. MaxTime
    BY <1>1, <2>2
  <2> HIDE DEF NextAfter
  <2> QED BY <1>1, <2>3 DEF Horizon
<1> QED BY <1>4, <1>5

LEMMA StateTyped ==
  ASSUME NEW j \in Jobs, NEW e \in BOOLEAN, NEW t, NEW ok \in BOOLEAN
  PROVE  StateOf(j, e, t, ok) \in Rows
<1>1. NextAfter(j, t) \in 0 .. Horizon /\ NoTime \in 0 .. Horizon
  BY NextTyped, TimeAssumption DEF NoTime, Horizon
<1> QED BY <1>1 DEF StateOf, Rows

LEMMA NoRowTyped == NoRow \in Rows
BY TimeAssumption DEF NoRow, Rows, NoTime, Horizon

LEMMA NoOpTyped == NoOp \in Ops
BY NoRowTyped, TimeAssumption DEF NoOp, Ops, Stages

LEMMA NotScannedTyped == NotScanned \in Scans
BY TimeAssumption DEF NotScanned, Scans, NoTime

LEMMA NewManagerTyped == NewManager \in Managers
BY TimeAssumption DEF NewManager, Managers, NoHost

LEMMA ReconcilingTyped ==
  ASSUME RestTyped, NEW table \in [Jobs -> Rows]
  PROVE  Reconciling(table) \in Ops /\ Reconciling(table).stage = "reconcile"
BY NoOpTyped DEF Reconciling, Ops, Stages, NoOp, Existing, RestTyped

LEMMA FieldsTyped ==
  ASSUME NEW M \in Managers, NEW i \in BOOLEAN, NEW e \in BOOLEAN, NEW t \in BOOLEAN,
         NEW h \in Hosts \union {NoHost}, NEW g \in Hosts \union {NoHost},
         NEW a \in 0 .. MaxRestarts
  PROVE  /\ [M EXCEPT !.idle = i, !.error = e] \in Managers
         /\ [M EXCEPT !.idle = i, !.retry = g] \in Managers
         /\ [M EXCEPT !.idle = i, !.ready = h, !.error = e, !.retry = g] \in Managers
         /\ [M EXCEPT !.timer = t, !.attempts = a] \in Managers
         /\ [M EXCEPT !.host = h, !.ready = g, !.error = e] \in Managers
         /\ [M EXCEPT !.ready = h, !.error = e] \in Managers
         /\ [M EXCEPT !.timer = t] \in Managers
         /\ [M EXCEPT !.idle = i] \in Managers
         /\ [M EXCEPT !.retry = g] \in Managers
         /\ [M EXCEPT !.attempts = a] \in Managers
BY DEF Managers

LEMMA FieldTypes ==
  ASSUME NEW M \in Managers
  PROVE  /\ M.host \in Hosts \union {NoHost} /\ M.ready \in Hosts \union {NoHost}
         /\ M.retry \in Hosts \union {NoHost}
         /\ M.idle \in BOOLEAN /\ M.error \in BOOLEAN /\ M.timer \in BOOLEAN
         /\ M.attempts \in 0 .. MaxRestarts
BY DEF Managers

LEMMA RestartTyped ==
  ASSUME NEW M \in Managers
  PROVE  RestartScheduled(M) \in Managers
<1>1. CASE M.timer \/ M.attempts >= MaxRestarts
  BY <1>1 DEF RestartScheduled
<1>2. CASE ~(M.timer \/ M.attempts >= MaxRestarts)
  <2>1. M.attempts + 1 \in 0 .. MaxRestarts
    BY <1>2, FieldTypes, TimeAssumption
  <2>2. [M EXCEPT !.timer = TRUE, !.attempts = M.attempts + 1] \in Managers
    BY <2>1, FieldsTyped
  <2>3. RestartScheduled(M) = [M EXCEPT !.timer = TRUE, !.attempts = M.attempts + 1]
    BY <1>2, Zenon DEF RestartScheduled
  <2> QED BY <2>2, <2>3
<1> QED BY <1>1, <1>2

LEMMA StoppedTyped ==
  ASSUME NEW M \in Managers
  PROVE  Stopped(M) \in Managers
BY DEF Stopped, Managers, NoHost

LEMMA ManagerTyped ==
  ASSUME NEW M \in Managers, NEW H \in [Hosts -> {"off", "spawning", "up"}], NEW table,
         NEW retrying \in BOOLEAN, ManagerReconcile(M, H, table, retrying)
  PROVE  mgr' \in Managers /\ host' \in [Hosts -> {"off", "spawning", "up"}]
<1> USE FieldTypes
<1>1. CASE Enabled(table) = {}
  <2> DEFINE i == M.idle \/ M.host # NoHost
             e == M.error /\ M.host # NoHost
  <2>1. i \in BOOLEAN /\ e \in BOOLEAN
    BY Zenon
  <2>2. mgr' = [M EXCEPT !.idle = i, !.error = e] /\ host' = H
    BY <1>1, Zenon DEF ManagerReconcile
  <2> HIDE DEF i, e
  <2> QED BY <2>1, <2>2, FieldsTyped
<1>2. CASE Enabled(table) # {} /\ M.host # NoHost
  <2>1. mgr' = [M EXCEPT !.idle = FALSE] /\ host' = H
    BY <1>2, Zenon DEF ManagerReconcile
  <2> QED BY <2>1, FieldsTyped
<1>3. CASE Enabled(table) # {} /\ M.host = NoHost /\ M.ready # NoHost
  <2> DEFINE g == IF retrying THEN M.ready ELSE M.retry
  <2>1. g \in Hosts \union {NoHost}
    OBVIOUS
  <2>2. mgr' = [M EXCEPT !.idle = FALSE, !.retry = g] /\ host' = H
    BY <1>3, Zenon DEF ManagerReconcile
  <2> HIDE DEF g
  <2> QED BY <2>1, <2>2, FieldsTyped
<1>4. CASE Enabled(table) # {} /\ M.host = NoHost /\ M.ready = NoHost
  <2>1. PICK h \in Hosts :
          /\ host' = [H EXCEPT ![h] = "spawning"]
          /\ mgr' = [M EXCEPT !.idle = FALSE, !.ready = h, !.error = FALSE,
                              !.retry = IF retrying THEN h ELSE M.retry]
    BY <1>4, Zenon DEF ManagerReconcile
  <2> DEFINE g == IF retrying THEN h ELSE M.retry
  <2>2. g \in Hosts \union {NoHost}
    OBVIOUS
  <2>3. mgr' = [M EXCEPT !.idle = FALSE, !.ready = h, !.error = FALSE, !.retry = g]
    BY <2>1, Zenon
  <2>4. host' \in [Hosts -> {"off", "spawning", "up"}]
    BY <2>1
  <2> HIDE DEF g
  <2> QED BY <2>2, <2>3, <2>4, FieldsTyped
<1> QED BY <1>1, <1>2, <1>3, <1>4

LEMMA KilledTyped ==
  ASSUME RestTyped
  PROVE  /\ Killed(mgr) \in [Hosts -> {"off", "spawning", "up"}]
         /\ Forgotten(mgr) \in [Hosts -> Scans]
BY NotScannedTyped DEF RestTyped, Killed, Forgotten

-----------------------------------------------------------------------------
(* Operations.                                                             *)

\* An operation is replaced by one of its type, a table by one of its type.
LEMMA OpTyped ==
  ASSUME RestTyped, NEW c \in Callers, NEW o \in Ops,
         o.stage \in {"edit", "assert"} => o.job \in Jobs,
         op' = [op EXCEPT ![c] = o],
         job' \in [Jobs -> Rows], mgr' \in Managers,
         host' \in [Hosts -> {"off", "spawning", "up"}], found' \in [Hosts -> Scans],
         UNCHANGED <<now, policy, due, faults>>, calls' \in 0 .. MaxCalls
  PROVE  RestTyped'
BY DEF RestTyped

LEMMA CalledTyped ==
  ASSUME RestTyped, NEW c, MayCall(c), Called
  PROVE  calls' \in 0 .. MaxCalls
BY BoundsAssumption DEF RestTyped, MayCall, Called

LEMMA RowTyped ==
  ASSUME NEW table \in [Jobs -> Rows], NEW j \in Jobs, NEW e \in BOOLEAN
  PROVE  [table EXCEPT ![j].enabled = e] \in [Jobs -> Rows]
BY DEF Rows

LEMMA NewOpTyped ==
  ASSUME NEW s \in Stages, NEW j \in Jobs, NEW t \in 0 .. MaxTime, NEW table \in [Jobs -> Rows]
  PROVE  /\ [NoOp EXCEPT !.stage = s, !.job = j, !.at = t, !.rows = table] \in Ops
         /\ [NoOp EXCEPT !.stage = s, !.job = j, !.rows = table] \in Ops
BY NoOpTyped DEF Ops

LEMMA ListTyped ==
  ASSUME RestTyped, NEW c \in Callers, List(c)
  PROVE  RestTyped'
<1>1. job \in [Jobs -> Rows]
  BY DEF RestTyped
<1>2. Reconciling(job) \in Ops /\ Reconciling(job).stage = "reconcile"
  BY <1>1, ReconcilingTyped
<1> QED BY <1>2, CalledTyped, OpTyped DEF List, RestTyped, hostVars

LEMMA EditTyped ==
  ASSUME RestTyped, NEW c \in Callers, NEW j \in Jobs, NEW b \in BOOLEAN, Edit(c, j, b)
  PROVE  RestTyped'
<1> DEFINE table == [job EXCEPT ![j].enabled = b]
           o == [NoOp EXCEPT !.stage = "edit", !.job = j, !.at = now, !.rows = table]
<1>1. table \in [Jobs -> Rows]
  BY RowTyped DEF RestTyped
<1> HIDE DEF table
<1>2. o \in Ops
  BY <1>1, NewOpTyped DEF RestTyped, Stages
<1>3. o.job = j
  BY DEF NoOp
<1>4. op' = [op EXCEPT ![c] = o]
  BY DEF Edit, table
<1> HIDE DEF o
<1> QED BY <1>2, <1>3, <1>4, CalledTyped, OpTyped DEF Edit, RestTyped, hostVars

LEMMA EditWriteTyped ==
  ASSUME RestTyped, NEW c \in Callers, EditWrite(c)
  PROVE  RestTyped'
<1> DEFINE j == op[c].job
           want == op[c].rows[j].enabled
<1>1. j \in Jobs /\ want \in BOOLEAN
  BY DEF EditWrite, RestTyped, Ops, Rows
<1>2. PICK ok \in AgentStates : job' = [job EXCEPT ![j] = StateOf(j, want, op[c].at, ok)]
  BY DEF EditWrite
<1>3. StateOf(j, want, op[c].at, ok) \in Rows
  BY <1>1, StateTyped, AgentsAssumption
<1> HIDE DEF j, want
<1>4. job' \in [Jobs -> Rows]
  BY <1>1, <1>2, <1>3 DEF RestTyped
<1>5. Reconciling(job') \in Ops /\ Reconciling(job').stage = "reconcile"
  BY <1>4, ReconcilingTyped
<1> QED BY <1>4, <1>5, OpTyped DEF EditWrite, RestTyped, hostVars

LEMMA DroppedTyped ==
  ASSUME RestTyped, NEW c \in Callers, EditRefused(c) \/ RunNowRefused(c)
  PROVE  RestTyped'
<1>1. NoOp \in Ops /\ NoOp.stage = "rest"
  BY NoOpTyped DEF NoOp
<1> QED BY <1>1, OpTyped DEF EditRefused, RunNowRefused, RestTyped, hostVars

LEMMA DeleteTyped ==
  ASSUME RestTyped, NEW c \in Callers, NEW j \in Jobs, Delete(c, j)
  PROVE  RestTyped'
<1>1. job' \in [Jobs -> Rows]
  BY NoRowTyped DEF Delete, RestTyped
<1>2. Reconciling(job') \in Ops /\ Reconciling(job').stage = "reconcile"
  BY <1>1, ReconcilingTyped
<1> QED BY <1>1, <1>2, CalledTyped, OpTyped DEF Delete, RestTyped, hostVars

LEMMA ReconcileJobOp ==
  ASSUME RestTyped, NEW c \in Callers, NEW j \in Jobs, ReconcileJob(c, j)
  PROVE  /\ op' = [op EXCEPT ![c] = [op[c] EXCEPT !.todo = @ \ {j}, !.rows[j] = NoRow]]
         /\ [op[c] EXCEPT !.todo = @ \ {j}, !.rows[j] = NoRow].stage = "reconcile"
<1> DEFINE a == [op EXCEPT ![c].todo = @ \ {j}]
           b == [op[c] EXCEPT !.todo = @ \ {j}]
           o == [op[c] EXCEPT !.todo = @ \ {j}, !.rows[j] = NoRow]
<1>1. a[c] = b /\ a = [op EXCEPT ![c] = b]
  BY DEF RestTyped
<1>2. op' = [a EXCEPT ![c].rows[j] = NoRow]
  BY DEF ReconcileJob
<1>3. o = [b EXCEPT !.rows[j] = NoRow]
  OBVIOUS
<1>4. o.stage = "reconcile"
  BY DEF ReconcileJob, RestTyped, Ops
<1> HIDE DEF a, b, o
<1>5. op' = [a EXCEPT ![c] = o]
  BY <1>1, <1>2, <1>3
<1>6. op' = [op EXCEPT ![c] = o]
  BY <1>1, <1>5 DEF RestTyped
<1> QED BY <1>4, <1>6 DEF o

LEMMA ReconcileJobTyped ==
  ASSUME RestTyped, NEW c \in Callers, NEW j \in Jobs, ReconcileJob(c, j)
  PROVE  RestTyped'
<1> DEFINE read == op[c].rows[j]
           o == [op[c] EXCEPT !.todo = @ \ {j}, !.rows[j] = NoRow]
<1>1. op[c] \in Ops /\ read \in Rows /\ read.enabled \in BOOLEAN
  BY DEF RestTyped, Ops, Rows
<1>2. PICK ok \in AgentStates :
        LET state == StateOf(j, read.enabled, op[c].at, ok)
        IN  job' = IF state = read THEN job ELSE [job EXCEPT ![j] = state]
  BY DEF ReconcileJob
<1>3. StateOf(j, read.enabled, op[c].at, ok) \in Rows
  BY <1>1, StateTyped, AgentsAssumption
<1>4. job' \in [Jobs -> Rows]
  BY <1>2, <1>3 DEF RestTyped
<1>5. o \in Ops /\ o.stage = "reconcile"
  BY <1>1, NoRowTyped DEF Ops, ReconcileJob
<1>6. op' = [op EXCEPT ![c] = o]
  BY ReconcileJobOp
<1> HIDE DEF o
<1> QED BY <1>4, <1>5, <1>6, OpTyped DEF ReconcileJob, RestTyped, hostVars

LEMMA ReconcileDoneTyped ==
  ASSUME RestTyped, NEW c \in Callers, ReconcileDone(c)
  PROVE  RestTyped'
<1>1. NoOp \in Ops /\ NoOp.stage = "rest"
  BY NoOpTyped DEF NoOp
<1>2. mgr' \in Managers /\ host' \in [Hosts -> {"off", "spawning", "up"}]
  BY ManagerTyped DEF ReconcileDone, RestTyped
<1> QED BY <1>1, <1>2, OpTyped DEF ReconcileDone, RestTyped

LEMMA RunNowTyped ==
  ASSUME RestTyped, NEW c \in Callers, NEW j \in Jobs, RunNow(c, j)
  PROVE  RestTyped'
<1> DEFINE o == [NoOp EXCEPT !.stage = "assert", !.job = j, !.rows = job]
<1>1. o \in Ops
  BY NewOpTyped, TimeAssumption DEF RestTyped, Stages
<1>3. o.job = j
  BY DEF NoOp
<1>2. op' = [op EXCEPT ![c] = o]
  BY DEF RunNow
<1> HIDE DEF o
<1> QED BY <1>1, <1>2, <1>3, CalledTyped, OpTyped DEF RunNow, RestTyped, hostVars

\* The job the run is queued for is one, and so is the run.
LEMMA RunNowQueuedTyped ==
  ASSUME RestTyped, NEW c \in Callers, RunNowQueued(c)
  PROVE  RestTyped'
<1> DEFINE s == [job |-> op[c].job, at |-> now, reason |-> "manual"]
<1>1. PICK f \in Allocation({s}) : op' = [op EXCEPT ![c] = [NoOp EXCEPT !.stage = "running", !.run = f[s]]]
  BY DEF RunNowQueued
<1> HIDE DEF s
<1>2. f[s] \in Runs
  BY <1>1 DEF Allocation
<1> DEFINE o == [NoOp EXCEPT !.stage = "running", !.run = f[s]]
<1>3. o \in Ops /\ o.stage = "running"
  BY <1>2, NoOpTyped DEF Ops, Stages
<1> HIDE DEF o
<1> QED BY <1>1, <1>3, OpTyped DEF RunNowQueued, RestTyped, hostVars, o

LEMMA RunNowDoneTyped ==
  ASSUME RestTyped, NEW c \in Callers, RunNowDone(c)
  PROVE  RestTyped'
<1>1. Reconciling(job) \in Ops /\ Reconciling(job).stage = "reconcile"
  BY ReconcilingTyped DEF RestTyped
<1> QED BY <1>1, OpTyped DEF RunNowDone, RestTyped, hostVars

LEMMA RestartSchedulerTyped ==
  ASSUME RestTyped, NEW c \in Callers, RestartScheduler(c)
  PROVE  RestTyped'
<1> DEFINE M == [Stopped(mgr) EXCEPT !.attempts = 0]
<1>1. M \in Managers
  <2>1. Stopped(mgr) \in Managers
    BY StoppedTyped DEF RestTyped
  <2>2. 0 \in 0 .. MaxRestarts
    BY TimeAssumption
  <2> QED BY <2>1, <2>2, FieldsTyped
<1> HIDE DEF M
<1>2. ManagerReconcile(M, Killed(mgr), job, FALSE)
  BY DEF RestartScheduler, M
<1>3. mgr' \in Managers /\ host' \in [Hosts -> {"off", "spawning", "up"}]
  BY <1>1, <1>2, ManagerTyped, KilledTyped
<1> QED BY <1>3, KilledTyped, CalledTyped DEF RestartScheduler, RestTyped, hostVars

-----------------------------------------------------------------------------
(* Hosts, manager and faults.                                              *)

LEMMA SpawnDoneTyped ==
  ASSUME RestTyped, NEW h \in Hosts, SpawnDone(h)
  PROVE  RestTyped'
<1> DEFINE g == IF mgr.retry = h THEN NoHost ELSE mgr.retry
<1>1. g \in Hosts \union {NoHost} /\ 0 \in 0 .. MaxRestarts
  BY FieldTypes, TimeAssumption DEF RestTyped
<1>2. mgr' = [mgr EXCEPT !.host = h, !.ready = NoHost, !.attempts = 0, !.error = FALSE, !.retry = g]
  BY DEF SpawnDone
<1> HIDE DEF g
<1>3. mgr' \in Managers
  BY <1>1, <1>2 DEF RestTyped, Managers
<1> QED BY <1>3 DEF SpawnDone, RestTyped

LEMMA ScanTyped ==
  ASSUME RestTyped, NEW h \in Hosts, Scan(h)
  PROVE  RestTyped'
<1> DEFINE rows == {<<j, job[j].next>> : j \in {i \in Enabled(job) : job[i].next \in 1 .. now}}
           scan == [at |-> now, rows |-> rows]
<1>1. rows \subseteq Jobs \X (1 .. Horizon)
  <2> SUFFICES ASSUME NEW i \in Jobs, job[i].next \in 1 .. now
               PROVE  job[i].next \in 1 .. Horizon
    BY DEF Enabled
  <2>1. now \in 0 .. MaxTime /\ MaxTime \in Nat
    BY TimeAssumption DEF RestTyped
  <2> QED BY <2>1 DEF Horizon
<1> HIDE DEF rows
<1>2. scan \in Scans
  BY <1>1 DEF Scans, RestTyped
<1>3. found' = [found EXCEPT ![h] = scan]
  BY DEF Scan, rows
<1> HIDE DEF scan
<1>4. found' \in [Hosts -> Scans]
  BY <1>2, <1>3 DEF RestTyped
<1> QED BY <1>4 DEF Scan, RestTyped

LEMMA QueueDueTyped ==
  ASSUME RestTyped, NEW h \in Hosts, QueueDue(h)
  PROVE  RestTyped'
<1> DEFINE scan == found[h]
<1>1. PICK f \in Allocation(NewSlots(scan)) :
        due' = due \union {[host |-> h, run |-> f[s]] : s \in DOMAIN f}
  BY DEF QueueDue
<1>2. \A s \in DOMAIN f : f[s] \in Runs
  BY DEF Allocation
<1>3. due' \subseteq [host : Hosts, run : Runs]
  BY <1>1, <1>2 DEF RestTyped
<1>4. job' = [j \in Jobs |->
                IF job[j].exists /\ <<j, job[j].next>> \in scan.rows
                  THEN [job[j] EXCEPT !.next = NextAfter(j, scan.at)]
                  ELSE job[j]]
  BY DEF QueueDue
<1>5. ASSUME NEW j \in Jobs PROVE [job[j] EXCEPT !.next = NextAfter(j, scan.at)] \in Rows
  <2>1. NextAfter(j, scan.at) \in 0 .. Horizon
    BY NextTyped, TimeAssumption DEF Horizon
  <2> QED BY <2>1 DEF RestTyped, Rows
<1>6. job' \in [Jobs -> Rows]
  BY <1>4, <1>5 DEF RestTyped
<1>7. found' \in [Hosts -> Scans]
  BY NotScannedTyped DEF QueueDue, RestTyped
<1> QED BY <1>3, <1>6, <1>7 DEF QueueDue, RestTyped

LEMMA DueArrivesTyped ==
  ASSUME RestTyped, NEW m \in due, DueArrives(m)
  PROVE  RestTyped'
BY DEF DueArrives, RestTyped

LEMMA HeartbeatTyped ==
  ASSUME RestTyped, NEW h \in Hosts, Heartbeat(h)
  PROVE  RestTyped'
<1> DEFINE i == mgr.idle \/ Enabled(job) = {}
<1>1. i \in BOOLEAN
  BY FieldTypes, Zenon DEF RestTyped
<1>2. mgr' = [mgr EXCEPT !.idle = i, !.error = FALSE]
  BY Zenon DEF Heartbeat
<1> HIDE DEF i
<1>3. mgr' \in Managers
  BY <1>1, <1>2, FieldsTyped, FieldTypes DEF RestTyped
<1> QED BY <1>3 DEF Heartbeat, hostVars, RestTyped

LEMMA IdleStopTyped ==
  ASSUME RestTyped, IdleStop
  PROVE  RestTyped'
<1>1. Stopped(mgr) \in Managers /\ [mgr EXCEPT !.idle = FALSE] \in Managers
  BY StoppedTyped DEF RestTyped, Managers
<1>2. mgr' \in Managers
  BY <1>1 DEF IdleStop
<1>3. host' \in [Hosts -> {"off", "spawning", "up"}] /\ found' \in [Hosts -> Scans]
  BY KilledTyped DEF IdleStop, RestTyped
<1> QED BY <1>2, <1>3 DEF IdleStop, RestTyped

LEMMA RestartFiresTyped ==
  ASSUME RestTyped, RestartFires
  PROVE  RestTyped'
<1> DEFINE M == [mgr EXCEPT !.timer = FALSE]
<1>1. M \in Managers
  BY DEF RestTyped, Managers
<1> HIDE DEF M
<1>2. ManagerReconcile(M, host, job, TRUE)
  BY DEF RestartFires, M
<1>3. mgr' \in Managers /\ host' \in [Hosts -> {"off", "spawning", "up"}]
  BY <1>1, <1>2, ManagerTyped DEF RestTyped
<1> QED BY <1>3 DEF RestartFires, RestTyped

LEMMA FaultCounted ==
  ASSUME RestTyped, MayFail, Failed
  PROVE  faults' \in 0 .. MaxFaults
BY BoundsAssumption DEF RestTyped, MayFail, Failed

LEMMA SpawnFailsTyped ==
  ASSUME RestTyped, NEW h \in Hosts, SpawnFails(h)
  PROVE  RestTyped'
<1> DEFINE M == [mgr EXCEPT !.ready = NoHost, !.error = TRUE]
           N == [M EXCEPT !.retry = NoHost]
<1>1. M \in Managers /\ N \in Managers
  BY DEF RestTyped, Managers
<1>2. mgr' = IF mgr.retry = h THEN RestartScheduled(N) ELSE M
  BY DEF SpawnFails
<1> HIDE DEF M, N
<1>3. mgr' \in Managers
  BY <1>1, <1>2, RestartTyped
<1> QED BY <1>3, FaultCounted DEF SpawnFails, RestTyped

LEMMA HostExitTyped ==
  ASSUME RestTyped, NEW h \in Hosts, HostExit(h)
  PROVE  RestTyped'
<1> DEFINE M == [mgr EXCEPT !.host = NoHost, !.ready = NoHost, !.error = Enabled(job) # {}]
<1>1. M \in Managers
  BY DEF RestTyped, Managers
<1>2. mgr' = IF h # mgr.host THEN mgr ELSE IF Enabled(job) = {} THEN M ELSE RestartScheduled(M)
  BY DEF HostExit
<1> HIDE DEF M
<1>3. mgr' \in Managers
  BY <1>1, <1>2, RestartTyped DEF RestTyped
<1>4. found' \in [Hosts -> Scans]
  BY NotScannedTyped DEF HostExit, RestTyped
<1> QED BY <1>3, <1>4, FaultCounted DEF HostExit, RestTyped

LEMMA AppRestartTyped ==
  ASSUME RestTyped, AppRestart
  PROVE  RestTyped'
<1>1. PICK c \in Callers : op' = [[d \in Callers |-> NoOp] EXCEPT ![c] = Reconciling(job)]
  BY DEF AppRestart
<1>2. /\ Reconciling(job) \in Ops /\ Reconciling(job).stage = "reconcile"
      /\ NoOp \in Ops /\ NoOp.stage = "rest"
  BY ReconcilingTyped, NoOpTyped DEF RestTyped, NoOp
<1>3. /\ op' \in [Callers -> Ops]
      /\ \A d \in Callers : op'[d].stage \notin {"edit", "assert"}
  BY <1>1, <1>2
<1> QED BY <1>3, NotScannedTyped, NewManagerTyped, FaultCounted DEF AppRestart, RestTyped

LEMMA TickTyped ==
  ASSUME RestTyped, Tick
  PROVE  RestTyped'
BY TimeAssumption DEF Tick, RestTyped, hostVars

-----------------------------------------------------------------------------
LEMMA InitTyped == Init => RestTyped
<1> SUFFICES ASSUME Init PROVE RestTyped
  OBVIOUS
<1>1. job \in [Jobs -> Rows]
  <2>1. \A j \in Jobs : StateOf(j, TRUE, 0, TRUE) \in Rows
    BY StateTyped
  <2>2. {NoRow} \union {StateOf(j, TRUE, 0, TRUE) : j \in Jobs} \subseteq Rows
    BY <2>1, NoRowTyped
  <2>3. job \in [Jobs -> {NoRow} \union {StateOf(j, TRUE, 0, TRUE) : j \in Jobs}]
    BY DEF Init
  <2> QED BY <2>2, <2>3, Zenon
<1>2. PICK c \in Callers : op = [[d \in Callers |-> NoOp] EXCEPT ![c] = Reconciling(job)]
  BY DEF Init
<1>3. /\ NoOp \in Ops /\ NoOp.stage = "rest"
      /\ Reconciling(job) \in Ops /\ Reconciling(job).stage = "reconcile"
  <2>1. Existing(job) \subseteq Jobs
    BY DEF Existing
  <2>2. now \in 0 .. MaxTime
    BY TimeAssumption DEF Init
  <2> HIDE DEF Existing
  <2>3. Reconciling(job) \in Ops
    BY <1>1, <2>1, <2>2, NoOpTyped DEF Reconciling, Ops, Stages
  <2>4. Reconciling(job).stage = "reconcile" /\ NoOp.stage = "rest"
    BY DEF Reconciling, NoOp
  <2> QED BY <2>3, <2>4, NoOpTyped
<1>4. op \in [Callers -> Ops] /\ \A d \in Callers : op[d].stage \notin {"edit", "assert"}
  BY <1>2, <1>3
<1> QED
  BY <1>1, <1>4, NotScannedTyped, NewManagerTyped, TimeAssumption, BoundsAssumption
  DEF Init, RestTyped

LEMMA NextTypes == RestTyped /\ [Next]_vars => RestTyped'
<1> SUFFICES ASSUME RestTyped, [Next]_vars PROVE RestTyped'
  OBVIOUS
<1>1. ASSUME NEW c \in Callers, User(c) PROVE RestTyped'
  BY <1>1, ListTyped, RestartSchedulerTyped, DeleteTyped, RunNowTyped, EditTyped DEF User
<1>2. ASSUME NEW c \in Callers, Operation(c) PROVE RestTyped'
  BY <1>2, EditWriteTyped, DroppedTyped, RunNowQueuedTyped, RunNowDoneTyped,
     ReconcileDoneTyped, ReconcileJobTyped DEF Operation
<1>3. ASSUME NEW h \in Hosts, HostStep(h) \/ Heartbeat(h) PROVE RestTyped'
  BY <1>3, SpawnDoneTyped, ScanTyped, QueueDueTyped, HeartbeatTyped DEF HostStep
<1>4. CASE \E r \in Runs : Alone(Executor(r)) \/ Alone(Session(r)) \/ Alone(Timeout(r))
  BY <1>4 DEF Alone, hostVars, RestTyped
<1>5. CASE Fault
  BY <1>5, AppRestartTyped, SpawnFailsTyped, HostExitTyped DEF Fault
<1>6. CASE UNCHANGED vars
  BY <1>6 DEF vars, hostVars, RestTyped
<1> QED
  BY <1>1, <1>2, <1>3, <1>4, <1>5, <1>6, DueArrivesTyped, IdleStopTyped, RestartFiresTyped,
     TickTyped DEF Next

\* The tables, operations, processes and messages keep their types, and an operation
\* that is to write or to run a job is about one.
THEOREM RestTypedAlways == Spec => []RestTyped
<1> QED BY InitTyped, NextTypes, PTL DEF Spec

-----------------------------------------------------------------------------
(* A host is on its way.                                                   *)

\* The host the manager knows is up, the one it waits for is spawning.
HostsKnown ==
  /\ mgr.host # NoHost => mgr.host \in Hosts /\ host[mgr.host] = "up"
  /\ mgr.ready # NoHost => mgr.ready \in Hosts /\ host[mgr.ready] = "spawning"

HostSound == HostsKnown /\ HostOnItsWay

\* What any of these promises.
OnItsWay(M, H) ==
  \/ M.host # NoHost /\ H[M.host] = "up"
  \/ M.ready # NoHost /\ H[M.ready] = "spawning"
  \/ M.timer
  \/ \E h \in Hosts : H[h] = "spawning"
  \/ M.error

Asked == \E c \in Callers : op[c].stage \in {"running", "reconcile"}

LEMMA OnItsWayFits == HostOnItsWay <=> (Enabled(job) = {} \/ OnItsWay(mgr, host) \/ Asked)
BY DEF HostOnItsWay, OnItsWay, Asked

\* reconcile leaves a host there or on its way, or nothing to scan for.
LEMMA ManagerLeaves ==
  ASSUME NEW M \in Managers, NEW H \in [Hosts -> {"off", "spawning", "up"}], NEW table,
         NEW retrying \in BOOLEAN, ManagerReconcile(M, H, table, retrying),
         M.host # NoHost => M.host \in Hosts /\ H[M.host] = "up",
         M.ready # NoHost => M.ready \in Hosts /\ H[M.ready] = "spawning"
  PROVE  HostsKnown' /\ (Enabled(table) = {} \/ OnItsWay(mgr', host'))
<1>1. CASE Enabled(table) = {}
  <2>1. host' = H /\ mgr'.host = M.host /\ mgr'.ready = M.ready
    BY <1>1 DEF ManagerReconcile, Managers
  <2> QED BY <1>1, <2>1 DEF HostsKnown
<1>2. CASE Enabled(table) # {} /\ M.host # NoHost
  <2>1. host' = H /\ mgr'.host = M.host /\ mgr'.ready = M.ready
    BY <1>2 DEF ManagerReconcile, Managers
  <2> QED BY <1>2, <2>1 DEF HostsKnown, OnItsWay
<1>3. CASE Enabled(table) # {} /\ M.host = NoHost /\ M.ready # NoHost
  <2>1. host' = H /\ mgr'.host = M.host /\ mgr'.ready = M.ready
    BY <1>3 DEF ManagerReconcile, Managers
  <2> QED BY <1>3, <2>1 DEF HostsKnown, OnItsWay
<1>4. CASE Enabled(table) # {} /\ M.host = NoHost /\ M.ready = NoHost
  <2>1. PICK h \in Hosts :
          /\ host' = [H EXCEPT ![h] = "spawning"]
          /\ mgr' = [M EXCEPT !.idle = FALSE, !.ready = h, !.error = FALSE,
                              !.retry = IF retrying THEN h ELSE M.retry]
    BY <1>4, Zenon DEF ManagerReconcile
  <2>2. host'[h] = "spawning" /\ mgr'.host = NoHost /\ mgr'.ready = h
    BY <1>4, <2>1 DEF Managers
  <2> QED BY <2>2, HostsAssumption DEF HostsKnown, OnItsWay, NoHost
<1> QED BY <1>1, <1>2, <1>3, <1>4

\* An operation that begins or goes on takes nothing back.
LEMMA OperationOnItsWay ==
  ASSUME RestTyped, HostSound, UNCHANGED <<mgr, host>>, NEW c \in Callers, NEW o,
         op' = [op EXCEPT ![c] = o],
         \/ o.stage \in {"running", "reconcile"}
         \/ job' = job /\ op[c].stage \notin {"running", "reconcile"}
  PROVE  HostSound'
<1>1. HostsKnown'
  BY DEF HostSound, HostsKnown
<1>2. CASE o.stage \in {"running", "reconcile"}
  <2>1. Asked'
    BY <1>2 DEF Asked, RestTyped
  <2> QED BY <1>1, <2>1 DEF HostSound, HostOnItsWay, Asked
<1>3. CASE job' = job /\ op[c].stage \notin {"running", "reconcile"}
  <2>1. Asked => Asked'
    BY <1>3 DEF Asked, RestTyped
  <2>2. Enabled(job)' = Enabled(job)
    BY <1>3
  <2> QED BY <1>1, <2>1, <2>2 DEF HostSound, HostOnItsWay, Asked
<1> QED BY <1>2, <1>3

LEMMA UserOnItsWay ==
  ASSUME RestTyped, HostSound, NEW c \in Callers, User(c)
  PROVE  HostSound'
<1> USE DEF Reconciling, NoOp
<1>1. CASE List(c)
  BY <1>1, OperationOnItsWay DEF List, hostVars
<1>2. ASSUME NEW j \in Jobs, Delete(c, j) PROVE HostSound'
  BY <1>2, OperationOnItsWay DEF Delete, hostVars
<1>3. ASSUME NEW j \in Jobs, RunNow(c, j) PROVE HostSound'
  BY <1>3, OperationOnItsWay DEF RunNow, MayCall, hostVars
<1>4. ASSUME NEW j \in Jobs, NEW b \in BOOLEAN, Edit(c, j, b) PROVE HostSound'
  BY <1>4, OperationOnItsWay DEF Edit, MayCall, hostVars
<1>5. CASE RestartScheduler(c)
  <2> DEFINE M == [Stopped(mgr) EXCEPT !.attempts = 0]
  <2>1. M \in Managers /\ M.host = NoHost /\ M.ready = NoHost
    <3>1. Stopped(mgr) \in Managers
      BY StoppedTyped DEF RestTyped
    <3>2. 0 \in 0 .. MaxRestarts
      BY TimeAssumption
    <3>3. M \in Managers
      BY <3>1, <3>2, FieldsTyped
    <3>4. M.host = NoHost /\ M.ready = NoHost
      BY <3>1 DEF Stopped, Managers, RestTyped
    <3> QED BY <3>3, <3>4
  <2> HIDE DEF M
  <2>2. ManagerReconcile(M, Killed(mgr), job, FALSE)
    BY <1>5 DEF RestartScheduler, M
  <2>3. HostsKnown' /\ (Enabled(job) = {} \/ OnItsWay(mgr', host'))
    BY <2>1, <2>2, ManagerLeaves, KilledTyped
  <2> QED BY <1>5, <2>3 DEF RestartScheduler, HostSound, HostOnItsWay, OnItsWay
<1> QED BY <1>1, <1>2, <1>3, <1>4, <1>5 DEF User

LEMMA WorkOnItsWay ==
  ASSUME RestTyped, HostSound, NEW c \in Callers, Operation(c)
  PROVE  HostSound'
<1>1. CASE EditWrite(c)
  BY <1>1, OperationOnItsWay DEF EditWrite, hostVars, Reconciling, NoOp
<1>2. CASE EditRefused(c) \/ RunNowRefused(c)
  BY <1>2, OperationOnItsWay DEF EditRefused, RunNowRefused, hostVars, NoOp
<1>3. CASE RunNowQueued(c)
  <2>1. PICK r : op' = [op EXCEPT ![c] = [NoOp EXCEPT !.stage = "running", !.run = r]]
    BY <1>3, Zenon DEF RunNowQueued
  <2> DEFINE o == [NoOp EXCEPT !.stage = "running", !.run = r]
  <2>2. o.stage = "running"
    BY DEF NoOp
  <2> HIDE DEF o
  <2>3. op' = [op EXCEPT ![c] = o] /\ job' = job /\ UNCHANGED <<mgr, host>>
    BY <1>3, <2>1 DEF RunNowQueued, hostVars, o
  <2> QED BY <2>2, <2>3, OperationOnItsWay
<1>4. CASE RunNowDone(c)
  BY <1>4, OperationOnItsWay DEF RunNowDone, hostVars, Reconciling, NoOp
<1>5. ASSUME NEW j \in Jobs, ReconcileJob(c, j) PROVE HostSound'
  <2> DEFINE o == [op[c] EXCEPT !.todo = @ \ {j}, !.rows[j] = NoRow]
  <2>1. op' = [op EXCEPT ![c] = o] /\ o.stage = "reconcile"
    BY <1>5, ReconcileJobOp
  <2> HIDE DEF o
  <2> QED BY <1>5, <2>1, OperationOnItsWay DEF ReconcileJob, hostVars
<1>6. CASE ReconcileDone(c)
  <2>1. HostsKnown' /\ (Enabled(job) = {} \/ OnItsWay(mgr', host'))
    BY <1>6, ManagerLeaves DEF ReconcileDone, RestTyped, HostSound, HostsKnown
  <2> QED BY <1>6, <2>1 DEF ReconcileDone, HostSound, HostOnItsWay, OnItsWay
<1> QED BY <1>1, <1>2, <1>3, <1>4, <1>5, <1>6 DEF Operation

\* Nothing the promise is about changes.
LEMMA StillOnItsWay ==
  ASSUME HostSound, UNCHANGED <<mgr, host, op>>, Enabled(job') = Enabled(job)
  PROVE  HostSound'
BY DEF HostSound, HostsKnown, HostOnItsWay

\* A host that is up is known, whatever the manager believed.
LEMMA HostsOnItsWay ==
  ASSUME RestTyped, HostSound, NEW h \in Hosts, HostStep(h) \/ Heartbeat(h)
  PROVE  HostSound'
<1>1. CASE SpawnDone(h)
  <2>1. mgr'.host = h /\ mgr'.ready = NoHost /\ host'[h] = "up"
    BY <1>1 DEF SpawnDone, RestTyped, Managers
  <2> QED BY <2>1, HostsAssumption DEF HostSound, HostsKnown, HostOnItsWay, NoHost
<1>2. CASE Scan(h)
  BY <1>2, StillOnItsWay DEF Scan
<1>3. CASE QueueDue(h)
  <2>1. Enabled(job') = Enabled(job)
    BY <1>3 DEF QueueDue, Enabled, RestTyped, Rows
  <2> QED BY <1>3, <2>1, StillOnItsWay DEF QueueDue
<1>4. CASE Heartbeat(h)
  <2>1. mgr'.host = mgr.host /\ mgr'.ready = mgr.ready /\ host' = host /\ host[h] = "up" /\ h = mgr.host
    BY <1>4 DEF Heartbeat, hostVars, RestTyped, Managers
  <2> QED BY <2>1, HostsAssumption DEF HostSound, HostsKnown, HostOnItsWay, NoHost
<1> QED BY <1>1, <1>2, <1>3, <1>4 DEF HostStep

LEMMA TimersOnItsWay ==
  ASSUME RestTyped, HostSound, IdleStop \/ RestartFires
  PROVE  HostSound'
<1>1. CASE IdleStop /\ Enabled(job) = {}
  <2>1. mgr'.host = NoHost /\ mgr'.ready = NoHost /\ Enabled(job)' = {}
    BY <1>1, ZenonT(40) DEF IdleStop, Stopped, RestTyped, Managers
  <2> QED BY <2>1 DEF HostSound, HostsKnown, HostOnItsWay
<1>2. CASE IdleStop /\ Enabled(job) # {}
  <2>1. /\ mgr'.host = mgr.host /\ mgr'.ready = mgr.ready /\ mgr'.timer = mgr.timer
        /\ mgr'.error = mgr.error /\ UNCHANGED <<host, op, job>>
    BY <1>2 DEF IdleStop, RestTyped, Managers
  <2> QED BY <2>1 DEF HostSound, HostsKnown, HostOnItsWay
<1>3. CASE RestartFires
  <2> DEFINE M == [mgr EXCEPT !.timer = FALSE]
  <2>1. M \in Managers /\ M.host = mgr.host /\ M.ready = mgr.ready
    BY DEF RestTyped, Managers
  <2> HIDE DEF M
  <2>2. ManagerReconcile(M, host, job, TRUE)
    BY <1>3 DEF RestartFires, M
  <2>3. HostsKnown' /\ (Enabled(job) = {} \/ OnItsWay(mgr', host'))
    BY <2>1, <2>2, ManagerLeaves DEF RestTyped, HostSound, HostsKnown
  <2> QED BY <1>3, <2>3 DEF RestartFires, HostSound, HostOnItsWay, OnItsWay
<1> QED BY <1>1, <1>2, <1>3

LEMMA RestartKeeps ==
  ASSUME NEW M \in Managers
  PROVE  /\ RestartScheduled(M).host = M.host
         /\ RestartScheduled(M).ready = M.ready
         /\ RestartScheduled(M).error = M.error
BY DEF RestartScheduled, Managers

LEMMA FaultOnItsWay ==
  ASSUME RestTyped, HostSound, Fault
  PROVE  HostSound'
<1>1. ASSUME NEW h \in Hosts, SpawnFails(h) PROVE HostSound'
  <2> DEFINE M == [mgr EXCEPT !.ready = NoHost, !.error = TRUE]
             N == [M EXCEPT !.retry = NoHost]
  <2>1. /\ M \in Managers /\ M.host = mgr.host /\ M.ready = NoHost /\ M.error = TRUE
        /\ N \in Managers /\ N.host = mgr.host /\ N.ready = NoHost /\ N.error = TRUE
    BY DEF RestTyped, Managers
  <2>2. mgr' = IF mgr.retry = h THEN RestartScheduled(N) ELSE M
    BY <1>1 DEF SpawnFails
  <2> HIDE DEF M, N
  <2>3. mgr'.host = mgr.host /\ mgr'.ready = NoHost /\ mgr'.error
    BY <2>1, <2>2, RestartKeeps
  <2> QED BY <1>1, <2>3 DEF SpawnFails, HostSound, HostsKnown, HostOnItsWay, RestTyped
<1>2. ASSUME NEW h \in Hosts, HostExit(h), h = mgr.host PROVE HostSound'
  <2> DEFINE e == Enabled(job) # {}
             M == [mgr EXCEPT !.host = NoHost, !.ready = NoHost, !.error = e]
  <2>1. M \in Managers /\ M.host = NoHost /\ M.ready = NoHost /\ M.error = e
    BY DEF RestTyped, Managers
  <2>2. mgr' = IF Enabled(job) = {} THEN M ELSE RestartScheduled(M)
    BY <1>2 DEF HostExit
  <2> HIDE DEF M
  <2>3. mgr'.host = NoHost /\ mgr'.ready = NoHost /\ mgr'.error = e
    BY <2>1, <2>2, RestartKeeps
  <2> QED BY <1>2, <2>3 DEF HostExit, HostSound, HostsKnown, HostOnItsWay
<1>3. ASSUME NEW h \in Hosts, HostExit(h), h # mgr.host PROVE HostSound'
  BY <1>3 DEF HostExit, HostSound, HostsKnown, HostOnItsWay, RestTyped
<1>4. CASE AppRestart
  <2>1. PICK c \in Callers : op' = [[d \in Callers |-> NoOp] EXCEPT ![c] = Reconciling(job)]
    BY <1>4 DEF AppRestart
  <2>2. op'[c].stage = "reconcile"
    BY <2>1 DEF Reconciling, NoOp
  <2> QED BY <1>4, <2>2 DEF AppRestart, HostSound, HostsKnown, HostOnItsWay, NewManager
<1> QED BY <1>1, <1>2, <1>3, <1>4 DEF Fault

LEMMA NextOnItsWay == RestTyped /\ HostSound /\ [Next]_vars => HostSound'
<1> SUFFICES ASSUME RestTyped, HostSound, [Next]_vars PROVE HostSound'
  OBVIOUS
<1>1. CASE \E m \in due : DueArrives(m)
  BY <1>1, StillOnItsWay DEF DueArrives
<1>2. CASE \E r \in Runs : Alone(Executor(r)) \/ Alone(Session(r)) \/ Alone(Timeout(r))
  BY <1>2, StillOnItsWay DEF Alone, hostVars
<1>3. CASE Tick \/ UNCHANGED vars
  BY <1>3, StillOnItsWay DEF Tick, vars, hostVars
<1> QED
  BY <1>1, <1>2, <1>3, UserOnItsWay, WorkOnItsWay, HostsOnItsWay, TimersOnItsWay, FaultOnItsWay
  DEF Next

\* While there is a job to scan for, the scheduler is never silently dead: a host is up
\* or spawning, a restart or a reconciliation is due, or the manager shows an error.
THEOREM HostAlwaysOnItsWay == Spec => []HostOnItsWay
<1>1. Init => HostSound
  <2> SUFFICES ASSUME Init PROVE HostSound
    OBVIOUS
  <2>1. PICK c \in Callers : op = [[d \in Callers |-> NoOp] EXCEPT ![c] = Reconciling(job)]
    BY DEF Init
  <2>2. op[c].stage = "reconcile"
    BY <2>1 DEF Reconciling, NoOp
  <2> QED BY <2>2 DEF Init, HostSound, HostsKnown, HostOnItsWay, NewManager
<1>2. HostSound => HostOnItsWay
  BY DEF HostSound
<1> QED BY <1>1, <1>2, NextOnItsWay, RestTypedAlways, PTL DEF Spec


-----------------------------------------------------------------------------
(* The runs: almost every step changes one.  OneRunStep says what such a      *)
(* step may do, StepKeepsSound that the invariant survives it; a lemma per    *)
(* action shows that the action is such a step.                               *)

RunsTyped ==
  /\ status \in [Runs -> RunStatuses]
  /\ slot \in [Runs -> Slots]
  /\ work \in [Runs -> RunStages]
  /\ runnable \in [Runs -> BOOLEAN]
  /\ watched \subseteq Runs
  /\ session \in [Runs -> SessionStates]
  /\ cancel \subseteq Runs
  /\ told \in [Runs -> Seq(Settled)]

\* Nothing has happened to the run but that its row may have been queued.
Untouched(r) ==
  session[r] = "none" /\ r \notin watched /\ r \notin cancel /\ told[r] = <<>>

\* How row, await, session, timer and reports of one run fit together.
RowSound(r) ==
  /\ HasRow(r) => slot[r].job \in Jobs
  /\ status[r] = "none" => work[r] = "rest" /\ Untouched(r)
  /\ status[r] = "queued" => work[r] \in {"rest", "checking"} /\ Untouched(r)
  /\ work[r] = "checking" => status[r] \in {"queued", "deleted"} /\ Untouched(r)
  /\ work[r] = "creating" => status[r] \in {"running", "deleted"} /\ Untouched(r)
  /\ work[r] = "starting" => session[r] # "none"
  /\ status[r] = "running" =>
       /\ r \notin cancel
       /\ told[r] = <<>>
       /\ work[r] = "creating" \/ (r \in watched /\ session[r] = "open")
  /\ r \in watched => session[r] # "none" /\ r \notin cancel
  /\ r \in cancel => told[r] = <<>> /\ status[r] \in {"failed", "deleted"}
  /\ session[r] = "open" /\ HasRow(r) /\ r \notin cancel => status[r] = "running"
  /\ told[r] = <<>> \/ (told[r] = <<told[r][1]>> /\ status[r] \in {told[r][1], "deleted"})

\* A message under way is the only one about its run, which nobody has looked at.
MessagesSound ==
  /\ \A m \in due :
       /\ m.run \in Runs
       /\ status[m.run] \in {"queued", "deleted"}
       /\ work[m.run] = "rest"
       /\ Untouched(m.run)
  /\ \A m, n \in due : m.run = n.run => m = n

RunsSound ==
  /\ RunsTyped
  /\ \A r \in Runs : RowSound(r)
  /\ MessagesSound
  /\ OneRunPerJob
  /\ OccurrenceQueuedOnce

-----------------------------------------------------------------------------
(* A step of one run.                                                      *)

Same(q) ==
  /\ status'[q] = status[q]
  /\ slot'[q] = slot[q]
  /\ work'[q] = work[q]
  /\ runnable'[q] = runnable[q]
  /\ q \in watched' <=> q \in watched
  /\ session'[q] = session[q]
  /\ q \in cancel' <=> q \in cancel
  /\ told'[q] = told[q]

Final(r) == status[r] \in Settled => status'[r] \in {status[r], "deleted"}

\* A step never changes a settled row but to delete it.
SettledStay == \A r \in Runs : Final(r)

\* No row appears, a row starts to run only when no other of its job does, and a
\* settled one stays as it is.
OneRunStep(r) ==
  /\ RunsTyped'
  /\ \A q \in Runs \ {r} : Same(q)
  /\ slot'[r] = slot[r]
  /\ RowSound(r)'
  /\ HasRow(r)' => HasRow(r)
  /\ status'[r] = "running" => status[r] = "running" \/ ~OtherActive(r)
  /\ Final(r)

\* The run of the step has no message, or the step takes the message.
MessagesTaken(r) ==
  /\ due' \subseteq due
  /\ \A m \in due' : m.run # r

LEMMA StepKeepsSound ==
  ASSUME RunsSound, NEW r \in Runs, OneRunStep(r), MessagesTaken(r)
  PROVE  RunsSound' /\ SettledStay
<1>1. RunsTyped'
  BY DEF OneRunStep
<1>2. ASSUME NEW q \in Runs PROVE RowSound(q)'
  <2>1. CASE q = r
    BY <2>1 DEF OneRunStep
  <2>2. CASE q # r
    BY <2>2 DEF OneRunStep, Same, RunsSound, RowSound, HasRow, Untouched
  <2> QED BY <2>1, <2>2
<1>3. MessagesSound'
  BY DEF OneRunStep, MessagesTaken, Same, RunsSound, MessagesSound, Untouched
<1>4. OneRunPerJob'
  BY DEF OneRunStep, Same, RunsSound, OneRunPerJob, OtherActive, RunsOf, HasRow
<1>5. OccurrenceQueuedOnce'
  BY DEF OneRunStep, Same, RunsSound, OccurrenceQueuedOnce, HasRow
<1>6. SettledStay
  BY DEF OneRunStep, Same, SettledStay, Final
<1> QED BY <1>1, <1>2, <1>3, <1>4, <1>5, <1>6 DEF RunsSound

-----------------------------------------------------------------------------
(* The actions of the executor, the sessions and the timers.               *)

LEMMA TellAppends ==
  ASSUME RunsTyped, NEW r \in Runs, NEW s \in Settled, Tell(r, s)
  PROVE  /\ told' \in [Runs -> Seq(Settled)]
         /\ \A q \in Runs \ {r} : told'[q] = told[q]
         /\ told[r] = <<>> => told'[r] = <<s>>
<1>1. told[r] \in Seq(Settled)
  BY DEF RunsTyped
<1>2. Append(told[r], s) \in Seq(Settled)
  BY <1>1
<1>3. told' = [told EXCEPT ![r] = Append(told[r], s)]
  BY DEF Tell
<1>4. told' \in [Runs -> Seq(Settled)]
  BY <1>2, <1>3 DEF RunsTyped
<1>5. ASSUME told[r] = <<>> PROVE told'[r] = <<s>>
  <2>1. Append(<<>>, s) = <<s>>
    OBVIOUS
  <2> QED BY <1>3, <1>5, <2>1 DEF RunsTyped
<1>6. \A q \in Runs \ {r} : told'[q] = told[q]
  BY <1>3 DEF RunsTyped
<1> QED BY <1>4, <1>5, <1>6

LEMMA ProcessDueStep ==
  ASSUME RunsSound, NEW r \in Runs, NEW exists, NEW enabled,
         HasRow(r) => enabled \in BOOLEAN,
         ProcessDue(r, exists, enabled),
         status[r] \in {"queued", "deleted"}, work[r] = "rest", Untouched(r)
  PROVE  OneRunStep(r)
<1>1. RunsTyped'
  BY DEF ProcessDue, Mark, runVars, RunsSound, RunsTyped,
         HasRow, Settled, RunStatuses, RunStages, SessionStates
<1>2. ASSUME NEW q \in Runs \ {r} PROVE Same(q)
  BY DEF ProcessDue, Mark, runVars, RunsSound, RunsTyped, Same, HasRow
<1>3. RowSound(r)'
  BY DEF ProcessDue, Mark, runVars, RunsSound, RunsTyped, RowSound, Untouched, HasRow,
         Settled, RunStatuses
<1>4. /\ slot'[r] = slot[r]
      /\ HasRow(r)' => HasRow(r)
      /\ status'[r] = "running" => status[r] = "running" \/ ~OtherActive(r)
      /\ Final(r)
  BY DEF ProcessDue, Mark, runVars, RunsSound, RunsTyped, RowSound, HasRow, Final, Settled,
         RunStatuses
<1> QED BY <1>1, <1>2, <1>3, <1>4 DEF OneRunStep

LEMMA RefuseStep ==
  ASSUME RunsSound, NEW r \in Runs, Refuse(r)
  PROVE  OneRunStep(r)
<1>1. RunsTyped'
  <2>1. told' \in [Runs -> Seq(Settled)]
    BY TellAppends DEF Refuse, RunsSound, RunsTyped, Settled
  <2> QED BY <2>1 DEF Refuse, Mark, Rest, RunsSound, RunsTyped, HasRow,
                      Settled, RunStatuses, RunStages, SessionStates
<1>2. ASSUME NEW q \in Runs \ {r} PROVE Same(q)
  BY DEF Refuse, Mark, Tell, Rest, RunsSound, RunsTyped, Same, HasRow
<1>3. RowSound(r)'
  BY DEF Refuse, Mark, Tell, Rest, RunsSound, RunsTyped, RowSound, Untouched, HasRow, Settled, RunStatuses
<1>4. /\ slot'[r] = slot[r]
      /\ HasRow(r)' => HasRow(r)
      /\ status'[r] = "running" => status[r] = "running" \/ ~OtherActive(r)
      /\ Final(r)
  BY DEF Refuse, Mark, Tell, Rest, RunsSound, RunsTyped, RowSound, HasRow, Final, Settled, RunStatuses
<1> QED BY <1>1, <1>2, <1>3, <1>4 DEF OneRunStep

LEMMA ClaimLostStep ==
  ASSUME RunsSound, NEW r \in Runs, ClaimLost(r)
  PROVE  OneRunStep(r)
<1>1. RunsTyped'
  BY DEF ClaimLost, Passes, Rest, RunsSound, RunsTyped, RowSound, Untouched,
         HasRow, Settled, RunStatuses, RunStages, SessionStates
<1>2. ASSUME NEW q \in Runs \ {r} PROVE Same(q)
  BY DEF ClaimLost, Passes, Rest, RunsSound, RunsTyped, Same, HasRow
<1>3. RowSound(r)'
  BY DEF ClaimLost, Passes, Rest, RunsSound, RunsTyped, RowSound, Untouched, HasRow, Settled, RunStatuses
<1>4. /\ slot'[r] = slot[r]
      /\ HasRow(r)' => HasRow(r)
      /\ status'[r] = "running" => status[r] = "running" \/ ~OtherActive(r)
      /\ Final(r)
  BY DEF ClaimLost, Passes, Rest, RunsSound, RunsTyped, RowSound, HasRow, Final, Settled, RunStatuses
<1> QED BY <1>1, <1>2, <1>3, <1>4 DEF OneRunStep

LEMMA ClaimBlockedStep ==
  ASSUME RunsSound, NEW r \in Runs, NEW policy_, ClaimBlocked(r, policy_)
  PROVE  OneRunStep(r)
<1>1. RunsTyped'
  BY DEF ClaimBlocked, Passes, Mark, Rest, RunsSound, RunsTyped, RowSound, Untouched,
         HasRow, Settled, RunStatuses, RunStages, SessionStates
<1>2. ASSUME NEW q \in Runs \ {r} PROVE Same(q)
  BY DEF ClaimBlocked, Passes, Mark, Rest, RunsSound, RunsTyped, Same, HasRow
<1>3. RowSound(r)'
  BY DEF ClaimBlocked, Passes, Mark, Rest, RunsSound, RunsTyped, RowSound, Untouched, HasRow, Settled, RunStatuses
<1>4. /\ slot'[r] = slot[r]
      /\ HasRow(r)' => HasRow(r)
      /\ status'[r] = "running" => status[r] = "running" \/ ~OtherActive(r)
      /\ Final(r)
  BY DEF ClaimBlocked, Passes, Mark, Rest, RunsSound, RunsTyped, RowSound, HasRow, Final, Settled, RunStatuses
<1> QED BY <1>1, <1>2, <1>3, <1>4 DEF OneRunStep

LEMMA ClaimStep ==
  ASSUME RunsSound, NEW r \in Runs, Claim(r)
  PROVE  OneRunStep(r)
<1>1. RunsTyped'
  BY DEF Claim, Passes, Mark, RunsSound, RunsTyped, RowSound, Untouched,
         HasRow, Settled, RunStatuses, RunStages, SessionStates
<1>2. ASSUME NEW q \in Runs \ {r} PROVE Same(q)
  BY DEF Claim, Passes, Mark, RunsSound, RunsTyped, Same, HasRow
<1>3. RowSound(r)'
  BY DEF Claim, Passes, Mark, RunsSound, RunsTyped, RowSound, Untouched, HasRow, Settled, RunStatuses
<1>4. /\ slot'[r] = slot[r]
      /\ HasRow(r)' => HasRow(r)
      /\ status'[r] = "running" => status[r] = "running" \/ ~OtherActive(r)
      /\ Final(r)
  BY DEF Claim, Passes, Mark, RunsSound, RunsTyped, RowSound, HasRow, Final, Settled, RunStatuses
<1> QED BY <1>1, <1>2, <1>3, <1>4 DEF OneRunStep

LEMMA SessionCreatedStep ==
  ASSUME RunsSound, NEW r \in Runs, SessionCreated(r)
  PROVE  OneRunStep(r)
<1>1. RunsTyped'
  <2>1. told' \in [Runs -> Seq(Settled)]
    BY DEF SessionCreated, RunsSound, RunsTyped
  <2> QED BY <2>1, ZenonT(40) DEF SessionCreated, Rest, RunsSound, RunsTyped, HasRow,
                      Settled, RunStatuses, RunStages, SessionStates
<1>2. ASSUME NEW q \in Runs \ {r} PROVE Same(q)
  BY DEF SessionCreated, Rest, RunsSound, RunsTyped, Same, HasRow
<1>3. RowSound(r)'
  BY DEF SessionCreated, Rest, RunsSound, RunsTyped, RowSound, Untouched, HasRow, Settled, RunStatuses
<1>4. /\ slot'[r] = slot[r]
      /\ HasRow(r)' => HasRow(r)
      /\ status'[r] = "running" => status[r] = "running" \/ ~OtherActive(r)
      /\ Final(r)
  BY DEF SessionCreated, Rest, RunsSound, RunsTyped, RowSound, HasRow, Final, Settled, RunStatuses
<1> QED BY <1>1, <1>2, <1>3, <1>4 DEF OneRunStep

LEMMA CreateFailsStep ==
  ASSUME RunsSound, NEW r \in Runs, CreateFails(r)
  PROVE  OneRunStep(r)
<1>1. RunsTyped'
  <2>1. told' \in [Runs -> Seq(Settled)]
    BY TellAppends DEF CreateFails, SettleIfRunning, RunsSound, RunsTyped, Settled
  <2> QED BY <2>1 DEF CreateFails, SettleIfRunning, Mark, Rest, RunsSound, RunsTyped, HasRow,
                      Settled, RunStatuses, RunStages, SessionStates
<1>2. ASSUME NEW q \in Runs \ {r} PROVE Same(q)
  BY DEF CreateFails, SettleIfRunning, Mark, Tell, Rest, RunsSound, RunsTyped, Same, HasRow
<1>3. RowSound(r)'
  BY DEF CreateFails, SettleIfRunning, Mark, Tell, Rest, RunsSound, RunsTyped, RowSound, Untouched, HasRow, Settled, RunStatuses
<1>4. /\ slot'[r] = slot[r]
      /\ HasRow(r)' => HasRow(r)
      /\ status'[r] = "running" => status[r] = "running" \/ ~OtherActive(r)
      /\ Final(r)
  BY DEF CreateFails, SettleIfRunning, Mark, Tell, Rest, RunsSound, RunsTyped, RowSound, HasRow, Final, Settled, RunStatuses
<1> QED BY <1>1, <1>2, <1>3, <1>4 DEF OneRunStep

LEMMA SessionStartedStep ==
  ASSUME RunsSound, NEW r \in Runs, SessionStarted(r)
  PROVE  OneRunStep(r)
<1>1. RunsTyped'
  BY DEF SessionStarted, Rest, RunsSound, RunsTyped, RowSound, Untouched,
         HasRow, Settled, RunStatuses, RunStages, SessionStates
<1>2. ASSUME NEW q \in Runs \ {r} PROVE Same(q)
  BY DEF SessionStarted, Rest, RunsSound, RunsTyped, Same, HasRow
<1>3. RowSound(r)'
  BY DEF SessionStarted, Rest, RunsSound, RunsTyped, RowSound, Untouched, HasRow, Settled, RunStatuses
<1>4. /\ slot'[r] = slot[r]
      /\ HasRow(r)' => HasRow(r)
      /\ status'[r] = "running" => status[r] = "running" \/ ~OtherActive(r)
      /\ Final(r)
  BY DEF SessionStarted, Rest, RunsSound, RunsTyped, RowSound, HasRow, Final, Settled, RunStatuses
<1> QED BY <1>1, <1>2, <1>3, <1>4 DEF OneRunStep

LEMMA StartFailsStep ==
  ASSUME RunsSound, NEW r \in Runs, StartFails(r)
  PROVE  OneRunStep(r)
<1>1. RunsTyped'
  <2>1. told' \in [Runs -> Seq(Settled)]
    BY TellAppends DEF StartFails, SettleIfRunning, RunsSound, RunsTyped, Settled
  <2> QED BY <2>1 DEF StartFails, SettleIfRunning, Mark, Rest, RunsSound, RunsTyped, HasRow,
                      Settled, RunStatuses, RunStages, SessionStates
<1>2. ASSUME NEW q \in Runs \ {r} PROVE Same(q)
  BY DEF StartFails, SettleIfRunning, Mark, Tell, Rest, RunsSound, RunsTyped, Same, HasRow
<1>3. RowSound(r)'
  BY DEF StartFails, SettleIfRunning, Mark, Tell, Rest, RunsSound, RunsTyped, RowSound, Untouched, HasRow, Settled, RunStatuses
<1>4. /\ slot'[r] = slot[r]
      /\ HasRow(r)' => HasRow(r)
      /\ status'[r] = "running" => status[r] = "running" \/ ~OtherActive(r)
      /\ Final(r)
  BY DEF StartFails, SettleIfRunning, Mark, Tell, Rest, RunsSound, RunsTyped, RowSound, HasRow, Final, Settled, RunStatuses
<1> QED BY <1>1, <1>2, <1>3, <1>4 DEF OneRunStep

LEMMA SessionEndsStep ==
  ASSUME RunsSound, NEW r \in Runs, NEW s \in {"completed", "failed"}, SessionEnds(r, s)
  PROVE  OneRunStep(r)
<1>1. RunsTyped'
  <2>1. told' \in [Runs -> Seq(Settled)]
    BY TellAppends DEF SessionEnds, SettleIfRunning, RunsSound, RunsTyped, Settled
  <2> QED BY <2>1 DEF SessionEnds, SettleIfRunning, Mark, RunsSound, RunsTyped, HasRow,
                      Settled, RunStatuses, RunStages, SessionStates
<1>2. ASSUME NEW q \in Runs \ {r} PROVE Same(q)
  BY DEF SessionEnds, SettleIfRunning, Mark, Tell, RunsSound, RunsTyped, Same, HasRow
<1>3. RowSound(r)'
  BY DEF SessionEnds, SettleIfRunning, Mark, Tell, RunsSound, RunsTyped, RowSound, Untouched, HasRow, Settled, RunStatuses
<1>4. /\ slot'[r] = slot[r]
      /\ HasRow(r)' => HasRow(r)
      /\ status'[r] = "running" => status[r] = "running" \/ ~OtherActive(r)
      /\ Final(r)
  BY DEF SessionEnds, SettleIfRunning, Mark, Tell, RunsSound, RunsTyped, RowSound, HasRow, Final, Settled, RunStatuses
<1> QED BY <1>1, <1>2, <1>3, <1>4 DEF OneRunStep

LEMMA TimeoutStep ==
  ASSUME RunsSound, NEW r \in Runs, Timeout(r)
  PROVE  OneRunStep(r)
<1>1. RunsTyped'
  <2>1. told' \in [Runs -> Seq(Settled)]
    BY DEF Timeout, RunsSound, RunsTyped
  <2> QED BY <2>1 DEF Timeout, Mark, RunsSound, RunsTyped, HasRow,
                      Settled, RunStatuses, RunStages, SessionStates
<1>2. ASSUME NEW q \in Runs \ {r} PROVE Same(q)
  BY DEF Timeout, Mark, RunsSound, RunsTyped, Same, HasRow
<1>3. RowSound(r)'
  BY DEF Timeout, Mark, RunsSound, RunsTyped, RowSound, Untouched, HasRow, Settled, RunStatuses
<1>4. /\ slot'[r] = slot[r]
      /\ HasRow(r)' => HasRow(r)
      /\ status'[r] = "running" => status[r] = "running" \/ ~OtherActive(r)
      /\ Final(r)
  BY DEF Timeout, Mark, RunsSound, RunsTyped, RowSound, HasRow, Final, Settled, RunStatuses
<1> QED BY <1>1, <1>2, <1>3, <1>4 DEF OneRunStep

LEMMA CancelledStep ==
  ASSUME RunsSound, NEW r \in Runs, NEW ended \in BOOLEAN, Cancelled(r, ended)
  PROVE  OneRunStep(r)
<1>1. RunsTyped'
  BY DEF Cancelled, Tell, RunsSound, RunsTyped, RowSound, Untouched,
         HasRow, Settled, RunStatuses, RunStages, SessionStates
<1>2. ASSUME NEW q \in Runs \ {r} PROVE Same(q)
  BY DEF Cancelled, Tell, RunsSound, RunsTyped, Same, HasRow
<1>3. RowSound(r)'
  <2>1. told'[r] = <<"failed">> /\ "failed" \in Settled
    BY TellAppends DEF Cancelled, RunsSound, RowSound, Settled
  <2> QED BY <2>1 DEF Cancelled, RunsSound, RunsTyped, RowSound, Untouched, HasRow, Settled, RunStatuses
<1>4. /\ slot'[r] = slot[r]
      /\ HasRow(r)' => HasRow(r)
      /\ status'[r] = "running" => status[r] = "running" \/ ~OtherActive(r)
      /\ Final(r)
  BY DEF Cancelled, Tell, RunsSound, RunsTyped, RowSound, HasRow, Final, Settled, RunStatuses
<1> QED BY <1>1, <1>2, <1>3, <1>4 DEF OneRunStep

-----------------------------------------------------------------------------
(* The steps of the specification.                                         *)

LEMMA NoMessage ==
  ASSUME RunsSound, NEW r \in Runs, work[r] # "rest" \/ ~Untouched(r)
  PROVE  \A m \in due : m.run # r
BY DEF RunsSound, MessagesSound

LEMMA ExecutorSound ==
  ASSUME RunsSound, NEW r \in Runs, Alone(Executor(r))
  PROVE  RunsSound' /\ SettledStay
<1>1. OneRunStep(r)
  BY RefuseStep, ClaimLostStep, ClaimBlockedStep, ClaimStep, SessionCreatedStep, CreateFailsStep,
     SessionStartedStep, StartFailsStep DEF Alone, Executor
<1>2. work[r] # "rest"
  BY DEF Alone, Executor, Refuse, ClaimLost, ClaimBlocked, Claim, Passes, SessionCreated,
         CreateFails, SessionStarted, StartFails
<1>3. MessagesTaken(r)
  BY <1>2, NoMessage DEF Alone, hostVars, MessagesTaken
<1> QED BY <1>1, <1>3, StepKeepsSound

LEMMA SessionSound ==
  ASSUME RunsSound, NEW r \in Runs, Alone(Session(r)) \/ Alone(Timeout(r))
  PROVE  RunsSound' /\ SettledStay
<1>1. OneRunStep(r)
  BY SessionEndsStep, CancelledStep, TimeoutStep DEF Alone, Session
<1>2. ~Untouched(r)
  BY DEF Alone, Session, SessionEnds, Cancelled, Timeout, Untouched
<1>3. MessagesTaken(r)
  BY <1>2, NoMessage DEF Alone, hostVars, MessagesTaken
<1> QED BY <1>1, <1>3, StepKeepsSound

\* Messages may be lost while the runs stay as they are.
LEMMA QuietSound ==
  ASSUME RunsSound, UNCHANGED runVars, due' \subseteq due
  PROVE  RunsSound' /\ SettledStay
<1>1. RunsTyped' /\ OneRunPerJob' /\ OccurrenceQueuedOnce' /\ SettledStay
  BY DEF RunsSound, RunsTyped, runVars, OneRunPerJob, OccurrenceQueuedOnce, HasRow, SettledStay, Final
<1>2. \A r \in Runs : RowSound(r)'
  BY DEF RunsSound, runVars, RowSound, Untouched, HasRow
<1>3. MessagesSound'
  BY DEF RunsSound, runVars, MessagesSound, Untouched
<1> QED BY <1>1, <1>2, <1>3 DEF RunsSound

\* Processing a message is a step of its run, and takes the only message of it.
LEMMA DueArrivesSound ==
  ASSUME RunsSound, RestTyped, NEW m \in due, DueArrives(m)
  PROVE  RunsSound' /\ SettledStay
<1> DEFINE r == m.run
           j == slot[m.run].job
<1>1. /\ r \in Runs
      /\ status[r] \in {"queued", "deleted"}
      /\ work[r] = "rest"
      /\ Untouched(r)
  BY DEF RunsSound, MessagesSound
<1>2. CASE m.host = mgr.host
  <2>1. ProcessDue(r, job[j].exists, job[j].enabled) /\ due' = due \ {m}
    BY <1>2 DEF DueArrives
  <2>2. MessagesTaken(r)
    BY <2>1 DEF MessagesTaken, RunsSound, MessagesSound
  <2>3. OneRunStep(r)
    <3> DEFINE exists == job[j].exists
               enabled == job[j].enabled
    <3>2. HasRow(r) => enabled \in BOOLEAN
      BY <1>1 DEF RunsSound, RowSound, RestTyped, Rows
    <3> HIDE DEF exists, enabled
    <3>1. ProcessDue(r, exists, enabled)
      BY <2>1 DEF exists, enabled
    <3> HIDE DEF r
    <3> QED BY <1>1, <3>1, <3>2, ProcessDueStep
  <2> QED BY <1>1, <2>2, <2>3, StepKeepsSound
<1>3. CASE m.host # mgr.host
  BY <1>3, QuietSound DEF DueArrives
<1> QED BY <1>2, <1>3

\* A job takes its rows and nobody's await, session or report with it.
LEMMA DeleteSound ==
  ASSUME RunsSound, NEW c, NEW j, Delete(c, j)
  PROVE  RunsSound' /\ SettledStay
<1>1. /\ status' = [r \in Runs |-> IF r \in RunsOf(j) THEN "deleted" ELSE status[r]]
      /\ UNCHANGED <<slot, work, runnable, watched, session, cancel, told, due>>
  BY DEF Delete, DeleteRunsOf, hostVars
<1>2. \A r \in Runs : status'[r] = status[r] \/ (status'[r] = "deleted" /\ HasRow(r))
  BY <1>1 DEF RunsOf
<1>3. RunsTyped'
  BY <1>1 DEF RunsSound, RunsTyped, RunStatuses
<1>4. \A r \in Runs : RowSound(r)'
  BY <1>1, <1>2 DEF RunsSound, RowSound, Untouched, HasRow
<1>5. MessagesSound'
  BY <1>1, <1>2 DEF RunsSound, MessagesSound, Untouched, HasRow
<1>6. OneRunPerJob' /\ OccurrenceQueuedOnce' /\ SettledStay
  BY <1>1, <1>2 DEF RunsSound, OneRunPerJob, OccurrenceQueuedOnce, HasRow, SettledStay, Final
<1> QED BY <1>3, <1>4, <1>5, <1>6 DEF RunsSound

\* What the old process left running is failed, and nothing of it is left in memory.
LEMMA AppRestartSound ==
  ASSUME RunsSound, AppRestart
  PROVE  RunsSound' /\ SettledStay
<1>1. RunsRestart /\ due' = {}
  BY DEF AppRestart
<1>2. RunsTyped'
  BY <1>1 DEF RunsRestart, RunsSound, RunsTyped, RunStages, RunStatuses, Settled, SessionStates
<1>3. ASSUME NEW r \in Runs PROVE RowSound(r)'
  BY <1>1 DEF RunsRestart, RunsSound, RunsTyped, RowSound, Untouched, HasRow, RunStatuses, Settled
<1>4. MessagesSound'
  BY <1>1 DEF MessagesSound
<1>5. OneRunPerJob' /\ OccurrenceQueuedOnce' /\ SettledStay
  BY <1>1 DEF RunsRestart, RunsSound, OneRunPerJob, OccurrenceQueuedOnce, HasRow, SettledStay,
          Final, Settled
<1> QED BY <1>2, <1>3, <1>4, <1>5 DEF RunsSound

\* A manual run is a new row, which the unique index does not cover.
LEMMA RunNowQueuedSound ==
  ASSUME RunsSound, RestTyped, NEW c \in Callers, RunNowQueued(c)
  PROVE  RunsSound' /\ SettledStay
<1> DEFINE j == op[c].job
           s == [job |-> op[c].job, at |-> now, reason |-> "manual"]
<1>1. PICK f \in Allocation({s}) :
        LET r == f[s]
        IN  /\ status' = [status EXCEPT ![r] = IF job[j].exists THEN "queued" ELSE "failed"]
            /\ slot' = [slot EXCEPT ![r] = s]
            /\ work' = [work EXCEPT ![r] = IF job[j].exists THEN "checking" ELSE "rest"]
            /\ runnable' = [runnable EXCEPT ![r] = job[j].enabled]
  BY DEF RunNowQueued
<1>2. UNCHANGED <<watched, session, cancel, told, due>>
  BY DEF RunNowQueued, hostVars
<1>3. j \in Jobs /\ job[j].enabled \in BOOLEAN /\ s \in Slots /\ s.reason = "manual" /\ s.job = j
  BY TimeAssumption DEF RunNowQueued, RestTyped, Rows, Slots, Times
<1> DEFINE r == f[s]
           e == job[j].exists
           b == job[j].enabled
<1>4. r \in Runs /\ status[r] = "none"
  BY <1>1 DEF Allocation
<1>5. /\ status' = [status EXCEPT ![r] = IF e THEN "queued" ELSE "failed"]
      /\ slot' = [slot EXCEPT ![r] = s]
      /\ work' = [work EXCEPT ![r] = IF e THEN "checking" ELSE "rest"]
      /\ runnable' = [runnable EXCEPT ![r] = b]
  BY <1>1
<1>6. j \in Jobs /\ b \in BOOLEAN /\ s \in Slots /\ s.reason = "manual" /\ s.job = j
  BY <1>3
<1>7. Untouched(r) /\ \A m \in due : m.run # r
  BY <1>4 DEF RunsSound, RowSound, MessagesSound
<1> HIDE DEF r, e, b, s, j
<1>8. RunsTyped'
  BY <1>2, <1>4, <1>5, <1>6 DEF RunsSound, RunsTyped, RunStages, RunStatuses, Settled
<1>9. ASSUME NEW q \in Runs PROVE RowSound(q)'
  BY <1>2, <1>4, <1>5, <1>6, <1>7 DEF RunsSound, RunsTyped, RowSound, Untouched, HasRow
<1>10. MessagesSound'
  BY <1>2, <1>4, <1>5, <1>7 DEF RunsSound, RunsTyped, MessagesSound, Untouched
<1>11. OneRunPerJob' /\ OccurrenceQueuedOnce' /\ SettledStay
  BY <1>4, <1>5, <1>6 DEF RunsSound, RunsTyped, OneRunPerJob, OccurrenceQueuedOnce, HasRow,
          SettledStay, Final, Settled
<1> QED BY <1>8, <1>9, <1>10, <1>11 DEF RunsSound

\* A scan queues new rows for occurrences that have none, each with its message.
LEMMA QueueDueSound ==
  ASSUME RunsSound, NEW h \in Hosts, QueueDue(h)
  PROVE  RunsSound' /\ SettledStay
<1> DEFINE S == NewSlots(found[h])
<1>1. PICK f \in Allocation(S) :
        /\ Queued(f)
        /\ due' = due \union {[host |-> h, run |-> f[s]] : s \in DOMAIN f}
  BY DEF QueueDue
<1>2. UNCHANGED <<work, runnable, watched, session, cancel, told>>
  BY DEF QueueDue
<1>3. /\ S \subseteq Slots
      /\ \A s \in S : s.job \in Jobs /\ s.reason = "scheduled" /\ ~Taken(s)
  BY TimeAssumption DEF NewSlots, Slots, Times, Horizon
<1> HIDE DEF S
<1>4. /\ DOMAIN f = S
      /\ \A s \in S : f[s] \in Runs /\ status[f[s]] = "none"
      /\ \A s, t \in S : f[s] = f[t] => s = t
  BY <1>1 DEF Allocation
<1> DEFINE new == {f[s] : s \in S}
           of(r) == CHOOSE s \in S : f[s] = r
<1>5. /\ status' = [r \in Runs |-> IF r \in new THEN "queued" ELSE status[r]]
      /\ slot' = [r \in Runs |-> IF r \in new THEN of(r) ELSE slot[r]]
  BY <1>1, <1>4 DEF Queued
<1>6. \A r \in new : of(r) \in S /\ f[of(r)] = r
  OBVIOUS
<1>7. \A r \in new : r \in Runs /\ status[r] = "none" /\ work[r] = "rest" /\ Untouched(r)
  BY <1>4 DEF RunsSound, RowSound
<1>8. \A r \in Runs : r \notin new => status'[r] = status[r] /\ slot'[r] = slot[r]
  BY <1>5
<1>9. \A r \in new : status'[r] = "queued" /\ slot'[r] = of(r)
  BY <1>5, <1>7
<1>10. due' = due \union {[host |-> h, run |-> r] : r \in new}
  BY <1>1, <1>4
<1>11. RunsTyped'
  BY <1>2, <1>3, <1>5, <1>6 DEF RunsSound, RunsTyped, RunStatuses
<1> HIDE DEF new, of
<1>12. ASSUME NEW q \in Runs PROVE RowSound(q)'
  <2>1. CASE q \in new
    BY <2>1, <1>2, <1>3, <1>6, <1>7, <1>9 DEF RowSound, Untouched, HasRow
  <2>2. CASE q \notin new
    BY <2>2, <1>2, <1>8 DEF RunsSound, RowSound, Untouched, HasRow
  <2> QED BY <2>1, <2>2
<1>13. MessagesSound'
  <2>1. \A m \in due : m.run \in Runs /\ m.run \notin new
    BY <1>7 DEF RunsSound, MessagesSound
  <2>2. \A m \in due' : \/ m \in due
                        \/ m.run \in new /\ m = [host |-> h, run |-> m.run]
    BY <1>10
  <2>3. ASSUME NEW m \in due'
        PROVE  /\ m.run \in Runs
               /\ status'[m.run] \in {"queued", "deleted"}
               /\ work'[m.run] = "rest"
               /\ Untouched(m.run)'
    BY <2>1, <2>2, <1>2, <1>7, <1>8, <1>9 DEF RunsSound, MessagesSound, Untouched
  <2>4. \A m, n \in due' : m.run = n.run => m = n
    BY <2>1, <2>2 DEF RunsSound, MessagesSound
  <2> QED BY <2>3, <2>4 DEF MessagesSound
<1>14. OneRunPerJob'
  BY <1>8, <1>9 DEF RunsSound, OneRunPerJob
<1>15. OccurrenceQueuedOnce'
  <2> SUFFICES ASSUME NEW r \in Runs, NEW q \in Runs, HasRow(r)', HasRow(q)',
                      slot'[r] = slot'[q], slot'[r].reason = "scheduled"
               PROVE  r = q
    BY DEF OccurrenceQueuedOnce
  <2>1. CASE r \in new /\ q \in new
    BY <2>1, <1>6, <1>9
  <2>2. CASE r \notin new /\ q \notin new
    BY <2>2, <1>8 DEF RunsSound, OccurrenceQueuedOnce, HasRow
  <2>3. ASSUME NEW a \in new, NEW b \in Runs \ new, HasRow(b)', slot'[a] = slot'[b] PROVE FALSE
    <3>1. ~Taken(of(a)) /\ of(a).reason = "scheduled" /\ slot[b] = of(a) /\ HasRow(b)
      BY <2>3, <1>3, <1>6, <1>8, <1>9 DEF HasRow
    <3> QED BY <3>1 DEF Taken
  <2> QED BY <2>1, <2>2, <2>3
<1>16. SettledStay
  BY <1>7, <1>8 DEF SettledStay, Final, Settled
<1> QED BY <1>11, <1>12, <1>13, <1>14, <1>15, <1>16 DEF RunsSound

-----------------------------------------------------------------------------
LEMMA InitSound == Init => RunsSound
<1> SUFFICES ASSUME Init PROVE RunsSound
  OBVIOUS
<1>1. RunsInit /\ due = {}
  BY DEF Init
<1>2. RunsTyped
  <2>1. <<>> \in Seq(Settled)
    OBVIOUS
  <2> QED
    BY <1>1, <2>1 DEF RunsInit, RunsTyped, NoSlot, Slots, RunStages, RunStatuses, Settled, SessionStates
<1>3. \A r \in Runs : RowSound(r)
  BY <1>1 DEF RunsInit, RowSound, Untouched, HasRow
<1>4. MessagesSound /\ OneRunPerJob /\ OccurrenceQueuedOnce
  BY <1>1 DEF RunsInit, MessagesSound, OneRunPerJob, OccurrenceQueuedOnce, HasRow
<1> QED BY <1>2, <1>3, <1>4 DEF RunsSound

LEMMA NextSound == RunsSound /\ RestTyped /\ [Next]_vars => RunsSound' /\ SettledStay
<1> SUFFICES ASSUME RunsSound, RestTyped, [Next]_vars PROVE RunsSound' /\ SettledStay
  OBVIOUS
<1>1. ASSUME NEW c \in Callers, User(c) PROVE RunsSound' /\ SettledStay
  <2>1. CASE \E j \in Jobs : Delete(c, j)
    BY <2>1, DeleteSound
  <2>2. CASE \/ List(c) \/ RestartScheduler(c)
             \/ \E j \in Jobs : RunNow(c, j) \/ \E b \in BOOLEAN : Edit(c, j, b)
    BY <2>2, QuietSound DEF List, RestartScheduler, RunNow, Edit, hostVars
  <2> QED BY <1>1, <2>1, <2>2 DEF User
<1>2. ASSUME NEW c \in Callers, Operation(c) PROVE RunsSound' /\ SettledStay
  <2>1. CASE RunNowQueued(c)
    BY <2>1, RunNowQueuedSound
  <2>2. CASE ~RunNowQueued(c)
    BY <1>2, <2>2, QuietSound DEF Operation, EditWrite, EditRefused, RunNowRefused, RunNowDone,
       ReconcileDone, ReconcileJob, hostVars
  <2> QED BY <2>1, <2>2
<1>3. ASSUME NEW h \in Hosts, HostStep(h) \/ Heartbeat(h) PROVE RunsSound' /\ SettledStay
  <2>1. CASE QueueDue(h)
    BY <2>1, QueueDueSound
  <2>2. CASE ~QueueDue(h)
    BY <1>3, <2>2, QuietSound DEF HostStep, SpawnDone, Scan, Heartbeat, hostVars
  <2> QED BY <2>1, <2>2
<1>4. ASSUME NEW r \in Runs, Alone(Executor(r)) \/ Alone(Session(r)) \/ Alone(Timeout(r))
      PROVE  RunsSound' /\ SettledStay
  BY <1>4, ExecutorSound, SessionSound
<1>5. CASE Fault
  <2>1. CASE AppRestart
    BY <2>1, AppRestartSound
  <2>2. CASE \E h \in Hosts : SpawnFails(h) \/ HostExit(h)
    BY <2>2, QuietSound DEF SpawnFails, HostExit
  <2> QED BY <1>5, <2>1, <2>2 DEF Fault
<1>6. CASE IdleStop \/ RestartFires \/ Tick \/ UNCHANGED vars
  BY <1>6, QuietSound DEF IdleStop, RestartFires, Tick, vars, hostVars
<1> QED BY <1>1, <1>2, <1>3, <1>4, <1>5, <1>6, DueArrivesSound DEF Next

\* Row, await, session, timer, reports and messages of every run fit together in
\* every reachable state.
THEOREM RunsSoundAlways == Spec => []RunsSound
<1> QED BY InitSound, NextSound, RestTypedAlways, PTL DEF Spec

\* Every variable of the scheduler keeps its type.
THEOREM SchedulerTypes == Spec => []SchedulerTypeOK
<1>1. RunsSound /\ RestTyped => SchedulerTypeOK
  BY DEF RunsSound, RunsTyped, RestTyped, SchedulerTypeOK
<1> QED BY <1>1, RunsSoundAlways, RestTypedAlways, PTL

\* However scheduled and manual runs, timeouts and restarts are interleaved, a job
\* has one running row.
THEOREM OneRunPerJobAlways == Spec => []OneRunPerJob
<1>1. RunsSound => OneRunPerJob
  BY DEF RunsSound
<1> QED BY <1>1, RunsSoundAlways, PTL

\* Somebody settles every running row: the executor creates its session, or watches it.
THEOREM RunningIsCarriedAlways == Spec => []RunningIsCarried
<1>1. RunsSound => RunningIsCarried
  BY DEF RunsSound, RowSound, RunningIsCarried
<1> QED BY <1>1, RunsSoundAlways, PTL

\* Two sessions of one job overlap only while a timed-out one is cancelled, or when
\* the row of one is gone.
THEOREM SessionsDoNotOverlapAlways == Spec => []SessionsDoNotOverlap
<1>1. RunsSound => SessionsDoNotOverlap
  BY DEF RunsSound, RowSound, SessionsDoNotOverlap, OneRunPerJob
<1> QED BY <1>1, RunsSoundAlways, PTL

\* Session, timer and a late failure to start report a run once between them.
THEOREM ReportedOnceAlways == Spec => []ReportedOnce
<1>1. RunsSound => ReportedOnce
  <2> SUFFICES ASSUME RunsSound, NEW r \in Runs
               PROVE  Len(told[r]) <= 1 /\ (told[r] # <<>> => status[r] \in {told[r][1], "deleted"})
    BY DEF ReportedOnce
  <2>1. CASE told[r] = <<>>
    BY <2>1
  <2>2. CASE told[r] # <<>>
    <3>1. told[r] = <<told[r][1]>> /\ status[r] \in {told[r][1], "deleted"}
      BY <2>2 DEF RunsSound, RowSound
    <3> DEFINE first == told[r][1]
    <3>2. told[r] = <<first>>
      BY <3>1
    <3> HIDE DEF first
    <3>3. Len(told[r]) = 1
      BY <3>2
    <3> QED BY <3>1, <3>3
  <2> QED BY <2>1, <2>2
<1> QED BY <1>1, RunsSoundAlways, PTL

\* However many hosts scan the table and however next_run_at is moved, an occurrence
\* has one row.
THEOREM OccurrenceQueuedOnceAlways == Spec => []OccurrenceQueuedOnce
<1>1. RunsSound => OccurrenceQueuedOnce
  BY DEF RunsSound
<1> QED BY <1>1, RunsSoundAlways, PTL

\* No step changes a settled row but to delete it with its job.
THEOREM SettledStaysFinal == Spec => SettledIsFinal
<1>1. RunsSound /\ RestTyped /\ [Next]_vars =>
        [\A r \in Runs : status[r] \in Settled => status'[r] \in {status[r], "deleted"}]_vars
  BY NextSound DEF SettledStay, Final
<1> QED BY <1>1, RunsSoundAlways, RestTypedAlways, PTL DEF Spec, SettledIsFinal

-----------------------------------------------------------------------------
(* A queued run keeps who carries it.                                      *)

\* What may drop it.
Dropped(r) ==
  \/ faults' # faults
  \/ mgr'.host # mgr.host
  \/ OtherActive(r) /\ policy[slot[r].job].concurrency = "queue"

StaysCarried(r) ==
  status[r] = "queued" /\ Carried(r) /\ status'[r] = "queued" /\ ~Carried(r)' => Dropped(r)

\* Neither the message nor the await is lost.
LEMMA KeptIsCarried ==
  ASSUME NEW r \in Runs, due \subseteq due', work'[r] = work[r]
  PROVE  StaysCarried(r)
BY DEF StaysCarried, Carried, Dropped

LEMMA ExecutorCarries ==
  ASSUME RunsSound, NEW q \in Runs, NEW r \in Runs, Alone(Executor(r))
  PROVE  StaysCarried(q)
<1>1. UNCHANGED <<due, mgr>>
  BY DEF Alone, hostVars
<1>2. CASE q # r
  <2>1. work'[q] = work[q]
    BY <1>2 DEF Alone, Executor, Refuse, ClaimLost, ClaimBlocked, Claim, SessionCreated,
       CreateFails, SessionStarted, StartFails, Rest, RunsSound, RunsTyped
  <2> QED BY <1>1, <2>1, KeptIsCarried
<1>3. CASE q = r
  <2> SUFFICES ASSUME status[r] = "queued", Carried(r), status'[r] = "queued", ~Carried(r)'
               PROVE  OtherActive(r) /\ policy[slot[r].job].concurrency = "queue"
    BY <1>3 DEF StaysCarried, Dropped
  <2>1. work[r] = "checking"
    BY <1>1 DEF Carried
  <2>2. ~Refuse(r) /\ ~Claim(r) /\ ~ClaimLost(r)
    BY DEF Refuse, Claim, ClaimLost, Mark, HasRow, RunsSound, RunsTyped
  <2>3. ~SessionCreated(r) /\ ~CreateFails(r) /\ ~SessionStarted(r) /\ ~StartFails(r)
    BY <2>1 DEF SessionCreated, CreateFails, SessionStarted, StartFails
  <2>4. ClaimBlocked(r, policy[slot[r].job].concurrency)
    BY <2>2, <2>3 DEF Alone, Executor
  <2> QED BY <2>4 DEF ClaimBlocked, Mark, RunsSound, RunsTyped
<1> QED BY <1>2, <1>3

LEMMA DueArrivesCarries ==
  ASSUME RunsSound, NEW q \in Runs, NEW m \in due, DueArrives(m)
  PROVE  StaysCarried(q)
<1> DEFINE j == slot[m.run].job
<1>1. mgr' = mgr /\ due' = due \ {m}
  BY DEF DueArrives
<1>2. m.run \in Runs
  BY DEF RunsSound, MessagesSound
<1> SUFFICES ASSUME status[q] = "queued", Carried(q), status'[q] = "queued", ~Carried(q)'
             PROVE  FALSE
  BY DEF StaysCarried
<1>3. CASE m = [host |-> mgr.host, run |-> q]
  <2>1. ProcessDue(q, job[j].exists, job[j].enabled)
    BY <1>3 DEF DueArrives
  <2>2. work'[q] = "checking"
    BY <2>1 DEF ProcessDue, Mark, HasRow, RunsSound, RunsTyped
  <2> QED BY <2>2 DEF Carried
<1>4. CASE m # [host |-> mgr.host, run |-> q]
  <2>1. work[q] = "checking"
    BY <1>1, <1>4 DEF Carried
  <2>2. m.run # q
    BY <2>1 DEF RunsSound, MessagesSound
  <2>3. work'[q] = work[q]
    <3> DEFINE exists == job[j].exists
               enabled == job[j].enabled
    <3>1. ProcessDue(m.run, exists, enabled) \/ UNCHANGED runVars
      BY DEF DueArrives
    <3> HIDE DEF exists, enabled
    <3> QED BY <3>1, <2>2 DEF ProcessDue, runVars, RunsSound, RunsTyped
  <2> QED BY <2>1, <2>3 DEF Carried
<1> QED BY <1>3, <1>4

LEMMA NextCarries == RunsSound /\ RestTyped /\ [Next]_vars => \A r \in Runs : StaysCarried(r)
<1> SUFFICES ASSUME RunsSound, RestTyped, [Next]_vars, NEW q \in Runs PROVE StaysCarried(q)
  OBVIOUS
<1>1. ASSUME NEW c \in Callers, User(c) \/ (Operation(c) /\ ~RunNowQueued(c)) PROVE StaysCarried(q)
  <2>1. due \subseteq due' /\ work' = work
    BY <1>1 DEF User, List, RestartScheduler, Delete, DeleteRunsOf, RunNow, Edit, Operation,
       EditWrite, EditRefused, RunNowRefused, RunNowDone, ReconcileDone, ReconcileJob, hostVars, runVars
  <2> QED BY <2>1, KeptIsCarried
<1>2. ASSUME NEW c \in Callers, RunNowQueued(c) PROVE StaysCarried(q)
  <2> DEFINE s == [job |-> op[c].job, at |-> now, reason |-> "manual"]
  <2>1. PICK f \in Allocation({s}) :
          work' = [work EXCEPT ![f[s]] = IF job[op[c].job].exists THEN "checking" ELSE "rest"]
    BY <1>2 DEF RunNowQueued
  <2> HIDE DEF s
  <2>2. status[f[s]] = "none"
    BY <2>1 DEF Allocation
  <2>3. CASE q = f[s]
    BY <2>2, <2>3 DEF StaysCarried
  <2>4. CASE q # f[s]
    <3>1. work'[q] = work[q] /\ due' = due
      BY <1>2, <2>1, <2>4 DEF RunNowQueued, hostVars, RunsSound, RunsTyped
    <3> QED BY <3>1, KeptIsCarried
  <2> QED BY <2>3, <2>4
<1>3. ASSUME NEW h \in Hosts, HostStep(h) \/ Heartbeat(h) PROVE StaysCarried(q)
  <2>1. due \subseteq due' /\ work' = work
    BY <1>3 DEF HostStep, SpawnDone, Scan, QueueDue, Heartbeat, hostVars, runVars
  <2> QED BY <2>1, KeptIsCarried
<1>4. ASSUME NEW r \in Runs, Alone(Session(r)) \/ Alone(Timeout(r)) PROVE StaysCarried(q)
  <2>1. due \subseteq due' /\ work' = work
    BY <1>4 DEF Alone, hostVars, Session, SessionEnds, Cancelled, Timeout
  <2> QED BY <2>1, KeptIsCarried
<1>5. CASE Fault
  <2>1. faults' = faults + 1
    BY <1>5, Zenon DEF Fault, AppRestart, SpawnFails, HostExit, Failed
  <2>2. faults \in Nat
    BY BoundsAssumption DEF RestTyped
  <2>3. faults' # faults
    BY <2>1, <2>2
  <2> QED BY <2>3 DEF StaysCarried, Dropped
<1>6. CASE IdleStop \/ RestartFires \/ Tick \/ UNCHANGED vars
  <2>1. due \subseteq due' /\ work' = work
    BY <1>6 DEF IdleStop, RestartFires, Tick, vars, hostVars, runVars
  <2> QED BY <2>1, KeptIsCarried
<1> QED BY <1>1, <1>2, <1>3, <1>4, <1>5, <1>6, ExecutorCarries, DueArrivesCarries DEF Next

\* A queued run loses who brings it to the executor only by a fault, with its host, or
\* to a "queue" policy.
THEOREM QueuedStaysCarried == Spec => QueuedRunsStayCarried
<1>1. RunsSound /\ RestTyped /\ [Next]_vars =>
        [\A r \in Runs :
           status[r] = "queued" /\ Carried(r) /\ status'[r] = "queued" /\ ~Carried(r)'
             => \/ faults' # faults
                \/ mgr'.host # mgr.host
                \/ OtherActive(r) /\ policy[slot[r].job].concurrency = "queue"]_vars
  BY NextCarries DEF StaysCarried, Dropped
<1> QED BY <1>1, RunsSoundAlways, RestTypedAlways, PTL DEF Spec, QueuedRunsStayCarried

=============================================================================
