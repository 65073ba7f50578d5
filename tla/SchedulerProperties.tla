------------------------ MODULE SchedulerProperties ------------------------
(***************************************************************************)
(* What the scheduler has to keep.                                         *)
(***************************************************************************)
EXTENDS Scheduler

\* Every variable keeps its type.
SchedulerTypeOK ==
  /\ now \in 0 .. MaxTime
  /\ job \in [Jobs -> Rows]
  /\ policy \in [Jobs -> Policies]
  /\ op \in [Callers -> Ops]
  /\ host \in [Hosts -> {"off", "spawning", "up"}]
  /\ found \in [Hosts -> Scans]
  /\ due \subseteq [host : Hosts, run : Runs]
  /\ mgr \in Managers
  /\ calls \in 0 .. MaxCalls
  /\ faults \in 0 .. MaxFaults
  /\ status \in [Runs -> RunStatuses]
  /\ slot \in [Runs -> Slots]
  /\ work \in [Runs -> RunStages]
  /\ runnable \in [Runs -> BOOLEAN]
  /\ watched \subseteq Runs
  /\ session \in [Runs -> SessionStates]
  /\ cancel \subseteq Runs
  /\ told \in [Runs -> Seq(Settled)]

-----------------------------------------------------------------------------
(* Runs.                                                                   *)

\* A job never has two running rows (countActiveRunsByJob in execute), however
\* its scheduled and manual runs, timeouts and restarts are interleaved.
OneRunPerJob ==
  \A r, q \in Runs :
    status[r] = "running" /\ status[q] = "running" /\ slot[r].job = slot[q].job => r = q

\* A running row is never orphaned: its session is being created, or the
\* executor watches the session with a timer.  A row that nobody would settle
\* would block its job until the next start of the app.
RunningIsCarried ==
  \A r \in Runs :
    status[r] = "running" => work[r] = "creating" \/ (r \in watched /\ session[r] = "open")

\* Sessions of one job overlap only while a timed-out one is being cancelled, or
\* after a cancellation failed, or when the row was deleted under its session.
SessionsDoNotOverlap ==
  \A r, q \in Runs :
    /\ session[r] = "open" /\ session[q] = "open"
    /\ HasRow(r) /\ HasRow(q)
    /\ slot[r].job = slot[q].job
    /\ {r, q} \intersect cancel = {}
    => r = q

\* A run is reported at most once, and only with the status its row ends in,
\* whichever of the session, the timer and a late failure to start comes first.
ReportedOnce ==
  \A r \in Runs :
    /\ Len(told[r]) <= 1
    /\ told[r] # <<>> => status[r] \in {told[r][1], "deleted"}

\* An occurrence of a job has one row, although several hosts scan the same
\* table, a host dies between queueing and posting, and next_run_at is moved back
\* by a reconciliation that read it earlier.
OccurrenceQueuedOnce ==
  \A r, q \in Runs :
    HasRow(r) /\ HasRow(q) /\ slot[r] = slot[q] /\ slot[r].reason = "scheduled" => r = q

\* A settled row is never changed again, only deleted with its job.
SettledIsFinal ==
  [][\A r \in Runs : status[r] \in Settled => status'[r] \in {status[r], "deleted"}]_vars

\* Somebody will bring the run to the executor, or is doing it.
Carried(r) == [host |-> mgr.host, run |-> r] \in due \/ work[r] = "checking"

\* A queued run that somebody carries is dropped only with what carried it: a
\* fault, the replacement of the host, or a "queue" policy that lets it wait.
QueuedRunsStayCarried ==
  [][\A r \in Runs :
       status[r] = "queued" /\ Carried(r) /\ status'[r] = "queued" /\ ~Carried(r)'
         => \/ faults' # faults
            \/ mgr'.host # mgr.host
            \/ OtherActive(r) /\ policy[slot[r].job].concurrency = "queue"]_vars

-----------------------------------------------------------------------------
(* The manager.                                                            *)

\* While there is a job to scan for, a host is there or on its way, or an
\* operation will ask for one, or the manager shows an error: the scheduler is
\* never silently dead.
HostOnItsWay ==
  Enabled(job) # {} =>
    \/ mgr.host # NoHost /\ host[mgr.host] = "up"
    \/ mgr.ready # NoHost /\ host[mgr.ready] = "spawning"
    \/ mgr.timer
    \/ \E h \in Hosts : host[h] = "spawning"
    \/ \E c \in Callers : op[c].stage \in {"running", "reconcile"}
    \/ mgr.error

-----------------------------------------------------------------------------
(* Progress.                                                               *)

\* A queued run that somebody carries is settled, blocked, deleted, or loses
\* what carried it; and a running one is settled although no agent session needs
\* to end by itself.
RunsSettle ==
  \A r \in Runs :
    /\ status[r] = "queued" /\ Carried(r) ~> status[r] # "queued" \/ ~Carried(r)
    /\ status[r] = "running" ~> status[r] # "running"

\* A due occurrence of an enabled job is dealt with, unless the manager gave up.
DueIsScanned ==
  \A j \in Jobs :
    job[j].enabled /\ job[j].next \in 1 .. now ~>
      ~job[j].enabled \/ job[j].next \notin 1 .. now \/ mgr.error

-----------------------------------------------------------------------------
(* What the repository says and the code does not keep.                    *)

\* "queues each due scheduled run once and advances next_run_at": next_run_at does
\* not move past a due occurrence of a job that is not missed by its policy
\* without a row for it.
DueIsQueued ==
  [][\A j \in Jobs :
       LET due_at == job[j].next
       IN  /\ job[j].enabled /\ due_at \in 1 .. now
           /\ due_at \in DueTimes(j, due_at, now)
           /\ job'[j].enabled /\ job'[j].next # due_at
           => \E r \in Runs : slot'[r] = [job |-> j, at |-> due_at, reason |-> "scheduled"]]_vars
=============================================================================
