----------------------------- MODULE JobQueue -----------------------------
(***************************************************************************)
(* The background jobs of DB STAT: maintenance operations (VACUUM,         *)
(* ANALYZE, EXPLAIN ANALYZE) and PDF reports.                              *)
(*                                                                         *)
(* Every server process owns two thread pools with unbounded FIFO queues,  *)
(* one per kind of job.  A job is a row of the application database, seen  *)
(* by all processes.  Work items are submitted by the request that creates *)
(* the row and by the sweep that every process runs half a second after it *)
(* starts, so several threads of several processes may hold work items for *)
(* the same job.  A thread holds the job's file lock from before the claim *)
(* (UPDATE ... WHERE status = 'queued') until it has recorded the result;  *)
(* the operating system frees the lock of a process that dies.  Sweeps,    *)
(* and the recover_maintenance_jobs command, probe that lock to find the   *)
(* rows in status "running" whose executor is gone.                        *)
(*                                                                         *)
(* One action is one statement against the database, one lock operation or *)
(* one executor call: the points between which other actors can step in.   *)
(***************************************************************************)
EXTENDS Naturals, Sequences, FiniteSets

CONSTANTS
  Procs,              \* server processes (gunicorn workers, or runserver)
  Commands,           \* invocations of recover_maintenance_jobs
  MaintenanceJobs,    \* rows of db_maintenance_job, named before they exist
  ReportJobs,         \* rows of db_report_job
  ReportKey,          \* ReportKey[j]: user, connection and language of j
  MaintenanceThreads, \* threads of MAINTENANCE_JOB_EXECUTOR in a process
  ReportThreads,      \* threads of REPORT_JOB_EXECUTOR in a process
  DeletableJobs,      \* bound: the rows an administrator may delete
  MaxFaults,          \* bound: process deaths and database errors in a run
  None                \* no lock owner, no job

Jobs == MaintenanceJobs \union ReportJobs
Kinds == {"maintenance", "report"}
Kind(j) == IF j \in MaintenanceJobs THEN "maintenance" ELSE "report"
JobsOf(kind) == {j \in Jobs : Kind(j) = kind}

(* A pool thread is named by its process, the kind of its pool, its slot.  *)
PoolSize(kind) ==
  IF kind = "maintenance" THEN MaintenanceThreads ELSE ReportThreads
ThreadsOf(p, kind) == {p} \X {kind} \X (1..PoolSize(kind))
Threads == UNION {ThreadsOf(p, kind) : p \in Procs, kind \in Kinds}
ProcOf(t) == t[1]
KindOf(t) == t[2]

(* Whoever probes locks: the start-up sweep of a process, or a command.    *)
Sweepers == Procs \union Commands

ASSUME PoolsAssumption ==
  /\ MaintenanceThreads \in Nat \ {0}
  /\ ReportThreads \in Nat \ {0}
  /\ MaxFaults \in Nat
ASSUME JobsAssumption ==
  /\ MaintenanceJobs \intersect ReportJobs = {}
  /\ DeletableJobs \subseteq Jobs
  /\ None \notin Jobs
ASSUME ActorsAssumption ==
  /\ Procs \intersect Commands = {}
  /\ Threads \intersect Sweepers = {}
  /\ None \notin Threads \union Sweepers

VARIABLES
  status,      \* status[j]: the status column of j's row, or that it is not there
  lock,        \* lock[j]: who holds the flock on <j>.lock, or None
  up,          \* up[p]: process p is running
  queue,       \* queue[p][kind]: work queue of that executor of p
  pc, work,    \* pc[t], work[t]: what thread t is doing, and for which job
  creating,    \* creating[p]: jobs whose request has passed the check for an
               \* active report and has not yet inserted the row
  submitting,  \* submitting[p]: jobs inserted by a request still to submit them
  sweepPc,     \* what a sweeper is doing,
  sweepKind,   \*   for which kind of job,
  sweepTodo,   \*   which rows of its last query are still to be handled,
  sweepJob,    \*   and the row in hand
  faults       \* process deaths and failed statements so far

rows == <<status, lock>>
threadVars == <<pc, work>>
requestVars == <<creating, submitting>>
sweepVars == <<sweepPc, sweepKind, sweepTodo, sweepJob>>
vars == <<status, lock, up, queue, pc, work, creating, submitting,
          sweepPc, sweepKind, sweepTodo, sweepJob, faults>>

Active == {"queued", "running"}
Terminal == {"completed", "failed"}
Statuses == Active \union Terminal \union {"absent", "deleted"}

ThreadPcs == {"idle", "locking", "claiming", "loading", "executing",
              "rescuing", "auditing", "releasing"}
(* Where with_job_lock has the lock.                                       *)
Holding == ThreadPcs \ {"idle", "locking"}
(* Where the claim has been won.                                           *)
Working == {"loading", "executing", "rescuing", "auditing"}

SweepPcs == {"armed", "probing", "probed", "resetting", "listing",
             "submitting", "off"}

TypeOK ==
  /\ status \in [Jobs -> Statuses]
  /\ lock \in [Jobs -> Threads \union Sweepers \union {None}]
  /\ up \in [Procs -> BOOLEAN]
  /\ queue \in [Procs -> [Kinds -> Seq(Jobs)]]
  /\ pc \in [Threads -> ThreadPcs]
  /\ work \in [Threads -> Jobs \union {None}]
  /\ creating \in [Procs -> SUBSET ReportJobs]
  /\ submitting \in [Procs -> SUBSET Jobs]
  /\ sweepPc \in [Sweepers -> SweepPcs]
  /\ sweepKind \in [Sweepers -> Kinds]
  /\ sweepTodo \in [Sweepers -> SUBSET Jobs]
  /\ sweepJob \in [Sweepers -> Jobs \union {None}]
  /\ faults \in 0..MaxFaults

(* The server is down; its database holds what a previous life left there, *)
(* rows in status "running" without an executor included.  A command may   *)
(* be invoked once.                                                        *)
Init ==
  /\ status \in [Jobs -> Statuses]
  /\ lock = [j \in Jobs |-> None]
  /\ up = [p \in Procs |-> FALSE]
  /\ queue = [p \in Procs |-> [kind \in Kinds |-> <<>>]]
  /\ pc = [t \in Threads |-> "idle"]
  /\ work = [t \in Threads |-> None]
  /\ creating = [p \in Procs |-> {}]
  /\ submitting = [p \in Procs |-> {}]
  /\ sweepPc \in [Sweepers -> {"off", "armed"}]
  /\ \A p \in Procs : sweepPc[p] = "off"
  /\ sweepKind = [s \in Sweepers |-> "maintenance"]
  /\ sweepTodo = [s \in Sweepers |-> {}]
  /\ sweepJob = [s \in Sweepers |-> None]
  /\ faults = 0

(* Mutant of SetStatus: the column is written without its value.           *)
SetStatusMutant(j, value) == status' = [status EXCEPT ![j] = None]

(* An UPDATE ... WHERE pk = j: it changes nothing when the row is gone.    *)
SetStatus(j, value) ==
  status' = [status EXCEPT ![j] = IF @ = "deleted" THEN @ ELSE value]

(* executor.submit: never blocks, the queue of a pool is unbounded.        *)
Enqueue(p, j) == queue' = [queue EXCEPT ![p][Kind(j)] = Append(@, j)]

Fault == faults < MaxFaults /\ faults' = faults + 1

-----------------------------------------------------------------------------
(* Requests.                                                               *)

(* POST of a maintenance operation: the row is inserted; the audit record  *)
(* and the submission follow in the same request.                          *)
RequestMaintenance(p, j) ==
  /\ up[p]
  /\ j \in MaintenanceJobs
  /\ status[j] = "absent"
  /\ status' = [status EXCEPT ![j] = "queued"]
  /\ submitting' = [submitting EXCEPT ![p] = @ \union {j}]
  /\ UNCHANGED <<lock, up, queue, threadVars, creating, sweepVars, faults>>

(* POST of a report: an active report of the same user, connection and     *)
(* language is returned instead of a new one (no state change).            *)
CheckReport(p, j) ==
  /\ up[p]
  /\ j \in ReportJobs
  /\ status[j] = "absent"
  /\ \A q \in Procs : j \notin creating[q]
  /\ \A i \in ReportJobs :
       ReportKey[i] = ReportKey[j] => status[i] \notin Active
  /\ creating' = [creating EXCEPT ![p] = @ \union {j}]
  /\ UNCHANGED <<rows, up, queue, threadVars, submitting, sweepVars, faults>>

CreateReport(p, j) ==
  /\ j \in creating[p]
  /\ creating' = [creating EXCEPT ![p] = @ \ {j}]
  /\ status' = [status EXCEPT ![j] = "queued"]
  /\ submitting' = [submitting EXCEPT ![p] = @ \union {j}]
  /\ UNCHANGED <<lock, up, queue, threadVars, sweepVars, faults>>

Submit(p, j) ==
  /\ j \in submitting[p]
  /\ submitting' = [submitting EXCEPT ![p] = @ \ {j}]
  /\ Enqueue(p, j)
  /\ UNCHANGED <<rows, up, threadVars, creating, sweepVars, faults>>

(* The INSERT of a report, or the audit record written between the INSERT  *)
(* and the submission of a maintenance operation, raises: the request ends *)
(* in an error and what it had inserted stays.                             *)
RequestFails(p, j) ==
  /\ Fault
  /\ \/ /\ j \in creating[p]
        /\ creating' = [creating EXCEPT ![p] = @ \ {j}]
        /\ UNCHANGED submitting
     \/ /\ j \in submitting[p] \intersect MaintenanceJobs
        /\ submitting' = [submitting EXCEPT ![p] = @ \ {j}]
        /\ UNCHANGED creating
  /\ UNCHANGED <<rows, up, queue, threadVars, sweepVars>>

-----------------------------------------------------------------------------
(* Pool threads: _run_maintenance_operation and _run_report_job.           *)

Goto(t, from, to) == pc[t] = from /\ pc' = [pc EXCEPT ![t] = to]

(* Every step of a thread leaves these alone.                              *)
ThreadFrame == UNCHANGED <<up, requestVars, sweepVars>>

Take(t) ==
  LET p == ProcOf(t)
      kind == KindOf(t)
  IN  /\ up[p]
      /\ queue[p][kind] # <<>>
      /\ Goto(t, "idle", "locking")
      /\ work' = [work EXCEPT ![t] = Head(queue[p][kind])]
      /\ queue' = [queue EXCEPT ![p][kind] = Tail(@)]
      /\ UNCHANGED <<rows, faults>>
      /\ ThreadFrame

(* Mutant of Lock: the thread does not wait for the lock.                  *)
LockMutant(t) ==
  /\ Goto(t, "locking", "claiming")
  /\ lock' = [lock EXCEPT ![work[t]] = t]
  /\ UNCHANGED <<status, queue, work, faults>>
  /\ ThreadFrame

(* The blocking flock: the thread waits in its slot until the lock is free.*)
Lock(t) ==
  /\ Goto(t, "locking", "claiming")
  /\ lock[work[t]] = None
  /\ lock' = [lock EXCEPT ![work[t]] = t]
  /\ UNCHANGED <<status, queue, work, faults>>
  /\ ThreadFrame

(* Mutant of ClaimWon: the UPDATE without its WHERE status = 'queued'.      *)
ClaimAlways(t) ==
  /\ Goto(t, "claiming", "loading")
  /\ SetStatus(work[t], "running")
  /\ UNCHANGED <<lock, queue, work, faults>>
  /\ ThreadFrame

ClaimWon(t) ==
  /\ Goto(t, "claiming", "loading")
  /\ status[work[t]] = "queued"
  /\ status' = [status EXCEPT ![work[t]] = "running"]
  /\ UNCHANGED <<lock, queue, work, faults>>
  /\ ThreadFrame

ClaimLost(t) ==
  /\ Goto(t, "claiming", "releasing")
  /\ status[work[t]] # "queued"
  /\ UNCHANGED <<rows, queue, work, faults>>
  /\ ThreadFrame

(* The row is read after the claim and outside the try block.              *)
Load(t) ==
  /\ Goto(t, "loading", "executing")
  /\ status[work[t]] # "deleted"
  /\ UNCHANGED <<rows, queue, work, faults>>
  /\ ThreadFrame

LoadDeleted(t) ==
  /\ Goto(t, "loading", "releasing")
  /\ status[work[t]] = "deleted"
  /\ UNCHANGED <<rows, queue, work, faults>>
  /\ ThreadFrame

(* The outcome is written whatever the status column says by now.          *)
RecordMaintenance(t, result) ==
  /\ KindOf(t) = "maintenance"
  /\ Goto(t, "executing", "auditing")
  /\ SetStatus(work[t], result)
  /\ UNCHANGED <<lock, queue, work, faults>>
  /\ ThreadFrame

RecordReport(t) ==
  /\ KindOf(t) = "report"
  /\ Goto(t, "executing", "auditing")
  /\ SetStatus(work[t], "completed")
  /\ UNCHANGED <<lock, queue, work, faults>>
  /\ ThreadFrame

(* Mutant of BuildFails: no except branch marks the report failed.         *)
BuildFailsMutant(t) ==
  /\ KindOf(t) = "report"
  /\ Goto(t, "executing", "releasing")
  /\ UNCHANGED <<rows, queue, work, faults>>
  /\ ThreadFrame

(* Collecting or building the report raises: the except branch follows.    *)
BuildFails(t) ==
  /\ KindOf(t) = "report"
  /\ Goto(t, "executing", "rescuing")
  /\ UNCHANGED <<rows, queue, work, faults>>
  /\ ThreadFrame

Rescue(t) ==
  /\ Goto(t, "rescuing", "releasing")
  /\ SetStatus(work[t], "failed")
  /\ UNCHANGED <<lock, queue, work, faults>>
  /\ ThreadFrame

Audit(t) ==
  /\ Goto(t, "auditing", "releasing")
  /\ UNCHANGED <<rows, queue, work, faults>>
  /\ ThreadFrame

(* Mutant of Release: the lock stays with the thread.                      *)
ReleaseMutant(t) ==
  /\ Goto(t, "releasing", "idle")
  /\ work' = [work EXCEPT ![t] = None]
  /\ UNCHANGED <<rows, queue, faults>>
  /\ ThreadFrame


Release(t) ==
  /\ Goto(t, "releasing", "idle")
  /\ lock' = [lock EXCEPT ![work[t]] = None]
  /\ work' = [work EXCEPT ![t] = None]
  /\ UNCHANGED <<status, queue, faults>>
  /\ ThreadFrame

(* A statement against the application database raises.  Only the report   *)
(* has its result and its audit record inside the try block; everywhere    *)
(* else the exception ends the work item and with_job_lock's finally runs. *)
StatementFails(t) ==
  /\ Fault
  /\ pc[t] \in Holding \ {"releasing"}
  /\ pc' = [pc EXCEPT ![t] =
              IF KindOf(t) = "report" /\ @ \in {"executing", "auditing"}
              THEN "rescuing" ELSE "releasing"]
  /\ UNCHANGED <<rows, queue, work>>
  /\ ThreadFrame

(* The lock file cannot be opened: the work item ends without the lock.    *)
LockFails(t) ==
  /\ Fault
  /\ Goto(t, "locking", "idle")
  /\ work' = [work EXCEPT ![t] = None]
  /\ UNCHANGED <<rows, queue>>
  /\ ThreadFrame

-----------------------------------------------------------------------------
(* Sweeps: _resubmit_queued_jobs in a process, recover_maintenance_jobs.   *)

SweepFrame == UNCHANGED <<up, threadVars, requestVars>>

RowsWith(kind, value) == {j \in JobsOf(kind) : status[j] = value}

(* Ends a sweeper, as it was before it started.                            *)
SweepEnds(s) ==
  /\ sweepPc' = [sweepPc EXCEPT ![s] = "off"]
  /\ sweepKind' = [sweepKind EXCEPT ![s] = "maintenance"]
  /\ sweepTodo' = [sweepTodo EXCEPT ![s] = {}]
  /\ sweepJob' = [sweepJob EXCEPT ![s] = None]

(* A sweep works on a snapshot of the rows in status "running".            *)
SweepStart(s) ==
  /\ sweepPc[s] = "armed"
  /\ sweepPc' = [sweepPc EXCEPT ![s] = "probing"]
  /\ sweepTodo' = [sweepTodo EXCEPT ![s] = RowsWith("maintenance", "running")]
  /\ UNCHANGED <<rows, queue, sweepKind, sweepJob, faults>>
  /\ SweepFrame

(* job_owner_alive: a non-blocking flock.  Busy means alive ...            *)
ProbeBusy(s, j) ==
  /\ sweepPc[s] = "probing"
  /\ j \in sweepTodo[s]
  /\ lock[j] # None
  /\ sweepTodo' = [sweepTodo EXCEPT ![s] = @ \ {j}]
  /\ UNCHANGED <<rows, queue, sweepPc, sweepKind, sweepJob, faults>>
  /\ SweepFrame

(* ... and when it is free the prober holds it for a moment itself.        *)
ProbeFree(s, j) ==
  /\ sweepPc[s] = "probing"
  /\ j \in sweepTodo[s]
  /\ lock[j] = None
  /\ lock' = [lock EXCEPT ![j] = s]
  /\ sweepPc' = [sweepPc EXCEPT ![s] = "probed"]
  /\ sweepTodo' = [sweepTodo EXCEPT ![s] = @ \ {j}]
  /\ sweepJob' = [sweepJob EXCEPT ![s] = j]
  /\ UNCHANGED <<status, queue, sweepKind, faults>>
  /\ SweepFrame

ProbeRelease(s) ==
  /\ sweepPc[s] = "probed"
  /\ lock' = [lock EXCEPT ![sweepJob[s]] = None]
  /\ sweepPc' = [sweepPc EXCEPT ![s] = "resetting"]
  /\ UNCHANGED <<status, queue, sweepKind, sweepTodo, sweepJob, faults>>
  /\ SweepFrame

(* Mutants of Reset: the UPDATE without its WHERE status = 'running'; the  *)
(* sweep its docstring describes, which never resets.                      *)
ResetUnconditionally(s) ==
  /\ sweepPc[s] = "resetting"
  /\ SetStatus(sweepJob[s], "queued")
  /\ sweepPc' = [sweepPc EXCEPT ![s] = "probing"]
  /\ sweepJob' = [sweepJob EXCEPT ![s] = None]
  /\ UNCHANGED <<lock, queue, sweepKind, sweepTodo, faults>>
  /\ SweepFrame
ResetNever(s) ==
  /\ sweepPc[s] = "resetting"
  /\ sweepPc' = [sweepPc EXCEPT ![s] = "probing"]
  /\ sweepJob' = [sweepJob EXCEPT ![s] = None]
  /\ UNCHANGED <<rows, queue, sweepKind, sweepTodo, faults>>
  /\ SweepFrame

(* UPDATE ... SET status = 'queued' WHERE pk = j AND status = 'running'.   *)
Reset(s) ==
  /\ sweepPc[s] = "resetting"
  /\ LET j == sweepJob[s]
     IN  status' = [status EXCEPT ![j] = IF @ = "running" THEN "queued" ELSE @]
  /\ sweepPc' = [sweepPc EXCEPT ![s] = "probing"]
  /\ sweepJob' = [sweepJob EXCEPT ![s] = None]
  /\ UNCHANGED <<lock, queue, sweepKind, sweepTodo, faults>>
  /\ SweepFrame

(* After the maintenance rows, the report rows.                            *)
SweepReports(s) ==
  /\ sweepPc[s] = "probing"
  /\ sweepTodo[s] = {}
  /\ sweepKind[s] = "maintenance"
  /\ sweepKind' = [sweepKind EXCEPT ![s] = "report"]
  /\ sweepTodo' = [sweepTodo EXCEPT ![s] = RowsWith("report", "running")]
  /\ UNCHANGED <<rows, queue, sweepPc, sweepJob, faults>>
  /\ SweepFrame

ProbesDone(s) ==
  /\ sweepPc[s] = "probing"
  /\ sweepTodo[s] = {}
  /\ sweepKind[s] = "report"

(* The command stops here: it submits nothing.                             *)
CommandEnds(s) ==
  /\ s \in Commands
  /\ ProbesDone(s)
  /\ SweepEnds(s)
  /\ UNCHANGED <<rows, queue, faults>>
  /\ SweepFrame

ListMaintenance(s) ==
  /\ s \in Procs
  /\ ProbesDone(s)
  /\ sweepPc' = [sweepPc EXCEPT ![s] = "listing"]
  /\ sweepTodo' = [sweepTodo EXCEPT ![s] = RowsWith("maintenance", "queued")]
  /\ UNCHANGED <<rows, queue, sweepKind, sweepJob, faults>>
  /\ SweepFrame

ListReports(s) ==
  /\ sweepPc[s] = "listing"
  /\ sweepPc' = [sweepPc EXCEPT ![s] = "submitting"]
  /\ sweepTodo' = [sweepTodo EXCEPT ![s] = @ \union RowsWith("report", "queued")]
  /\ UNCHANGED <<rows, queue, sweepKind, sweepJob, faults>>
  /\ SweepFrame

Resubmit(s, j) ==
  /\ s \in Procs
  /\ sweepPc[s] = "submitting"
  /\ j \in sweepTodo[s]
  /\ j \in ReportJobs => sweepTodo[s] \subseteq ReportJobs
  /\ sweepTodo' = [sweepTodo EXCEPT ![s] = @ \ {j}]
  /\ Enqueue(s, j)
  /\ UNCHANGED <<rows, sweepPc, sweepKind, sweepJob, faults>>
  /\ SweepFrame

SweepDone(s) ==
  /\ sweepPc[s] = "submitting"
  /\ sweepTodo[s] = {}
  /\ SweepEnds(s)
  /\ UNCHANGED <<rows, queue, faults>>
  /\ SweepFrame

(* A query or a lock file raises: the rest of the sweep does not happen.   *)
SweepFails(s) ==
  /\ Fault
  /\ sweepPc[s] \in {"armed", "probing", "resetting", "listing"}
  /\ SweepEnds(s)
  /\ UNCHANGED <<rows, queue>>
  /\ SweepFrame

-----------------------------------------------------------------------------
(* Processes.                                                              *)

(* The kernel frees the flock of a process that dies.                      *)
FreeLocksOf(owners) ==
  lock' = [j \in Jobs |-> IF lock[j] \in owners THEN None ELSE lock[j]]

(* gunicorn starts a worker, or its replacement: ready() arms the sweep.   *)
Start(p) ==
  /\ ~up[p]
  /\ up' = [up EXCEPT ![p] = TRUE]
  /\ sweepPc' = [sweepPc EXCEPT ![p] = "armed"]
  /\ UNCHANGED <<rows, queue, threadVars, requestVars, sweepKind, sweepTodo,
                 sweepJob, faults>>

(* SIGKILL: queues, threads, requests and sweep of the process are gone.   *)
Crash(p) ==
  LET mine == {t \in Threads : ProcOf(t) = p}
  IN  /\ up[p]
      /\ Fault
      /\ up' = [up EXCEPT ![p] = FALSE]
      /\ FreeLocksOf(mine \union {p})
      /\ queue' = [queue EXCEPT ![p] = [kind \in Kinds |-> <<>>]]
      /\ pc' = [t \in Threads |-> IF t \in mine THEN "idle" ELSE pc[t]]
      /\ work' = [t \in Threads |-> IF t \in mine THEN None ELSE work[t]]
      /\ creating' = [creating EXCEPT ![p] = {}]
      /\ submitting' = [submitting EXCEPT ![p] = {}]
      /\ SweepEnds(p)
      /\ UNCHANGED status

CommandKilled(c) ==
  /\ sweepPc[c] # "off"
  /\ Fault
  /\ FreeLocksOf({c})
  /\ SweepEnds(c)
  /\ UNCHANGED <<status, queue>>
  /\ SweepFrame

(* Django's admin: a job's row, or its connection's with a cascade.        *)
DeleteRow(j) ==
  /\ j \in DeletableJobs
  /\ status[j] \notin {"absent", "deleted"}
  /\ status' = [status EXCEPT ![j] = "deleted"]
  /\ UNCHANGED <<lock, up, queue, threadVars, requestVars, sweepVars, faults>>

-----------------------------------------------------------------------------
RequestStep(p, j) ==
  \/ RequestMaintenance(p, j)
  \/ CheckReport(p, j)
  \/ CreateReport(p, j)
  \/ Submit(p, j)
  \/ RequestFails(p, j)

ThreadStep(t) ==
  \/ Take(t)
  \/ Lock(t)
  \/ ClaimWon(t)
  \/ ClaimLost(t)
  \/ Load(t)
  \/ LoadDeleted(t)
  \/ \E result \in Terminal : RecordMaintenance(t, result)
  \/ RecordReport(t)
  \/ BuildFails(t)
  \/ Rescue(t)
  \/ Audit(t)
  \/ Release(t)

SweepStep(s) ==
  \/ SweepStart(s)
  \/ \E j \in Jobs : ProbeBusy(s, j) \/ ProbeFree(s, j) \/ Resubmit(s, j)
  \/ ProbeRelease(s)
  \/ Reset(s)
  \/ SweepReports(s)
  \/ CommandEnds(s)
  \/ ListMaintenance(s)
  \/ ListReports(s)
  \/ SweepDone(s)

Next ==
  \/ \E p \in Procs, j \in Jobs : RequestStep(p, j)
  \/ \E t \in Threads : ThreadStep(t) \/ StatementFails(t) \/ LockFails(t)
  \/ \E s \in Sweepers : SweepStep(s) \/ SweepFails(s)
  \/ \E p \in Procs : Start(p) \/ Crash(p)
  \/ \E c \in Commands : CommandKilled(c)
  \/ \E j \in Jobs : DeleteRow(j)

Spec == Init /\ [][Next]_vars

(* Threads and requests are scheduled, a started sweep or command runs on, *)
(* and the gunicorn master replaces a dead worker.  Requests, commands,    *)
(* faults and deletions may never happen.                                  *)
Fairness ==
  /\ \A t \in Threads : WF_vars(ThreadStep(t))
  /\ \A p \in Procs : WF_vars(SweepStep(p)) /\ WF_vars(Start(p))
  /\ \A c \in Commands : WF_vars(sweepPc[c] # "armed" /\ SweepStep(c))
  /\ \A p \in Procs, j \in Jobs : WF_vars(CreateReport(p, j) \/ Submit(p, j))

LiveSpec == Spec /\ Fairness

-----------------------------------------------------------------------------
(* Properties.                                                             *)

(* Two work items for one job, in any two threads of any processes, are    *)
(* never both past a won claim: VACUUM FULL or a report never runs twice   *)
(* at once (db/settings.py:216-221, job_locks.py:74-78).                   *)
OneExecutor ==
  \A t, u \in Threads :
    /\ pc[t] \in Working
    /\ pc[u] \in Working
    /\ work[t] = work[u]
    => t = u

(* A recorded result is final: no late claim, no sweep with a stale        *)
(* snapshot and no other thread puts the job back to work or replaces a    *)
(* failure by a success.  A completed job can only turn failed, or go.     *)
ResultIsFinal ==
  [][\A j \in Jobs :
       /\ status[j] = "completed" => status'[j] \in {"completed", "failed", "deleted"}
       /\ status[j] = "failed" => status'[j] \in {"failed", "deleted"}]_vars

(* The life of every job as JobLifecycle describes it.                     *)
Executing(j) ==
  \E t \in Threads : work[t] = j /\ pc[t] \in {"loading", "executing", "rescuing"}

Phase ==
  [j \in Jobs |->
     CASE status[j] = "absent" -> "none"
       [] status[j] \in Active /\ Executing(j) -> "executing"
       [] status[j] \in Active /\ ~Executing(j) -> "pending"
       [] OTHER -> status[j]]

Lifecycle == INSTANCE JobLifecycle WITH phase <- Phase

(* Threads, locks, sweeps, crashes and restarts implement JobLifecycle: an *)
(* execution begins only from pending, is lost only to a fault, and ends   *)
(* in one recorded result.                                                 *)
ImplementsLifecycle == Lifecycle!Spec

Rows == INSTANCE JobRows

(* Whatever the processes do, a row moves as JobRows says, the server that *)
(* JobPolling puts a browser tab in front of: a job    *)
(* with a result, in particular, never becomes active again, whoever still *)
(* has a claim, a snapshot or a record to write (maintenance.py:95, 155).  *)
ImplementsRows == Rows!RowsSpec

(* A job is taken care of when its row is queued and a work item for it is *)
(* on its way in a live process, or when it is being executed.             *)
WorkItem(j) ==
  \/ \E p \in Procs : j \in submitting[p]
  \/ \E p \in Procs : \E n \in 1..Len(queue[p][Kind(j)]) : queue[p][Kind(j)][n] = j
  \/ \E t \in Threads : work[t] = j /\ pc[t] \in {"locking", "claiming"}

TakenCareOf(j) ==
  \/ status[j] = "queued" /\ WorkItem(j)
  \/ status[j] \in Active /\ Executing(j)

(* Without further faults a job that is taken care of gets its result,     *)
(* however many threads wait for its lock and whatever else waits behind   *)
(* them in the same pool (no deadlock between slots and locks).            *)
TakenCareOfFinishes ==
  \A j \in Jobs, n \in 0..MaxFaults :
    (TakenCareOf(j) /\ faults = n) ~> (status[j] \notin Active \/ faults > n)

(* After a stop of the whole server every job it left queued or running    *)
(* gets its result once the processes are back, unless there are further   *)
(* faults, and if the recovery command is over before they start, as in    *)
(* docker-entrypoint.sh (a command that probes during a sweep makes the    *)
(* sweep skip the job and does not submit it).                             *)
ServerDown == \A p \in Procs : ~up[p]
NoCommand == \A c \in Commands : sweepPc[c] = "off"

RestartRecovers ==
  \A j \in Jobs, n \in 0..MaxFaults :
    (status[j] \in Active /\ faults = n /\ ServerDown /\ NoCommand)
      ~> (status[j] \notin Active \/ faults > n)

(* What apps.py:98-99 and recover_maintenance_jobs.py:11-12 say: a job is  *)
(* put back in the queue only if its executor is gone, a live one is left  *)
(* alone.                                                                  *)
LiveJobNotRequeued ==
  [][\A j \in Jobs :
       status[j] = "running" /\ status'[j] = "queued" => ~Executing(j)]_vars

(* What the comment at maintenance.py:143-148 says of maintenance jobs: an *)
(* error in the thread always still marks the job failed, it is not left   *)
(* "running" by a thread that lives on.                                    *)
ErrorsAreRecorded ==
  [][\A t \in Threads :
       /\ KindOf(t) = "maintenance"
       /\ pc[t] \in Working
       /\ pc'[t] = "releasing"
       => status'[work[t]] # "running"]_vars
=============================================================================
