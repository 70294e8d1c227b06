------------------------------ MODULE JobRows ------------------------------
(***************************************************************************)
(* The rows of the background jobs as everybody else sees them: a status   *)
(* that changes now and then, without the threads, locks and sweeps that   *)
(* change it.                                                              *)
(*                                                                         *)
(* JobQueue implements this specification (ImplementsRows); JobPolling     *)
(* takes it for the server.  So what JobPolling shows of a browser tab     *)
(* holds of a tab in front of the processes of JobQueue.                   *)
(***************************************************************************)
CONSTANTS
  MaintenanceJobs,  \* jobs, named before they exist
  ReportJobs

VARIABLE status     \* status[j]: the row of j

Jobs == MaintenanceJobs \union ReportJobs

Active == {"queued", "running"}
Terminal == {"completed", "failed"}
Statuses == Active \union Terminal \union {"absent", "deleted"}

(* Rows of any age.                                                        *)
RowsInit == status \in [Jobs -> Statuses]

Become(j, from, to) == status[j] = from /\ status' = [status EXCEPT ![j] = to]

Create(j) == Become(j, "absent", "queued")
Begin(j) == Become(j, "queued", "running")
Requeue(j) == Become(j, "running", "queued")
Finish(j) == \E result \in Terminal : Become(j, "running", result)

(* A sweep has put the job of a live thread back in the queue: the thread  *)
(* writes its result all the same (JobQueue!LiveJobNotRequeued).           *)
FinishRequeued(j) == \E result \in Terminal : Become(j, "queued", result)

(* The audit record of a completed report fails: the except branch of      *)
(* _run_report_job writes a failure over the result.                       *)
AuditFails(j) == j \in ReportJobs /\ Become(j, "completed", "failed")

Delete(j) == \E s \in Active \union Terminal : Become(j, s, "deleted")

RowStep(j) ==
  \/ Create(j)
  \/ Begin(j)
  \/ Requeue(j)
  \/ Finish(j)
  \/ FinishRequeued(j)
  \/ AuditFails(j)
  \/ Delete(j)

RowsNext == \E j \in Jobs : RowStep(j)

RowsSpec == RowsInit /\ [][RowsNext]_status
=============================================================================
