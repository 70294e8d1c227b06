--------------------------- MODULE JobLifecycle ---------------------------
(***************************************************************************)
(* What the background-job subsystem of DB STAT promises about one job,    *)
(* whatever the processes, threads, locks and sweeps that carry it do:     *)
(*                                                                         *)
(*   - a job is executed by one executor at a time, and only while it has  *)
(*     no recorded result;                                                 *)
(*   - a begun execution ends in exactly one recorded result, unless a     *)
(*     fault (a process death, a failing application database) loses it,   *)
(*     and then the job is pending again;                                  *)
(*   - a recorded result is final, except that a fault in the audit write  *)
(*     that follows a finished report turns "completed" into "failed".     *)
(*                                                                         *)
(* JobQueue implements this specification (JobQueue!Lifecycle).            *)
(***************************************************************************)
EXTENDS Naturals

CONSTANTS
  Jobs,         \* identities of the job rows, of both kinds
  ReportJobs    \* the jobs whose result may be revised (PDF reports)

VARIABLES
  phase,        \* phase[j]: where job j is in its life
  faults        \* number of faults that have happened

vars == <<phase, faults>>

Phases == {"none", "pending", "executing", "completed", "failed", "deleted"}

TypeOK ==
  /\ phase \in [Jobs -> Phases]
  /\ faults \in Nat

(* A previous life of the server leaves any mixture of rows, none of them  *)
(* being executed.                                                         *)
Init ==
  /\ phase \in [Jobs -> Phases \ {"executing"}]
  /\ faults = 0

Become(j, from, to) ==
  /\ phase[j] = from
  /\ phase' = [phase EXCEPT ![j] = to]
  /\ UNCHANGED faults

Create(j) == Become(j, "none", "pending")

Begin(j) == Become(j, "pending", "executing")

Finish(j, result) == Become(j, "executing", result)

(* The executor of a finished report reports a failure after all; only an  *)
(* earlier fault lets it.                                                  *)
Revise(j) ==
  /\ j \in ReportJobs
  /\ faults > 0
  /\ Become(j, "completed", "failed")

(* An administrator deletes the row, at any moment.                        *)
Delete(j) ==
  /\ phase[j] \notin {"none", "deleted"}
  /\ phase' = [phase EXCEPT ![j] = "deleted"]
  /\ UNCHANGED faults

(* A fault loses the executions in lost (possibly none).                   *)
Fault(lost) ==
  /\ \A j \in lost : phase[j] = "executing"
  /\ phase' = [j \in Jobs |-> IF j \in lost THEN "pending" ELSE phase[j]]
  /\ faults' = faults + 1

Next ==
  \/ \E j \in Jobs :
       \/ Create(j)
       \/ Begin(j)
       \/ \E result \in {"completed", "failed"} : Finish(j, result)
       \/ Revise(j)
       \/ Delete(j)
  \/ \E lost \in SUBSET Jobs : Fault(lost)

Spec == Init /\ [][Next]_vars
=============================================================================
