-------------------------- MODULE JobQueue_proofs --------------------------
(***************************************************************************)
(* What TLAPS proves about JobQueue, for any number of processes, threads, *)
(* recovery commands, jobs and faults: its types and invariants, and that  *)
(* it implements JobLifecycle and JobRows.                                 *)
(***************************************************************************)
EXTENDS JobQueue, TLAPS

(* A thread belongs to a process and to one of the two pools.              *)
LEMMA ThreadNames ==
  \A t \in Threads : ProcOf(t) \in Procs /\ KindOf(t) \in Kinds
BY DEF Threads, ThreadsOf, ProcOf, KindOf, Kinds

(* The kind of a job is the name of one of the two pools.                  *)
LEMMA KindNames == \A j : Kind(j) \in Kinds
BY DEF Kind, Kinds

(* Appending a job to one queue leaves every queue a sequence of jobs.     *)
LEMMA EnqueueType ==
  ASSUME queue \in [Procs -> [Kinds -> Seq(Jobs)]],
         NEW p \in Procs, NEW j \in Jobs, Enqueue(p, j)
  PROVE  queue' \in [Procs -> [Kinds -> Seq(Jobs)]]
BY KindNames DEF Enqueue

(* An ended sweeper is well typed.                                         *)
LEMMA SweepEndsType ==
  ASSUME TypeOK, NEW s \in Sweepers, SweepEnds(s)
  PROVE  /\ sweepPc' \in [Sweepers -> SweepPcs]
         /\ sweepKind' \in [Sweepers -> Kinds]
         /\ sweepTodo' \in [Sweepers -> SUBSET Jobs]
         /\ sweepJob' \in [Sweepers -> Jobs \union {None}]
BY DEF TypeOK, SweepEnds, SweepPcs, Kinds

(* Rows with a status are jobs.                                            *)
LEMMA RowsAreJobs == \A kind, value : RowsWith(kind, value) \subseteq Jobs
BY DEF RowsWith, JobsOf

(* The count of faults stays within its bound.                             *)
LEMMA FaultType ==
  ASSUME TypeOK, Fault
  PROVE  faults' \in 0..MaxFaults
BY PoolsAssumption DEF TypeOK, Fault

(* The initial states are well typed.                                      *)
LEMMA TypeInit == Init => TypeOK
BY PoolsAssumption
   DEF Init, TypeOK, Statuses, Active, Terminal, ThreadPcs, SweepPcs, Kinds

(* A request keeps the types.                                              *)
LEMMA TypeRequest ==
  ASSUME TypeOK, NEW p \in Procs, NEW j \in Jobs, RequestStep(p, j)
  PROVE  TypeOK'
<1> USE DEF TypeOK, rows, threadVars, sweepVars
<1>1. CASE RequestMaintenance(p, j)
  BY <1>1 DEF RequestMaintenance, Statuses, Active
<1>2. CASE CheckReport(p, j)
  BY <1>2 DEF CheckReport
<1>3. CASE CreateReport(p, j)
  BY <1>3 DEF CreateReport, Statuses, Active
<1>4. CASE Submit(p, j)
  BY <1>4, EnqueueType DEF Submit
<1>5. CASE RequestFails(p, j)
  <2>1. creating' \in [Procs -> SUBSET ReportJobs]
    BY <1>5 DEF RequestFails
  <2>2. submitting' \in [Procs -> SUBSET Jobs]
    BY <1>5 DEF RequestFails
  <2> QED
    BY <1>5, <2>1, <2>2, FaultType DEF RequestFails
<1> QED
  BY <1>1, <1>2, <1>3, <1>4, <1>5 DEF RequestStep

(* A step of a pool thread keeps the types.                                *)
LEMMA TypeThread ==
  ASSUME TypeOK, NEW t \in Threads,
         ThreadStep(t) \/ StatementFails(t) \/ LockFails(t)
  PROVE  TypeOK'
<1> USE ThreadNames
    DEF TypeOK, rows, threadVars, sweepVars, requestVars, ThreadFrame, Goto,
        ThreadPcs
<1>1. CASE Take(t)
  <2> DEFINE q == queue[ProcOf(t)][KindOf(t)]
  <2>1. q \in Seq(Jobs) /\ q # <<>>
    BY <1>1 DEF Take
  <2>2. Head(q) \in Jobs /\ Tail(q) \in Seq(Jobs)
    BY <2>1
  <2> QED
    BY <1>1, <2>2 DEF Take
<1>2. CASE Lock(t)
  BY <1>2 DEF Lock
<1>3. CASE ClaimWon(t)
  BY <1>3 DEF ClaimWon, Statuses, Active
<1>4. CASE ClaimLost(t)
  BY <1>4 DEF ClaimLost
<1>5. CASE Load(t)
  BY <1>5 DEF Load
<1>6. CASE LoadDeleted(t)
  BY <1>6 DEF LoadDeleted
<1>7. ASSUME NEW result \in Terminal, RecordMaintenance(t, result)
      PROVE  TypeOK'
  BY <1>7 DEF RecordMaintenance, SetStatus, Statuses
<1>8. CASE RecordReport(t) \/ BuildFails(t) \/ Rescue(t) \/ Audit(t)
  <2>1. CASE RecordReport(t)
    BY <2>1 DEF RecordReport, SetStatus, Statuses, Terminal
  <2>2. CASE BuildFails(t)
    BY <2>2 DEF BuildFails
  <2>3. CASE Rescue(t)
    BY <2>3 DEF Rescue, SetStatus, Statuses, Terminal
  <2>4. CASE Audit(t)
    BY <2>4 DEF Audit
  <2> QED
    BY <1>8, <2>1, <2>2, <2>3, <2>4
<1>9. CASE Release(t)
  BY <1>9 DEF Release
<1>10. CASE StatementFails(t)
  BY <1>10, FaultType DEF StatementFails
<1>11. CASE LockFails(t)
  BY <1>11, FaultType DEF LockFails
<1> QED
  BY <1>1, <1>2, <1>3, <1>7, <1>8, <1>9, <1>10, <1>4, <1>5, <1>6, <1>11
     DEF ThreadStep

(* A step of a sweep or of the recovery command keeps the types.           *)
LEMMA TypeSweep ==
  ASSUME TypeOK, NEW s \in Sweepers, SweepStep(s) \/ SweepFails(s)
  PROVE  TypeOK'
<1> USE RowsAreJobs
    DEF TypeOK, rows, threadVars, requestVars, SweepFrame, SweepPcs, Kinds
<1>1. CASE SweepStart(s)
  BY <1>1 DEF SweepStart
<1>2. CASE SweepReports(s)
  BY <1>2 DEF SweepReports
<1>3. CASE ListMaintenance(s)
  BY <1>3 DEF ListMaintenance
<1>4. CASE ListReports(s)
  <2>1. sweepTodo[s] \union RowsWith("report", "queued") \subseteq Jobs
    OBVIOUS
  <2> QED
    BY <1>4, <2>1 DEF ListReports
<1>5. ASSUME NEW j \in Jobs, ProbeBusy(s, j)
      PROVE  TypeOK'
  <2>1. sweepTodo[s] \ {j} \subseteq Jobs
    OBVIOUS
  <2> QED
    BY <1>5, <2>1 DEF ProbeBusy
<1>6. ASSUME NEW j \in Jobs, ProbeFree(s, j)
       PROVE  TypeOK'
  <2>1. sweepTodo[s] \ {j} \subseteq Jobs
    OBVIOUS
  <2> QED
    BY <1>6, <2>1 DEF ProbeFree
<1>7. ASSUME NEW j \in Jobs, Resubmit(s, j)
      PROVE  TypeOK'
  BY <1>7, EnqueueType DEF Resubmit
<1>8. CASE ProbeRelease(s)
  BY <1>8 DEF ProbeRelease
<1>9. CASE Reset(s)
  BY <1>9 DEF Reset, Statuses, Active
<1>10. CASE CommandEnds(s) \/ SweepDone(s)
  BY <1>10, SweepEndsType DEF CommandEnds, SweepDone
<1>11. CASE SweepFails(s)
  BY <1>11, SweepEndsType, FaultType DEF SweepFails
<1> QED
  BY <1>1, <1>5, <1>7, <1>8, <1>10, <1>11, <1>2, <1>3, <1>4, <1>6, <1>9
     DEF SweepStep

(* Starts, deaths and deletions keep the types.                            *)
LEMMA TypeProcess ==
  ASSUME TypeOK,
         \/ \E p \in Procs : Start(p) \/ Crash(p)
         \/ \E c \in Commands : CommandKilled(c)
         \/ \E j \in Jobs : DeleteRow(j)
  PROVE  TypeOK'
<1> USE DEF TypeOK, rows, threadVars, requestVars, sweepVars, SweepFrame,
            Sweepers
<1>1. ASSUME NEW p \in Procs, Start(p)
      PROVE  TypeOK'
  BY <1>1 DEF Start, SweepPcs
<1>2. ASSUME NEW p \in Procs, Crash(p)
      PROVE  TypeOK'
  <2>1. queue' \in [Procs -> [Kinds -> Seq(Jobs)]]
    BY <1>2 DEF Crash
  <2>2. pc' \in [Threads -> ThreadPcs] /\ work' \in [Threads -> Jobs \union {None}]
    BY <1>2 DEF Crash, ThreadPcs
  <2>3. lock' \in [Jobs -> Threads \union Sweepers \union {None}]
    BY <1>2 DEF Crash, FreeLocksOf
  <2>4. faults' \in 0..MaxFaults
    BY <1>2, FaultType DEF Crash
  <2>5. /\ up' \in [Procs -> BOOLEAN]
        /\ creating' \in [Procs -> SUBSET ReportJobs]
        /\ submitting' \in [Procs -> SUBSET Jobs]
        /\ status' = status
    BY <1>2 DEF Crash
  <2>6. SweepEnds(p)
    BY <1>2 DEF Crash
  <2> QED
    BY <2>1, <2>2, <2>3, <2>4, <2>5, <2>6, SweepEndsType
<1>3. ASSUME NEW c \in Commands, CommandKilled(c)
      PROVE  TypeOK'
  <2>1. lock' \in [Jobs -> Threads \union Sweepers \union {None}]
    BY <1>3 DEF CommandKilled, FreeLocksOf
  <2> QED
    BY <1>3, <2>1, SweepEndsType, FaultType DEF CommandKilled
<1>4. ASSUME NEW j \in Jobs, DeleteRow(j)
      PROVE  TypeOK'
  BY <1>4 DEF DeleteRow, Statuses
<1> QED
  BY <1>1, <1>2, <1>3, <1>4

(* TypeOK is inductive.                                                    *)
LEMMA TypeStep == TypeOK /\ [Next]_vars => TypeOK'
<1> SUFFICES ASSUME TypeOK, [Next]_vars
             PROVE  TypeOK'
  OBVIOUS
<1>1. CASE UNCHANGED vars
  BY <1>1 DEF TypeOK, vars
<1>2. CASE Next
  BY <1>2, TypeRequest, TypeThread, TypeSweep, TypeProcess DEF Next
<1> QED
  BY <1>1, <1>2

(* Every variable of the job queue keeps its type, for any number of       *)
(* processes, threads, commands, jobs and faults.                          *)
THEOREM TypeCorrect == Spec => []TypeOK
BY TypeInit, TypeStep, PTL DEF Spec

-----------------------------------------------------------------------------
(***************************************************************************)
(* Mutual exclusion and the finality of results.  OneExecutor is not       *)
(* inductive: it follows from who holds the lock, and that a sweep's probe *)
(* never frees a lock it does not hold; ResultIsFinal needs in addition    *)
(* that a thread about to write a result finds no earlier one.             *)
(***************************************************************************)

(* A thread past the lock holds it.                                        *)
LockHeld ==
  \A t \in Threads :
    /\ pc[t] # "idle" => work[t] \in Jobs
    /\ pc[t] \in Holding => lock[work[t]] = t

(* A sweeper between probe and release holds the lock it probed.           *)
ProbeHeld ==
  \A s \in Sweepers :
    sweepPc[s] = "probed" => sweepJob[s] \in Jobs /\ lock[sweepJob[s]] = s

(* The row in the hands of a thread exists or existed, and until the       *)
(* thread writes one there is no result in it.                             *)
RowOpen ==
  \A t \in Threads :
    /\ pc[t] \in Working => status[work[t]] # "absent"
    /\ pc[t] \in {"loading", "executing"} => status[work[t]] \notin Terminal

(* A report about to be inserted is not there, and no other request is     *)
(* about to insert it.                                                     *)
CreatingNew ==
  \A p \in Procs : \A j \in creating[p] :
    /\ status[j] = "absent"
    /\ \A q \in Procs : j \in creating[q] => q = p

IInv == TypeOK /\ LockHeld /\ ProbeHeld /\ RowOpen /\ CreatingNew

(* The lock has one holder.                                                *)
LEMMA OneHolder ==
  ASSUME LockHeld, NEW t \in Threads, NEW u \in Threads,
         pc[t] \in Holding, pc[u] \in Holding, work[t] = work[u]
  PROVE  t = u
BY DEF LockHeld

(* Nobody works on a job before the first process has started.             *)
LEMMA InvInit == Init => IInv
BY TypeInit DEF Init, IInv, LockHeld, ProbeHeld, RowOpen, CreatingNew, Holding,
                Working, ThreadPcs, Sweepers

(* A request touches only rows that are not there yet.                     *)
LEMMA InvRequest ==
  ASSUME IInv, NEW p \in Procs, NEW j \in Jobs, RequestStep(p, j)
  PROVE  IInv'
<1> USE DEF IInv, LockHeld, ProbeHeld, RowOpen, CreatingNew, rows, threadVars,
            sweepVars, Holding, Working, ThreadPcs, Terminal
<1>0. TypeOK'
  BY TypeRequest
<1> USE DEF TypeOK
<1>1. CASE RequestMaintenance(p, j)
  <2>1. \A q \in Procs : j \notin creating[q]
    BY <1>1, JobsAssumption DEF RequestMaintenance
  <2> QED
    BY <1>0, <1>1, <2>1 DEF RequestMaintenance
<1>2. CASE CheckReport(p, j)
  BY <1>0, <1>2 DEF CheckReport
<1>3. CASE CreateReport(p, j)
  <2>1. status[j] = "absent" /\ \A q \in Procs \ {p} : j \notin creating[q]
    BY <1>3 DEF CreateReport
  <2>2. LockHeld' /\ ProbeHeld' /\ RowOpen'
    BY <1>3, <2>1 DEF CreateReport
  <2>3. CreatingNew'
    BY <1>3, <2>1 DEF CreateReport
  <2> QED
    BY <1>0, <2>2, <2>3
<1>4. CASE Submit(p, j)
  BY <1>0, <1>4 DEF Submit
<1>5. CASE RequestFails(p, j)
  <2>1. \/ creating' = creating
        \/ creating' = [creating EXCEPT ![p] = @ \ {j}]
    BY <1>5 DEF RequestFails
  <2>2. ASSUME NEW q \in Procs, NEW i \in creating'[q]
        PROVE  i \in creating[q]
    <3>1. CASE creating' = creating
      BY <3>1
    <3>2. CASE creating' = [creating EXCEPT ![p] = @ \ {j}]
      <4>1. creating'[q] = IF q = p THEN creating[p] \ {j} ELSE creating[q]
        BY <3>2
      <4> QED
        BY <4>1
    <3> QED
      BY <2>1, <3>1, <3>2
  <2>3. UNCHANGED <<status, lock, pc, work, sweepPc, sweepJob>>
    BY <1>5 DEF RequestFails
  <2> QED
    BY <1>0, <2>2, <2>3
<1> QED
  BY <1>1, <1>2, <1>3, <1>4, <1>5 DEF RequestStep

(* A thread writes a row only under its lock.                              *)
LEMMA InvThread ==
  ASSUME IInv, NEW t \in Threads,
         ThreadStep(t) \/ StatementFails(t) \/ LockFails(t)
  PROVE  IInv'
<1>0. TypeOK'
  BY TypeThread DEF IInv
<1> USE ActorsAssumption, OneHolder
    DEF IInv, TypeOK, LockHeld, ProbeHeld, RowOpen, CreatingNew, rows,
        sweepVars, requestVars, ThreadFrame, Goto, Holding, Working,
        ThreadPcs, Terminal
<1>1. CASE Take(t)
  <2>1. work'[t] \in Jobs
    <3>1. queue[ProcOf(t)][KindOf(t)] \in Seq(Jobs)
      BY ThreadNames
    <3> QED
      BY <1>1, <3>1 DEF Take
  <2> QED
    BY <1>0, <1>1, <2>1 DEF Take
<1>2. CASE Lock(t)
  BY <1>0, <1>2 DEF Lock
<1>3. CASE ClaimWon(t)
  BY <1>0, <1>3 DEF ClaimWon
<1>4. CASE ClaimLost(t)
  BY <1>0, <1>4 DEF ClaimLost
<1>5. CASE Load(t)
  BY <1>0, <1>5 DEF Load
<1>6. CASE LoadDeleted(t)
  BY <1>0, <1>6 DEF LoadDeleted
<1>7. ASSUME NEW result \in Terminal, RecordMaintenance(t, result)
      PROVE  IInv'
  BY <1>0, <1>7 DEF RecordMaintenance, SetStatus
<1>8. CASE RecordReport(t)
  <2>1. \A u \in Threads \ {t} : pc[u] \in Holding => work[u] # work[t]
    BY <1>8 DEF RecordReport
  <2>2. RowOpen'
    BY <1>8, <2>1 DEF RecordReport, SetStatus
  <2>3. LockHeld' /\ ProbeHeld' /\ CreatingNew'
    BY <1>8 DEF RecordReport, SetStatus
  <2> QED
    BY <1>0, <2>2, <2>3
<1>9. CASE BuildFails(t)
  BY <1>0, <1>9 DEF BuildFails
<1>10. CASE Rescue(t)
  BY <1>0, <1>10 DEF Rescue, SetStatus
<1>11. CASE Audit(t)
  BY <1>0, <1>11 DEF Audit
<1>12. CASE Release(t)
  <2>1. lock[work[t]] = t
    BY <1>12 DEF Release
  <2>2. \A u \in Threads \ {t} : pc[u] \in Holding => work[u] # work[t]
    BY <1>12 DEF Release
  <2>3. LockHeld'
    BY <1>12, <2>2 DEF Release
  <2>4. ProbeHeld'
    BY <1>12, <2>1 DEF Release
  <2>5. RowOpen' /\ CreatingNew'
    BY <1>12 DEF Release
  <2> QED
    BY <1>0, <2>3, <2>4, <2>5
<1>13. CASE StatementFails(t)
  BY <1>0, <1>13 DEF StatementFails
<1>14. CASE LockFails(t)
  BY <1>0, <1>14 DEF LockFails
<1> QED
  BY <1>1, <1>2, <1>3, <1>4, <1>5, <1>6, <1>7, <1>8, <1>9, <1>10, <1>11,
     <1>12, <1>13, <1>14 DEF ThreadStep

(* A sweep takes only free locks, frees only its own, and resets only rows *)
(* in status "running".                                                    *)
LEMMA InvSweep ==
  ASSUME IInv, NEW s \in Sweepers, SweepStep(s) \/ SweepFails(s)
  PROVE  IInv'
<1>0. TypeOK'
  BY TypeSweep DEF IInv
<1> USE ActorsAssumption
    DEF IInv, TypeOK, LockHeld, ProbeHeld, RowOpen, CreatingNew, rows,
        threadVars, requestVars, SweepFrame, Holding, Working, ThreadPcs,
        Terminal, SweepPcs
<1>1. CASE SweepStart(s)
  BY <1>0, <1>1 DEF SweepStart
<1>2. ASSUME NEW j \in Jobs, ProbeBusy(s, j)
      PROVE  IInv'
  BY <1>0, <1>2 DEF ProbeBusy
<1>3. ASSUME NEW j \in Jobs, ProbeFree(s, j)
      PROVE  IInv'
  BY <1>0, <1>3 DEF ProbeFree
<1>4. ASSUME NEW j \in Jobs, Resubmit(s, j)
      PROVE  IInv'
  BY <1>0, <1>4 DEF Resubmit
<1>5. CASE ProbeRelease(s)
  <2>1. lock[sweepJob[s]] = s
    BY <1>5 DEF ProbeRelease
  <2>2. LockHeld'
    BY <1>5, <2>1 DEF ProbeRelease
  <2>3. ProbeHeld'
    BY <1>5, <2>1 DEF ProbeRelease
  <2>4. RowOpen' /\ CreatingNew'
    BY <1>5 DEF ProbeRelease
  <2> QED
    BY <1>0, <2>2, <2>3, <2>4
<1>6. CASE Reset(s)
  BY <1>0, <1>6 DEF Reset
<1>7. CASE SweepReports(s)
  BY <1>0, <1>7 DEF SweepReports
<1>8. CASE CommandEnds(s)
  BY <1>0, <1>8 DEF CommandEnds, SweepEnds
<1>9. CASE ListMaintenance(s)
  BY <1>0, <1>9 DEF ListMaintenance, ProbesDone
<1>10. CASE ListReports(s)
  BY <1>0, <1>10 DEF ListReports
<1>11. CASE SweepDone(s)
  BY <1>0, <1>11 DEF SweepDone, SweepEnds
<1>12. CASE SweepFails(s)
  BY <1>0, <1>12 DEF SweepFails, SweepEnds
<1> QED
  BY <1>1, <1>2, <1>3, <1>4, <1>5, <1>6, <1>7, <1>8, <1>9, <1>10, <1>11,
     <1>12 DEF SweepStep

(* A death frees the locks of the dead and nobody else's.                  *)
LEMMA InvProcess ==
  ASSUME IInv,
         \/ \E p \in Procs : Start(p) \/ Crash(p)
         \/ \E c \in Commands : CommandKilled(c)
         \/ \E j \in Jobs : DeleteRow(j)
  PROVE  IInv'
<1>0. TypeOK'
  BY TypeProcess DEF IInv
<1> USE ActorsAssumption
    DEF IInv, TypeOK, LockHeld, ProbeHeld, RowOpen, CreatingNew, rows,
        threadVars, requestVars, sweepVars, SweepFrame, Holding, Working,
        ThreadPcs, Terminal, Sweepers
<1>1. ASSUME NEW p \in Procs, Start(p)
      PROVE  IInv'
  BY <1>0, <1>1 DEF Start
<1>2. ASSUME NEW p \in Procs, Crash(p)
      PROVE  IInv'
  <2> DEFINE mine == {t \in Threads : ProcOf(t) = p}
  <2>1. /\ lock' = [j \in Jobs |-> IF lock[j] \in mine \union {p} THEN None ELSE lock[j]]
        /\ pc' = [t \in Threads |-> IF t \in mine THEN "idle" ELSE pc[t]]
        /\ work' = [t \in Threads |-> IF t \in mine THEN None ELSE work[t]]
        /\ creating' = [creating EXCEPT ![p] = {}]
        /\ sweepPc' = [sweepPc EXCEPT ![p] = "off"]
        /\ sweepJob' = [sweepJob EXCEPT ![p] = None]
        /\ status' = status
    BY <1>2 DEF Crash, FreeLocksOf, SweepEnds
  <2>2. LockHeld'
    BY <2>1
  <2>3. ProbeHeld'
    BY <2>1
  <2>4. RowOpen'
    BY <2>1
  <2>5. CreatingNew'
    BY <2>1
  <2> QED
    BY <1>0, <2>2, <2>3, <2>4, <2>5
<1>3. ASSUME NEW c \in Commands, CommandKilled(c)
      PROVE  IInv'
  BY <1>0, <1>3 DEF CommandKilled, FreeLocksOf, SweepEnds
<1>4. ASSUME NEW j \in Jobs, DeleteRow(j)
      PROVE  IInv'
  BY <1>0, <1>4 DEF DeleteRow
<1> QED
  BY <1>1, <1>2, <1>3, <1>4

(* IInv is inductive.                                                      *)
LEMMA InvStep == IInv /\ [Next]_vars => IInv'
<1> SUFFICES ASSUME IInv, [Next]_vars
             PROVE  IInv'
  OBVIOUS
<1>1. CASE UNCHANGED vars
  BY <1>1 DEF IInv, TypeOK, LockHeld, ProbeHeld, RowOpen, CreatingNew, vars
<1>2. CASE Next
  BY <1>2, InvRequest, InvThread, InvSweep, InvProcess DEF Next
<1> QED
  BY <1>1, <1>2

(* IInv holds in every reachable state.                                    *)
THEOREM Invariance == Spec => []IInv
BY InvInit, InvStep, PTL DEF Spec

(* No job is ever executed by two threads at once, however many processes, *)
(* work items, sweeps, recovery commands, deaths and restarts there are.   *)
THEOREM MutualExclusion == Spec => []OneExecutor
<1>1. IInv => OneExecutor
  BY OneHolder DEF IInv, OneExecutor, Working, Holding, ThreadPcs
<1> QED
  BY <1>1, Invariance, PTL

(* What ResultIsFinal says of one step.                                    *)
FinalStep ==
  \A j \in Jobs :
    /\ status[j] = "completed" => status'[j] \in {"completed", "failed", "deleted"}
    /\ status[j] = "failed" => status'[j] \in {"failed", "deleted"}

(* Every write of the status column respects a result that is there.       *)
LEMMA FinalStepHolds == IInv /\ [Next]_vars => FinalStep
<1> SUFFICES ASSUME IInv, [Next]_vars
             PROVE  FinalStep
  OBVIOUS
<1> USE DEF FinalStep, IInv, TypeOK, rows, threadVars, sweepVars, requestVars
<1>1. CASE status' = status
  BY <1>1
<1>2. ASSUME NEW p \in Procs, NEW j \in Jobs, RequestStep(p, j)
      PROVE  FinalStep
  <2>1. CASE RequestMaintenance(p, j)
    BY <2>1 DEF RequestMaintenance
  <2>2. CASE CreateReport(p, j)
    BY <2>2 DEF CreateReport, CreatingNew
  <2> QED
    BY <1>1, <1>2, <2>1, <2>2 DEF RequestStep, CheckReport, Submit, RequestFails
<1>3. ASSUME NEW t \in Threads, ThreadStep(t) \/ StatementFails(t) \/ LockFails(t)
      PROVE  FinalStep
  <2> USE DEF Goto, LockHeld, RowOpen, Working, Terminal, ThreadPcs, Holding
  <2>1. CASE ClaimWon(t)
    BY <2>1 DEF ClaimWon
  <2>2. ASSUME NEW result \in Terminal, RecordMaintenance(t, result)
        PROVE  FinalStep
    BY <2>2 DEF RecordMaintenance, SetStatus
  <2>3. CASE RecordReport(t)
    <3>1. status[work[t]] \notin Terminal
      BY <2>3 DEF RecordReport
    <3> QED
      BY <2>3, <3>1 DEF RecordReport, SetStatus
  <2>4. CASE Rescue(t)
    BY <2>4 DEF Rescue, SetStatus
  <2> QED
    BY <1>1, <1>3, <2>1, <2>2, <2>3, <2>4
       DEF ThreadStep, StatementFails, LockFails, Take, Lock, ClaimLost, Load,
           LoadDeleted, BuildFails, Audit, Release
<1>4. ASSUME NEW s \in Sweepers, SweepStep(s) \/ SweepFails(s)
      PROVE  FinalStep
  <2>1. CASE Reset(s)
    BY <2>1 DEF Reset
  <2> QED
    BY <1>1, <1>4, <2>1
       DEF SweepStep, SweepFails, SweepStart, ProbeBusy, ProbeFree, Resubmit,
           ProbeRelease, SweepReports, CommandEnds, ListMaintenance,
           ListReports, SweepDone
<1>5. ASSUME NEW j \in Jobs, DeleteRow(j)
      PROVE  FinalStep
  BY <1>5 DEF DeleteRow
<1> QED
  BY <1>1, <1>2, <1>3, <1>4, <1>5 DEF Next, vars, Start, Crash, CommandKilled

(* A recorded result is never undone by a late claim, by a sweep that acts *)
(* on an old snapshot, or by another thread.                               *)
THEOREM ResultsAreFinal == Spec => ResultIsFinal
<1>1. IInv /\ [Next]_vars => [FinalStep]_vars
  BY FinalStepHolds
<1>2. Spec => [][FinalStep]_vars
  BY <1>1, Invariance, PTL DEF Spec
<1> QED
  BY <1>2 DEF ResultIsFinal, FinalStep

-----------------------------------------------------------------------------
(***************************************************************************)
(* Nobody waits for a lock in vain, and no job is forgotten: the safety    *)
(* part of TakenCareOfFinishes, whose rest is fairness.                    *)
(***************************************************************************)

(* A lock is with a thread that works on its job, or with a sweeper at its *)
(* probe: neither waits for another lock.                                  *)
OwnsLock(j, owner) ==
  \/ owner \in Threads /\ work[owner] = j /\ pc[owner] \in Holding
  \/ owner \in Sweepers /\ sweepJob[owner] = j /\ sweepPc[owner] = "probed"

LocksOwned == \A j \in Jobs : lock[j] # None => OwnsLock(j, lock[j])

(* What a process keeps in its memory is gone with it.                     *)
OnlyLiving ==
  /\ \A t \in Threads : pc[t] # "idle" => up[ProcOf(t)]
  /\ \A p \in Procs : ~up[p] =>
       /\ sweepPc[p] = "off"
       /\ creating[p] = {} /\ submitting[p] = {}
       /\ \A kind \in Kinds : queue[p][kind] = <<>>

LocksAreOwned == LocksOwned /\ OnlyLiving

LEMMA OwnedRequest ==
  ASSUME IInv, LocksAreOwned, NEW p \in Procs, NEW j \in Jobs, RequestStep(p, j)
  PROVE  LocksAreOwned'
<1> USE DEF IInv, TypeOK, rows, threadVars, sweepVars
<1>1. UNCHANGED <<lock, pc, work, up, sweepPc, sweepJob>>
  BY DEF RequestStep, RequestMaintenance, CheckReport, CreateReport, Submit, RequestFails
<1>2. LocksOwned'
  BY <1>1 DEF LocksAreOwned, LocksOwned, OwnsLock
<1>3. up[p]
  BY DEF RequestStep, RequestMaintenance, CheckReport, CreateReport, Submit, RequestFails,
         LocksAreOwned, OnlyLiving
<1>4. \A q \in Procs \ {p} : /\ creating'[q] = creating[q] /\ submitting'[q] = submitting[q]
                             /\ \A kind \in Kinds : queue'[q][kind] = queue[q][kind]
  BY DEF RequestStep, RequestMaintenance, CheckReport, CreateReport, Submit, RequestFails,
         Enqueue
<1>5. \A t \in Threads : pc'[t] # "idle" => up'[ProcOf(t)]
  BY <1>1 DEF LocksAreOwned, OnlyLiving
<1>6. ASSUME NEW q \in Procs, ~up'[q]
      PROVE  /\ sweepPc'[q] = "off"
             /\ creating'[q] = {} /\ submitting'[q] = {}
             /\ \A kind \in Kinds : queue'[q][kind] = <<>>
  <2>1. ~up[q] /\ q \in Procs \ {p} /\ sweepPc'[q] = sweepPc[q]
    BY <1>1, <1>3, <1>6
  <2> QED
    BY <1>4, <2>1 DEF LocksAreOwned, OnlyLiving
<1> QED
  BY <1>2, <1>5, <1>6 DEF LocksAreOwned, OnlyLiving

LEMMA OwnedThread ==
  ASSUME IInv, LocksAreOwned, NEW t \in Threads,
         ThreadStep(t) \/ StatementFails(t) \/ LockFails(t)
  PROVE  LocksAreOwned'
<1> USE ActorsAssumption
    DEF IInv, TypeOK, LockHeld, LocksAreOwned, LocksOwned, OwnsLock, rows, sweepVars,
        requestVars, ThreadFrame, Goto, Holding, ThreadPcs, Sweepers
<1>0. /\ UNCHANGED <<up, creating, submitting, sweepPc, sweepJob>>
      /\ up[ProcOf(t)]
      /\ \A u \in Threads \ {t} : pc'[u] = pc[u] /\ work'[u] = work[u]
      /\ pc[t] # "idle" => work[t] \in Jobs
  BY DEF ThreadStep, Take, Lock, ClaimWon, ClaimLost, Load, LoadDeleted, RecordMaintenance,
         RecordReport, BuildFails, Rescue, Audit, Release, StatementFails, LockFails,
         OnlyLiving
<1>1. \A q \in Procs : ~up[q] => \A kind \in Kinds : queue'[q][kind] = queue[q][kind]
  <2>1. Take(t) \/ UNCHANGED queue
    BY DEF ThreadStep, Lock, ClaimWon, ClaimLost, Load, LoadDeleted, RecordMaintenance,
           RecordReport, BuildFails, Rescue, Audit, Release, StatementFails, LockFails
  <2>2. \A q \in Procs \ {ProcOf(t)} : queue'[q] = queue[q]
    BY <2>1 DEF Take
  <2> SUFFICES ASSUME NEW q \in Procs, ~up[q]
               PROVE  queue'[q] = queue[q]
    OBVIOUS
  <2>3. q # ProcOf(t)
    BY <1>0
  <2> QED
    BY <2>2, <2>3
<1>2. OnlyLiving'
  BY <1>0, <1>1 DEF OnlyLiving
<1>3. CASE Take(t)
  BY <1>0, <1>2, <1>3 DEF Take
<1>4. CASE Lock(t)
  BY <1>0, <1>2, <1>4 DEF Lock
<1>5. CASE Release(t)
  BY <1>0, <1>2, <1>5 DEF Release
<1>6. CASE LockFails(t)
  BY <1>0, <1>2, <1>6 DEF LockFails
<1>7. CASE UNCHANGED <<lock, work>> /\ pc[t] \in Holding /\ pc'[t] \in Holding
  BY <1>0, <1>2, <1>7
<1>8. ClaimWon(t) \/ ClaimLost(t) \/ Load(t) \/ LoadDeleted(t) \/ StatementFails(t)
        => UNCHANGED <<lock, work>> /\ pc[t] \in Holding /\ pc'[t] \in Holding
  BY DEF ClaimWon, ClaimLost, Load, LoadDeleted, StatementFails
<1>9. (\E result \in Terminal : RecordMaintenance(t, result)) \/ RecordReport(t)
      \/ BuildFails(t) \/ Rescue(t) \/ Audit(t)
        => UNCHANGED <<lock, work>> /\ pc[t] \in Holding /\ pc'[t] \in Holding
  BY DEF RecordMaintenance, RecordReport, BuildFails, Rescue, Audit
<1> QED
  BY <1>3, <1>4, <1>5, <1>6, <1>7, <1>8, <1>9 DEF ThreadStep

LEMMA OwnedSweep ==
  ASSUME IInv, LocksAreOwned, NEW s \in Sweepers, SweepStep(s) \/ SweepFails(s)
  PROVE  LocksAreOwned'
<1> USE ActorsAssumption
    DEF IInv, TypeOK, ProbeHeld, LocksAreOwned, LocksOwned, OwnsLock, rows, threadVars,
        requestVars, SweepFrame, SweepEnds, ProbesDone
<1>0. /\ UNCHANGED <<up, creating, submitting, pc, work>>
      /\ \A r \in Sweepers \ {s} : sweepPc'[r] = sweepPc[r] /\ sweepJob'[r] = sweepJob[r]
      /\ s \in Procs => up[s]
  BY DEF SweepStep, SweepStart, ProbeBusy, ProbeFree, Resubmit, ProbeRelease, Reset,
         SweepReports, CommandEnds, ListMaintenance, ListReports, SweepDone, SweepFails,
         OnlyLiving
<1>1. \A q \in Procs : ~up[q] => \A kind \in Kinds : queue'[q][kind] = queue[q][kind]
  <2>1. (\E j \in Jobs : Resubmit(s, j)) \/ UNCHANGED queue
    BY DEF SweepStep, SweepStart, ProbeBusy, ProbeFree, ProbeRelease, Reset, SweepReports,
           CommandEnds, ListMaintenance, ListReports, SweepDone, SweepFails
  <2>2. \A q \in Procs \ {s} : queue'[q] = queue[q]
    BY <2>1 DEF Resubmit, Enqueue
  <2>3. (\E j \in Jobs : Resubmit(s, j)) => up[s]
    BY <1>0 DEF Resubmit
  <2> QED
    BY <1>0, <2>1, <2>2, <2>3
<1>2. OnlyLiving'
  <2>1. ASSUME NEW q \in Procs, ~up'[q]
        PROVE  /\ sweepPc'[q] = "off"
               /\ creating'[q] = {} /\ submitting'[q] = {}
               /\ \A kind \in Kinds : queue'[q][kind] = <<>>
    <3>1. ~up[q] /\ q \in Sweepers \ {s}
      BY <1>0, <2>1 DEF Sweepers
    <3> QED
      BY <1>0, <1>1, <3>1 DEF OnlyLiving
  <2> QED
    BY <1>0, <2>1 DEF OnlyLiving
<1>3. ASSUME NEW j \in Jobs, ProbeFree(s, j) PROVE LocksOwned'
  BY <1>0, <1>3 DEF ProbeFree
<1>4. ASSUME ProbeRelease(s) PROVE LocksOwned'
  BY <1>0, <1>4 DEF ProbeRelease
<1>5. ASSUME UNCHANGED lock, sweepPc[s] # "probed" PROVE LocksOwned'
  BY <1>0, <1>5
<1>6. \/ \E j \in Jobs : ProbeFree(s, j)
      \/ ProbeRelease(s)
      \/ UNCHANGED lock /\ sweepPc[s] # "probed"
  BY DEF SweepStep, SweepStart, ProbeBusy, ProbeFree, Resubmit, ProbeRelease, Reset,
         SweepReports, CommandEnds, ListMaintenance, ListReports, SweepDone, SweepFails
<1> QED
  BY <1>2, <1>3, <1>4, <1>5, <1>6

(* Who dies leaves no lock, no queue and no request.                       *)
LEMMA OwnedProcess ==
  ASSUME IInv, LocksAreOwned,
         \/ \E p \in Procs : Start(p) \/ Crash(p)
         \/ \E c \in Commands : CommandKilled(c)
         \/ \E j \in Jobs : DeleteRow(j)
  PROVE  LocksAreOwned'
<1> USE ActorsAssumption
    DEF IInv, TypeOK, LocksAreOwned, LocksOwned, OwnsLock, rows, threadVars, requestVars,
        sweepVars, SweepFrame, SweepEnds, FreeLocksOf, Sweepers
<1>1. ASSUME NEW p \in Procs, Start(p) PROVE LocksAreOwned'
  BY <1>1 DEF Start, OnlyLiving
<1>2. ASSUME NEW p \in Procs, Crash(p) PROVE LocksAreOwned'
  <2> DEFINE mine == {t \in Threads : ProcOf(t) = p}
  <2>1. /\ lock' = [j \in Jobs |-> IF lock[j] \in mine \union {p} THEN None ELSE lock[j]]
        /\ pc' = [t \in Threads |-> IF t \in mine THEN "idle" ELSE pc[t]]
        /\ work' = [t \in Threads |-> IF t \in mine THEN None ELSE work[t]]
        /\ sweepPc' = [sweepPc EXCEPT ![p] = "off"]
        /\ sweepJob' = [sweepJob EXCEPT ![p] = None]
    BY <1>2 DEF Crash
  <2>2. LocksOwned'
    BY <2>1
  <2>3. /\ up' = [up EXCEPT ![p] = FALSE]
        /\ queue' = [queue EXCEPT ![p] = [kind \in Kinds |-> <<>>]]
        /\ creating' = [creating EXCEPT ![p] = {}]
        /\ submitting' = [submitting EXCEPT ![p] = {}]
    BY <1>2 DEF Crash
  <2>4. \A t \in Threads : pc'[t] # "idle" => up'[ProcOf(t)]
    BY <2>1, <2>3, ThreadNames DEF OnlyLiving
  <2>5. \A q \in Procs : ~up'[q] =>
          /\ sweepPc'[q] = "off"
          /\ creating'[q] = {} /\ submitting'[q] = {}
          /\ \A kind \in Kinds : queue'[q][kind] = <<>>
    BY <2>1, <2>3 DEF OnlyLiving
  <2> QED
    BY <2>2, <2>4, <2>5 DEF OnlyLiving
<1>3. ASSUME NEW c \in Commands, CommandKilled(c) PROVE LocksAreOwned'
  <2>1. LocksOwned'
    BY <1>3 DEF CommandKilled
  <2>2. OnlyLiving'
    BY <1>3 DEF CommandKilled, OnlyLiving
  <2> QED
    BY <2>1, <2>2
<1>4. ASSUME NEW j \in Jobs, DeleteRow(j) PROVE LocksAreOwned'
  BY <1>4 DEF DeleteRow, OnlyLiving
<1> QED
  BY <1>1, <1>2, <1>3, <1>4

(* A job's lock is never held by the dead, by an idle thread, by one that  *)
(* works on another job, or by one that waits for a lock itself: whoever   *)
(* waits, waits for somebody who does not (with_job_lock, job_owner_alive).*)
THEOREM LocksNeverStray == Spec => []LocksAreOwned
<1>1. Init => LocksAreOwned
  BY DEF Init, LocksAreOwned, LocksOwned, OnlyLiving
<1>2. IInv /\ LocksAreOwned /\ [Next]_vars => LocksAreOwned'
  <2> SUFFICES ASSUME IInv, LocksAreOwned, [Next]_vars PROVE LocksAreOwned'
    OBVIOUS
  <2>1. CASE UNCHANGED vars
    BY <2>1 DEF vars, LocksAreOwned, LocksOwned, OwnsLock, OnlyLiving
  <2>2. CASE Next
    BY <2>2, OwnedRequest, OwnedThread, OwnedSweep, OwnedProcess DEF Next
  <2> QED
    BY <2>1, <2>2
<1> QED
  BY <1>1, <1>2, Invariance, PTL DEF Spec

(* The work items of a job, by where they are.                             *)
Submitted(j) == \E p \in Procs : j \in submitting[p]
InQueue(j) == \E p \in Procs : \E n \in 1..Len(queue[p][Kind(j)]) : queue[p][Kind(j)][n] = j
InThread(j) == \E t \in Threads : work[t] = j /\ pc[t] \in {"locking", "claiming"}

LEMMA WorkItems ==
  \A j : /\ WorkItem(j) <=> Submitted(j) \/ InQueue(j) \/ InThread(j)
         /\ WorkItem(j)' <=> Submitted(j)' \/ InQueue(j)' \/ InThread(j)'
BY DEF WorkItem, Submitted, InQueue, InThread

CareStep ==
  \A j \in Jobs :
    TakenCareOf(j) => TakenCareOf(j)' \/ status'[j] \notin Active \/ faults' > faults

(* What is in a queue stays in it as more is appended, ...                 *)
LEMMA EnqueueKeeps ==
  ASSUME TypeOK, NEW p \in Procs, NEW i \in Jobs, Enqueue(p, i), NEW j \in Jobs
  PROVE  InQueue(i)' /\ (InQueue(j) => InQueue(j)')
<1> USE KindNames
<1>1. /\ queue'[p][Kind(i)] = Append(queue[p][Kind(i)], i)
      /\ \A q \in Procs, kind \in Kinds :
           q # p \/ kind # Kind(i) => queue'[q][kind] = queue[q][kind]
  BY DEF Enqueue, TypeOK
<1>2. \A q \in Procs, kind \in Kinds : queue[q][kind] \in Seq(Jobs)
  BY DEF TypeOK
<1> DEFINE s == queue[p][Kind(i)]
<1>3. s \in Seq(Jobs)
  BY <1>2
<1>4. /\ Len(Append(s, i)) = Len(s) + 1 /\ Append(s, i)[Len(s) + 1] = i
      /\ \A n \in 1..Len(s) : Append(s, i)[n] = s[n]
      /\ Len(s) \in Nat
  BY <1>3
<1> HIDE DEF s
<1>5. InQueue(i)'
  <2>1. Len(s) + 1 \in 1..Len(queue'[p][Kind(i)]) /\ queue'[p][Kind(i)][Len(s) + 1] = i
    BY <1>1, <1>4 DEF s
  <2> QED
    BY <2>1 DEF InQueue
<1>6. ASSUME InQueue(j) PROVE InQueue(j)'
  <2>0. PICK q \in Procs : \E n \in 1..Len(queue[q][Kind(j)]) : queue[q][Kind(j)][n] = j
    BY <1>6 DEF InQueue
  <2>1. PICK n \in 1..Len(queue[q][Kind(j)]) : queue[q][Kind(j)][n] = j
    BY <2>0
  <2>2. n \in 1..Len(queue'[q][Kind(j)]) /\ queue'[q][Kind(j)][n] = j
    <3>1. CASE q = p /\ Kind(j) = Kind(i)
      <4>1. n \in 1..Len(s) /\ s[n] = j
        BY <2>1, <3>1 DEF s
      <4>2. queue'[q][Kind(j)] = Append(s, i)
        BY <1>1, <3>1 DEF s
      <4> QED
        BY <1>4, <4>1, <4>2
    <3>2. CASE q # p \/ Kind(j) # Kind(i)
      <4>1. queue'[q][Kind(j)] = queue[q][Kind(j)]
        BY <1>1, <3>2
      <4> QED
        BY <2>1, <4>1
    <3> QED
      BY <3>1, <3>2
  <2> QED
    BY <2>2 DEF InQueue
<1> QED
  BY <1>5, <1>6

(* ... and as a thread takes the head, but for the head itself.            *)
LEMMA TakeKeeps ==
  ASSUME TypeOK, NEW t \in Threads, Take(t), NEW j \in Jobs, InQueue(j)
  PROVE  InQueue(j)' \/ InThread(j)'
<1> DEFINE p == ProcOf(t)
           kind == KindOf(t)
           s == queue[p][kind]
<1>1. p \in Procs /\ kind \in Kinds
  BY ThreadNames
<1>2. /\ s \in Seq(Jobs) /\ s # <<>>
      /\ pc'[t] = "locking" /\ work'[t] = Head(s)
      /\ queue' = [queue EXCEPT ![p][kind] = Tail(@)]
  BY <1>1 DEF Take, Goto, TypeOK
<1>3. /\ queue'[p][kind] = Tail(s)
      /\ \A q \in Procs, k \in Kinds : q # p \/ k # kind => queue'[q][k] = queue[q][k]
  BY <1>1, <1>2 DEF TypeOK
<1>0. PICK q \in Procs : \E n \in 1..Len(queue[q][Kind(j)]) : queue[q][Kind(j)][n] = j
  BY DEF InQueue
<1>4. PICK n \in 1..Len(queue[q][Kind(j)]) : queue[q][Kind(j)][n] = j
  BY <1>0
<1>5. CASE q = p /\ Kind(j) = kind
  <2>1. n \in 1..Len(s) /\ s[n] = j
    BY <1>4, <1>5
  <2> HIDE DEF s
  <2>2. CASE n = 1
    <3>1. work'[t] = j
      BY <1>2, <2>1, <2>2
    <3> QED
      BY <1>2, <3>1 DEF InThread
  <2>3. CASE n # 1
    <3>1. n - 1 \in 1..Len(Tail(s)) /\ Tail(s)[n - 1] = j
      BY <1>2, <2>1, <2>3
    <3>2. n - 1 \in 1..Len(queue'[q][Kind(j)]) /\ queue'[q][Kind(j)][n - 1] = j
      BY <1>3, <1>5, <3>1
    <3> QED
      BY <3>2 DEF InQueue
  <2> QED
    BY <2>2, <2>3
<1>6. CASE q # p \/ Kind(j) # kind
  <2>1. queue'[q][Kind(j)] = queue[q][Kind(j)]
    BY <1>3, <1>6, KindNames
  <2> QED
    BY <1>4, <2>1 DEF InQueue
<1> QED
  BY <1>5, <1>6

(* Nobody takes a row, a work item or an execution away.                   *)
LEMMA CareRests ==
  ASSUME NEW j \in Jobs, TakenCareOf(j), UNCHANGED <<pc, work>>,
         status[j] \in Active => status'[j] \in Active,
         status[j] = "queued" => status'[j] = "queued",
         Submitted(j) => Submitted(j)' \/ InQueue(j)',
         InQueue(j) => InQueue(j)'
  PROVE  TakenCareOf(j)'
<1>1. Executing(j)' <=> Executing(j)
  BY DEF Executing
<1>2. InThread(j)' <=> InThread(j)
  BY DEF InThread
<1>3. WorkItem(j) => WorkItem(j)'
  BY <1>2, WorkItems
<1> QED
  BY <1>1, <1>3 DEF TakenCareOf, Active

LEMMA CareRequest ==
  ASSUME IInv, NEW p \in Procs, NEW i \in Jobs, RequestStep(p, i)
  PROVE  CareStep
<1> SUFFICES ASSUME NEW j \in Jobs, TakenCareOf(j)
             PROVE  TakenCareOf(j)' \/ faults' > faults
  BY DEF CareStep
<1> USE DEF IInv, TypeOK, rows, threadVars, sweepVars
<1>1. UNCHANGED <<pc, work>>
  BY DEF RequestStep, RequestMaintenance, CheckReport, CreateReport, Submit, RequestFails
<1>2. status[j] \in Active
  BY DEF TakenCareOf, Active
<1>3. status'[j] = status[j]
  BY <1>2 DEF RequestStep, RequestMaintenance, CheckReport, CreateReport, Submit,
              RequestFails, CreatingNew, Active
<1>4. CASE RequestFails(p, i)
  BY <1>4 DEF RequestFails, Fault
<1>5. CASE Submit(p, i)
  <2>1. Enqueue(p, i) /\ submitting' = [submitting EXCEPT ![p] = @ \ {i}]
    BY <1>5 DEF Submit
  <2>2. InQueue(i)' /\ (InQueue(j) => InQueue(j)')
    BY <2>1, EnqueueKeeps
  <2>3. Submitted(j) => Submitted(j)' \/ j = i
    BY <2>1 DEF Submitted
  <2> QED
    BY <1>1, <1>3, <2>2, <2>3, CareRests
<1>6. CASE RequestMaintenance(p, i) \/ CheckReport(p, i) \/ CreateReport(p, i)
  <2>1. /\ queue' = queue
        /\ \A q \in Procs : submitting[q] \subseteq submitting'[q]
    BY <1>6 DEF RequestMaintenance, CheckReport, CreateReport
  <2>2. (Submitted(j) => Submitted(j)') /\ (InQueue(j) => InQueue(j)')
    BY <2>1 DEF Submitted, InQueue
  <2> QED
    BY <1>1, <1>3, <2>2, CareRests
<1> QED
  BY <1>4, <1>5, <1>6 DEF RequestStep

LEMMA CareThread ==
  ASSUME IInv, NEW t \in Threads, ThreadStep(t)
  PROVE  CareStep
<1> SUFFICES ASSUME NEW j \in Jobs, TakenCareOf(j), status'[j] \in Active
             PROVE  TakenCareOf(j)'
  BY DEF CareStep
<1> USE DEF IInv, TypeOK, rows, Goto
<1>1. /\ submitting' = submitting
      /\ \A u \in Threads \ {t} : pc'[u] = pc[u] /\ work'[u] = work[u]
      /\ pc[t] # "idle" => work[t] \in Jobs
  BY DEF ThreadStep, Take, Lock, ClaimWon, ClaimLost, Load, LoadDeleted, RecordMaintenance,
         RecordReport, BuildFails, Rescue, Audit, Release, ThreadFrame, requestVars, LockHeld
<1>2. Submitted(j) => Submitted(j)'
  BY <1>1 DEF Submitted
<1>3. UNCHANGED queue => (InQueue(j) => InQueue(j)')
  BY DEF InQueue
<1>4. \/ status[j] \in Active /\ Executing(j)
      \/ status[j] = "queued" /\ WorkItem(j)
  BY DEF TakenCareOf
<1>5. ASSUME work[t] # j \/ pc[t] \notin {"loading", "executing", "rescuing"},
             Executing(j), status'[j] = status[j]
      PROVE  TakenCareOf(j)'
  <2>1. Executing(j)'
    BY <1>1, <1>5 DEF Executing
  <2> QED
    BY <2>1 DEF TakenCareOf
<1>6. ASSUME work[t] # j \/ pc[t] \notin {"locking", "claiming"},
             status[j] = "queued" /\ WorkItem(j), status'[j] = status[j], UNCHANGED queue
      PROVE  TakenCareOf(j)'
  <2>1. InThread(j) => InThread(j)'
    BY <1>1, <1>6 DEF InThread
  <2>2. WorkItem(j)'
    BY <1>2, <1>3, <1>6, <2>1, WorkItems
  <2> QED
    BY <1>6, <2>2 DEF TakenCareOf
<1>7. ASSUME work'[t] = j, pc'[t] \in {"loading", "executing", "rescuing"}
      PROVE  TakenCareOf(j)'
  BY <1>7 DEF TakenCareOf, Executing
<1>8. ASSUME status'[j] = status[j], UNCHANGED queue,
             \/ work[t] # j
             \/ pc[t] \notin {"locking", "claiming", "loading", "executing", "rescuing"}
      PROVE  TakenCareOf(j)'
  BY <1>4, <1>5, <1>6, <1>8
<1>9. CASE Take(t)
  <2>1. status' = status /\ pc[t] = "idle"
    BY <1>9 DEF Take
  <2>2. InQueue(j) => InQueue(j)' \/ InThread(j)'
    BY <1>9, TakeKeeps
  <2>3. InThread(j) => InThread(j)'
    BY <1>1, <2>1 DEF InThread
  <2>4. WorkItem(j) => WorkItem(j)'
    BY <1>2, <2>2, <2>3, WorkItems
  <2> QED
    BY <1>4, <1>5, <2>1, <2>4 DEF TakenCareOf
<1>10. CASE Lock(t)
  <2>1. status' = status /\ queue' = queue /\ pc[t] = "locking" /\ pc'[t] = "claiming"
        /\ work'[t] = work[t]
    BY <1>10 DEF Lock
  <2>2. InThread(j) => InThread(j)'
    BY <1>1, <2>1 DEF InThread
  <2>3. WorkItem(j) => WorkItem(j)'
    BY <1>2, <1>3, <2>1, <2>2, WorkItems
  <2> QED
    BY <1>4, <1>5, <2>1, <2>3 DEF TakenCareOf
<1>11. CASE ClaimWon(t)
  <2>1. /\ queue' = queue /\ work'[t] = work[t] /\ pc'[t] = "loading" /\ work[t] \in Jobs
        /\ \A i \in Jobs \ {work[t]} : status'[i] = status[i]
    BY <1>1, <1>11 DEF ClaimWon
  <2> QED
    BY <1>7, <1>8, <2>1
<1>12. CASE ClaimLost(t)
  <2>1. status' = status /\ queue' = queue /\ pc[t] = "claiming" /\ status[work[t]] # "queued"
    BY <1>12 DEF ClaimLost
  <2> QED
    BY <1>4, <1>5, <1>6, <2>1
<1>13. CASE Load(t) \/ BuildFails(t)
  <2>1. /\ status' = status /\ queue' = queue /\ work'[t] = work[t]
        /\ pc'[t] \in {"executing", "rescuing"}
    BY <1>13 DEF Load, BuildFails
  <2> QED
    BY <1>7, <1>8, <2>1
<1>14. CASE LoadDeleted(t)
  <2>1. status' = status /\ queue' = queue /\ status[work[t]] = "deleted"
    BY <1>14 DEF LoadDeleted
  <2> QED
    BY <1>8, <2>1 DEF Active
<1>15. ASSUME NEW result \in Terminal, SetStatus(work[t], result), queue' = queue,
              pc[t] # "idle"
       PROVE  TakenCareOf(j)'
  <2>1. \A i \in Jobs \ {work[t]} : status'[i] = status[i]
    BY <1>1, <1>15 DEF SetStatus
  <2>2. status'[work[t]] \notin Active
    BY <1>1, <1>15 DEF SetStatus, Active, Terminal
  <2> QED
    BY <1>8, <1>15, <2>1, <2>2
<1>16. CASE \/ \E result \in Terminal : RecordMaintenance(t, result)
            \/ RecordReport(t) \/ Rescue(t)
  <2>1. \E result \in Terminal : SetStatus(work[t], result) /\ queue' = queue /\ pc[t] # "idle"
    BY <1>16 DEF RecordMaintenance, RecordReport, Rescue, Terminal
  <2> QED
    BY <1>15, <2>1
<1>17. CASE Audit(t) \/ Release(t)
  BY <1>8, <1>17 DEF Audit, Release
<1> QED
  BY <1>9, <1>10, <1>11, <1>12, <1>13, <1>14, <1>16, <1>17 DEF ThreadStep

LEMMA CareSweep ==
  ASSUME IInv, NEW s \in Sweepers, SweepStep(s)
  PROVE  CareStep
<1> SUFFICES ASSUME NEW j \in Jobs, TakenCareOf(j)
             PROVE  TakenCareOf(j)'
  BY DEF CareStep
<1> USE DEF IInv, TypeOK, rows
<1>1. /\ UNCHANGED <<pc, work, submitting>>
      /\ status'[j] = IF Reset(s) /\ j = sweepJob[s] /\ status[j] = "running"
                        THEN "queued" ELSE status[j]
  BY DEF SweepStep, SweepStart, ProbeBusy, ProbeFree, Resubmit, ProbeRelease, Reset,
         SweepReports, CommandEnds, ListMaintenance, ListReports, SweepDone, SweepFrame,
         threadVars, requestVars
<1>2. Submitted(j) => Submitted(j)'
  BY <1>1 DEF Submitted
<1>3. InQueue(j) => InQueue(j)'
  <2>1. ASSUME NEW i \in Jobs, Resubmit(s, i) PROVE InQueue(j) => InQueue(j)'
    BY <2>1, EnqueueKeeps DEF Resubmit
  <2>2. UNCHANGED queue => (InQueue(j) => InQueue(j)')
    BY DEF InQueue
  <2> QED
    BY <2>1, <2>2
       DEF SweepStep, SweepStart, ProbeBusy, ProbeFree, ProbeRelease, Reset, SweepReports,
           CommandEnds, ListMaintenance, ListReports, SweepDone
<1> QED
  BY <1>1, <1>2, <1>3, CareRests DEF Active

(* Without a fault no job is dropped on the way: one that has a work item, *)
(* or is being executed, stays so until it has its result or is deleted,   *)
(* whoever claims, sweeps, resubmits and waits (_resubmit_queued_jobs,     *)
(* with_job_lock, _run_maintenance_operation, _run_report_job).            *)
THEOREM NeverDropped == Spec => [][CareStep]_vars
<1>1. IInv /\ Next => CareStep
  <2> SUFFICES ASSUME IInv, Next PROVE CareStep
    OBVIOUS
  <2>1. ASSUME faults' > faults PROVE CareStep
    BY <2>1 DEF CareStep
  <2>2. ASSUME Fault PROVE CareStep
    BY <2>1, <2>2 DEF Fault, IInv, TypeOK
  <2>3. ASSUME NEW t \in Threads, StatementFails(t) \/ LockFails(t) PROVE CareStep
    BY <2>2, <2>3 DEF StatementFails, LockFails
  <2>4. ASSUME NEW s \in Sweepers, SweepFails(s) PROVE CareStep
    BY <2>2, <2>4 DEF SweepFails
  <2>5. ASSUME NEW p \in Procs, Crash(p) PROVE CareStep
    BY <2>2, <2>5 DEF Crash
  <2>6. ASSUME NEW c \in Commands, CommandKilled(c) PROVE CareStep
    BY <2>2, <2>6 DEF CommandKilled
  <2>7. ASSUME UNCHANGED <<pc, work, submitting, queue>>,
               \A j \in Jobs : status'[j] = status[j] \/ status'[j] = "deleted"
        PROVE  CareStep
    <3> SUFFICES ASSUME NEW j \in Jobs, TakenCareOf(j), status'[j] = status[j]
                 PROVE  TakenCareOf(j)'
      BY <2>7 DEF CareStep, Active
    <3>1. (Submitted(j) => Submitted(j)') /\ (InQueue(j) => InQueue(j)')
      BY <2>7 DEF Submitted, InQueue
    <3> QED
      BY <2>7, <3>1, CareRests
  <2>8. ASSUME NEW p \in Procs, Start(p) PROVE CareStep
    BY <2>7, <2>8 DEF Start, rows, threadVars, requestVars
  <2>9. ASSUME NEW i \in Jobs, DeleteRow(i) PROVE CareStep
    BY <2>7, <2>9 DEF DeleteRow, threadVars, requestVars, IInv, TypeOK
  <2> QED
    BY <2>3, <2>4, <2>5, <2>6, <2>8, <2>9, CareRequest, CareThread, CareSweep DEF Next
<1> QED
  BY <1>1, Invariance, PTL DEF Spec

-----------------------------------------------------------------------------
(* The processes, threads, locks and sweeps of JobQueue implement the life *)
(* of a job that JobLifecycle describes, and the list of JobRows.          *)

(* What the refinement needs beyond IInv: every pool works on jobs of its  *)
(* own kind, ...                                                           *)
KindsKept ==
  /\ \A p \in Procs, kind \in Kinds : queue[p][kind] \in Seq(JobsOf(kind))
  /\ \A t \in Threads : pc[t] # "idle" => work[t] \in JobsOf(KindOf(t))

(* ... the row of a thread that audits has its result, and a report with a *)
(* result is declared failed only after a fault.                           *)
ResultSeen ==
  \A t \in Threads :
    /\ pc[t] = "auditing" => status[work[t]] \notin Active
    /\ pc[t] = "rescuing" =>
         /\ KindOf(t) = "report"
         /\ status[work[t]] = "completed" => faults > 0

RInv == IInv /\ KindsKept /\ ResultSeen

(* A submission goes to the pool of the job's kind.                        *)
LEMMA EnqueueKinds ==
  ASSUME TypeOK, KindsKept, NEW p \in Procs, NEW j \in Jobs, Enqueue(p, j)
  PROVE  \A q \in Procs, kind \in Kinds : queue'[q][kind] \in Seq(JobsOf(kind))
<1> SUFFICES ASSUME NEW q \in Procs, NEW kind \in Kinds
             PROVE  queue'[q][kind] \in Seq(JobsOf(kind))
  OBVIOUS
<1>1. CASE q = p /\ kind = Kind(j)
  <2>1. j \in JobsOf(kind)
    BY <1>1 DEF JobsOf
  <2>2. queue'[q][kind] = Append(queue[p][kind], j)
    BY <1>1 DEF Enqueue, TypeOK
  <2> QED
    BY <2>1, <2>2 DEF KindsKept
<1>2. CASE ~(q = p /\ kind = Kind(j))
  <2>1. queue'[q][kind] = queue[q][kind]
    BY <1>2 DEF Enqueue, TypeOK
  <2> QED
    BY <2>1 DEF KindsKept
<1> QED
  BY <1>1, <1>2

(* Nothing is queued and nobody works in an initial state.                 *)
LEMMA RInvInit == Init => RInv
<1> SUFFICES ASSUME Init
             PROVE  KindsKept /\ ResultSeen
  BY InvInit DEF RInv
<1> QED
  BY DEF Init, KindsKept, ResultSeen, Kinds

(* KindsKept is inductive.                                                 *)
LEMMA KindsStep ==
  ASSUME RInv, [Next]_vars
  PROVE  KindsKept'
<1> USE DEF RInv, IInv, rows, threadVars, requestVars, sweepVars
<1> DEFINE QueuesKept ==
      \A p \in Procs, kind \in Kinds : queue'[p][kind] \in Seq(JobsOf(kind))
<1>1. CASE UNCHANGED <<queue, pc, work>>
  BY <1>1 DEF KindsKept
<1>2. ASSUME NEW p \in Procs, NEW j \in Jobs, Enqueue(p, j), UNCHANGED <<pc, work>>
      PROVE  KindsKept'
  <2>1. QueuesKept
    BY <1>2, EnqueueKinds
  <2> QED
    BY <1>2, <2>1 DEF KindsKept
<1>3. ASSUME NEW t \in Threads, Take(t)
      PROVE  KindsKept'
  <2> DEFINE p == ProcOf(t)
             kind == KindOf(t)
  <2>1. queue[p][kind] \in Seq(JobsOf(kind)) /\ queue[p][kind] # <<>>
    BY <1>3, ThreadNames DEF Take, KindsKept
  <2>2. /\ Head(queue[p][kind]) \in JobsOf(kind)
        /\ Tail(queue[p][kind]) \in Seq(JobsOf(kind))
    BY <2>1
  <2>3. QueuesKept
    BY <1>3, <2>2, ThreadNames DEF Take, KindsKept, TypeOK
  <2>4. \A u \in Threads : pc'[u] # "idle" => work'[u] \in JobsOf(KindOf(u))
    BY <1>3, <2>2 DEF Take, Goto, KindsKept, TypeOK
  <2> QED
    BY <2>3, <2>4 DEF KindsKept
<1>4. ASSUME NEW t \in Threads, ThreadStep(t) \/ StatementFails(t) \/ LockFails(t), ~Take(t)
      PROVE  KindsKept'
  <2>1. /\ queue' = queue
        /\ \A u \in Threads : \/ pc'[u] = "idle"
                              \/ pc[u] # "idle" /\ work'[u] = work[u]
    BY <1>4 DEF ThreadStep, StatementFails, LockFails, Lock, ClaimWon, ClaimLost,
                Load, LoadDeleted, RecordMaintenance, RecordReport, BuildFails,
                Rescue, Audit, Release, Goto, TypeOK, Holding
  <2> QED
    BY <2>1 DEF KindsKept
<1>5. ASSUME NEW p \in Procs, Crash(p)
      PROVE  KindsKept'
  <2>1. QueuesKept
    BY <1>5 DEF Crash, KindsKept, TypeOK
  <2>2. \A u \in Threads : \/ pc'[u] = "idle"
                           \/ pc[u] = pc'[u] /\ work'[u] = work[u]
    BY <1>5 DEF Crash
  <2> QED
    BY <2>1, <2>2 DEF KindsKept
<1>6. ASSUME NEW p \in Procs, NEW j \in Jobs, RequestStep(p, j)
      PROVE  KindsKept'
  BY <1>1, <1>2, <1>6
     DEF RequestStep, RequestMaintenance, CheckReport, CreateReport, Submit,
         RequestFails
<1>7. ASSUME NEW s \in Sweepers, SweepStep(s) \/ SweepFails(s)
      PROVE  KindsKept'
  BY <1>1, <1>2, <1>7
     DEF SweepStep, SweepFails, SweepStart, ProbeBusy, ProbeFree, Resubmit,
         ProbeRelease, Reset, SweepReports, CommandEnds, ListMaintenance,
         ListReports, SweepDone, SweepFrame
<1>8. ASSUME \/ \E p \in Procs : Start(p)
             \/ \E c \in Commands : CommandKilled(c)
             \/ \E j \in Jobs : DeleteRow(j)
             \/ UNCHANGED vars
      PROVE  KindsKept'
  BY <1>1, <1>8 DEF Start, CommandKilled, DeleteRow, SweepFrame, vars
<1> QED
  BY <1>3, <1>4, <1>5, <1>6, <1>7, <1>8 DEF Next

(* ResultSeen is inductive: no other thread writes the row meanwhile.      *)
LEMMA SeenStep ==
  ASSUME RInv, [Next]_vars
  PROVE  ResultSeen'
<1> USE DEF RInv, IInv, TypeOK, ResultSeen, rows, threadVars, requestVars,
            sweepVars, ThreadPcs, Active, Terminal
<1>0. faults \in Nat
  BY PoolsAssumption
<1>1. ASSUME UNCHANGED <<pc, work>>, faults' = faults \/ faults' = faults + 1,
             \A j \in Jobs : \/ status'[j] = status[j]
                             \/ status[j] \in Active /\ status'[j] \in Active
                             \/ status[j] = "absent" /\ status'[j] = "queued"
                             \/ status'[j] = "deleted"
      PROVE  ResultSeen'
  <2> SUFFICES ASSUME NEW t \in Threads
               PROVE  /\ pc[t] = "auditing" => status'[work[t]] \notin Active
                      /\ pc[t] = "rescuing" =>
                           /\ KindOf(t) = "report"
                           /\ status'[work[t]] = "completed" => faults' > 0
    BY <1>1
  <2>1. CASE pc[t] \in {"auditing", "rescuing"}
    <3> DEFINE j == work[t]
    <3>1. j \in Jobs /\ status[j] # "absent"
      BY <2>1 DEF LockHeld, RowOpen, Working
    <3>2. \/ status'[j] = status[j]
          \/ status[j] \in Active /\ status'[j] \in Active
          \/ status'[j] = "deleted"
      BY <1>1, <3>1
    <3>3. status[j] = "completed" /\ faults > 0 => faults' > 0
      BY <1>0, <1>1
    <3> QED
      BY <2>1, <3>2, <3>3
  <2> QED
    BY <2>1
<1>2. ASSUME NEW t \in Threads, ThreadStep(t) \/ StatementFails(t) \/ LockFails(t)
      PROVE  ResultSeen'
  <2> USE DEF Goto, ThreadFrame
  <2>1. pc[t] # "idle" => work[t] \in Jobs
    BY DEF LockHeld
  <2>2. ASSUME NEW u \in Threads \ {t}, pc[u] \in {"auditing", "rescuing"},
               pc[t] \in Holding
        PROVE  work[u] # work[t]
    BY <2>2, OneHolder DEF Holding
  <2>3. CASE \/ Take(t) \/ Lock(t) \/ ClaimLost(t) \/ Load(t) \/ LoadDeleted(t)
             \/ BuildFails(t) \/ Audit(t) \/ Release(t) \/ LockFails(t)
             \/ StatementFails(t)
    <3>1. /\ status' = status
          /\ faults' = faults \/ faults' = faults + 1
          /\ \A u \in Threads \ {t} : pc'[u] = pc[u] /\ work'[u] = work[u]
      BY <2>3 DEF Take, Lock, ClaimLost, Load, LoadDeleted, BuildFails, Audit,
                  Release, LockFails, StatementFails, Fault
    <3>2. pc'[t] # "auditing"
      BY <2>3 DEF Take, Lock, ClaimLost, Load, LoadDeleted, BuildFails, Audit,
                  Release, LockFails, StatementFails
    <3>3. CASE BuildFails(t)
      <4>1. status[work[t]] # "completed" /\ KindOf(t) = "report" /\ work' = work
        BY <3>3 DEF BuildFails, RowOpen
      <4> QED
        BY <1>0, <3>1, <3>2, <4>1
    <3>4. CASE StatementFails(t)
      <4>1. faults' > 0 /\ (pc'[t] = "rescuing" => KindOf(t) = "report")
        BY <1>0, <3>4 DEF StatementFails, Fault
      <4>2. ASSUME NEW u \in Threads
            PROVE  /\ pc'[u] = "auditing" => status'[work'[u]] \notin Active
                   /\ pc'[u] = "rescuing" => KindOf(u) = "report"
        BY <3>1, <3>2, <4>1
      <4> QED
        BY <4>1, <4>2
    <3>5. CASE ~BuildFails(t) /\ ~StatementFails(t)
      <4>1. pc'[t] # "rescuing"
        BY <2>3, <3>5 DEF Take, Lock, ClaimLost, Load, LoadDeleted, Audit,
                          Release, LockFails
      <4>2. ASSUME NEW u \in Threads
            PROVE  /\ pc'[u] = "auditing" => status'[work'[u]] \notin Active
                   /\ pc'[u] = "rescuing" =>
                        /\ KindOf(u) = "report"
                        /\ status'[work'[u]] = "completed" => faults' > 0
        <5>1. CASE u = t
          BY <3>2, <4>1, <5>1
        <5>2. CASE u # t
          <6>1. pc'[u] = pc[u] /\ work'[u] = work[u] /\ status' = status
            BY <3>1, <5>2
          <6>2. faults > 0 => faults' > 0
            BY <1>0, <3>1
          <6> QED
            BY <6>1, <6>2
        <5> QED
          BY <5>1, <5>2
      <4> QED
        BY <4>2
    <3> QED
      BY <3>3, <3>4, <3>5
  <2>4. CASE ClaimWon(t)
    BY <2>1, <2>2, <2>4 DEF ClaimWon, Holding
  <2>5. ASSUME NEW result \in Terminal, RecordMaintenance(t, result)
        PROVE  ResultSeen'
    BY <2>1, <2>2, <2>5 DEF RecordMaintenance, SetStatus, Holding
  <2>6. CASE RecordReport(t)
    BY <2>1, <2>2, <2>6 DEF RecordReport, SetStatus, Holding
  <2>7. CASE Rescue(t)
    BY <2>1, <2>2, <2>7 DEF Rescue, SetStatus, Holding
  <2> QED
    BY <1>2, <2>3, <2>4, <2>5, <2>6, <2>7 DEF ThreadStep
<1>3. ASSUME NEW p \in Procs, NEW j \in Jobs, RequestStep(p, j)
      PROVE  ResultSeen'
  <2>1. CASE RequestMaintenance(p, j)
    BY <1>1, <2>1 DEF RequestMaintenance
  <2>2. CASE CreateReport(p, j)
    <3>1. status[j] = "absent"
      BY <2>2 DEF CreateReport, CreatingNew
    <3> QED
      BY <1>1, <2>2, <3>1 DEF CreateReport
  <2>3. CASE CheckReport(p, j) \/ Submit(p, j) \/ RequestFails(p, j)
    BY <1>1, <2>3 DEF CheckReport, Submit, RequestFails, Fault
  <2> QED
    BY <1>3, <2>1, <2>2, <2>3 DEF RequestStep
<1>4. ASSUME NEW s \in Sweepers, SweepStep(s) \/ SweepFails(s)
      PROVE  ResultSeen'
  <2>1. CASE Reset(s)
    BY <1>1, <2>1 DEF Reset, SweepFrame
  <2> QED
    BY <1>1, <1>4, <2>1
       DEF SweepStep, SweepFails, SweepStart, ProbeBusy, ProbeFree, Resubmit,
           ProbeRelease, SweepReports, CommandEnds, ListMaintenance,
           ListReports, SweepDone, SweepFrame, Fault
<1>5. ASSUME NEW p \in Procs, Crash(p)
      PROVE  ResultSeen'
  BY <1>5 DEF Crash, Fault
<1>6. ASSUME \/ \E p \in Procs : Start(p)
             \/ \E c \in Commands : CommandKilled(c)
             \/ UNCHANGED vars
      PROVE  ResultSeen'
  BY <1>1, <1>6 DEF Start, CommandKilled, SweepFrame, Fault, vars
<1>7. ASSUME NEW j \in Jobs, DeleteRow(j)
      PROVE  ResultSeen'
  BY <1>1, <1>7 DEF DeleteRow
<1> QED
  BY <1>2, <1>3, <1>4, <1>5, <1>6, <1>7 DEF Next

(* RInv holds in every reachable state.                                    *)
THEOREM RefinementInvariance == Spec => []RInv
<1>1. RInv /\ [Next]_vars => RInv'
  BY InvStep, KindsStep, SeenStep DEF RInv
<1> QED
  BY <1>1, RInvInit, PTL DEF Spec

-----------------------------------------------------------------------------
(* The refinement mapping, case by case.                                   *)
LEMMA PhaseValue ==
  ASSUME TypeOK, NEW j \in Jobs
  PROVE  /\ status[j] = "absent" => Phase[j] = "none"
         /\ status[j] \in Active /\ Executing(j) => Phase[j] = "executing"
         /\ status[j] \in Active /\ ~Executing(j) => Phase[j] = "pending"
         /\ status[j] \in Terminal \union {"deleted"} => Phase[j] = status[j]
BY DEF Phase, Active, Terminal, TypeOK, Statuses

(* The same in the next state.                                             *)
LEMMA PhaseValueNext ==
  ASSUME TypeOK', NEW j \in Jobs
  PROVE  /\ status'[j] = "absent" => Phase'[j] = "none"
         /\ status'[j] \in Active /\ Executing(j)' => Phase'[j] = "executing"
         /\ status'[j] \in Active /\ ~Executing(j)' => Phase'[j] = "pending"
         /\ status'[j] \in Terminal \union {"deleted"} => Phase'[j] = status'[j]
BY DEF Phase, Active, Terminal, TypeOK, Statuses

(* Phase is a function on the jobs, in both states.                        *)
LEMMA PhaseIsFunction ==
  /\ Phase = [j \in Jobs |-> Phase[j]]
  /\ Phase' = [j \in Jobs |-> Phase'[j]]
BY DEF Phase

(* A job keeps its phase when its row keeps being active, or its status,   *)
(* and its executor stays what it is.                                      *)
LEMMA PhaseKept ==
  ASSUME TypeOK, TypeOK', NEW j \in Jobs,
         \/ status'[j] = status[j]
         \/ status[j] \in Active /\ status'[j] \in Active,
         status[j] \in Active => (Executing(j)' <=> Executing(j))
  PROVE  Phase'[j] = Phase[j]
<1>1. status[j] \in {"absent", "deleted"} \union Active \union Terminal
  BY DEF TypeOK, Statuses
<1>2. CASE status[j] \in Active
  <2>1. status'[j] \in Active
    BY <1>2
  <2> QED
    BY <1>2, <2>1, PhaseValue, PhaseValueNext
<1>3. CASE status[j] \notin Active
  BY <1>1, <1>3, PhaseValue, PhaseValueNext
<1> QED
  BY <1>2, <1>3

(* A step that keeps every phase and counts no fault is a stutter; one     *)
(* that changes the phase of one job is a step of that job.                *)
LEMMA StutterOrBecome ==
  ASSUME TypeOK, TypeOK', faults' = faults, NEW j \in Jobs, NEW from, NEW to,
         \A i \in Jobs \ {j} : Phase'[i] = Phase[i],
         \/ Phase'[j] = Phase[j]
         \/ Phase[j] = from /\ Phase'[j] = to
  PROVE  \/ UNCHANGED <<Phase, faults>>
         \/ Lifecycle!Become(j, from, to)
<1>1. CASE Phase'[j] = Phase[j]
  <2>1. \A i \in Jobs : Phase'[i] = Phase[i]
    BY <1>1
  <2> QED
    BY <2>1, PhaseIsFunction
<1>2. CASE Phase[j] = from /\ Phase'[j] = to
  <2>1. Phase' = [Phase EXCEPT ![j] = to]
    BY <1>2, PhaseIsFunction
  <2> QED
    BY <1>2, <2>1 DEF Lifecycle!Become
<1> QED
  BY <1>1, <1>2

(* A step that changes the phase of no job.                                *)
LEMMA Stutter ==
  ASSUME \A i \in Jobs : Phase'[i] = Phase[i]
  PROVE  Phase' = Phase
BY PhaseIsFunction

(* While a thread holds the lock of a job, nobody else executes it.        *)
LEMMA OnlyHolderExecutes ==
  ASSUME IInv, NEW t \in Threads, pc[t] \in Holding
  PROVE  Executing(work[t]) <=> pc[t] \in {"loading", "executing", "rescuing"}
<1>1. ASSUME NEW u \in Threads, work[u] = work[t],
             pc[u] \in {"loading", "executing", "rescuing"}
      PROVE  u = t
  <2>1. pc[u] \in Holding
    BY <1>1 DEF Holding, ThreadPcs
  <2> QED
    BY <1>1, <2>1, OneHolder DEF IInv
<1> QED
  BY <1>1 DEF Executing

(* What a thread executes depends on the program counters past the claim.  *)
LEMMA ExecutingKept ==
  ASSUME NEW j,
         \A t \in Threads :
           (work'[t] = j /\ pc'[t] \in {"loading", "executing", "rescuing"})
             <=> (work[t] = j /\ pc[t] \in {"loading", "executing", "rescuing"})
  PROVE  Executing(j)' <=> Executing(j)
BY DEF Executing

(* A request creates the job of its row, or does nothing to any job.       *)
LEMMA RequestRefines ==
  ASSUME RInv, RInv', NEW p \in Procs, NEW j \in Jobs, RequestStep(p, j)
  PROVE  \/ UNCHANGED <<Phase, faults>>
         \/ Lifecycle!Create(j)
         \/ Lifecycle!Fault({})
<1> USE DEF RInv, IInv, rows, threadVars, sweepVars
<1>1. \A i \in Jobs : Executing(i)' <=> Executing(i)
  BY ExecutingKept
     DEF RequestStep, RequestMaintenance, CheckReport, CreateReport, Submit,
         RequestFails
<1>2. ASSUME status[j] = "absent", status' = [status EXCEPT ![j] = "queued"],
             faults' = faults
      PROVE  Lifecycle!Create(j) \/ UNCHANGED <<Phase, faults>>
  <2>1. ~Executing(j)
    BY <1>2 DEF Executing, RowOpen, Working
  <2>2. Phase[j] = "none" /\ Phase'[j] = "pending"
    BY <1>1, <1>2, <2>1, PhaseValue, PhaseValueNext DEF Active, TypeOK
  <2>3. \A i \in Jobs \ {j} : Phase'[i] = Phase[i]
    BY <1>1, <1>2, PhaseKept DEF TypeOK
  <2> QED
    BY <1>2, <2>2, <2>3, StutterOrBecome DEF Lifecycle!Create
<1>3. CASE RequestMaintenance(p, j)
  BY <1>2, <1>3 DEF RequestMaintenance
<1>4. CASE CreateReport(p, j)
  BY <1>2, <1>4 DEF CreateReport, CreatingNew
<1>5. CASE CheckReport(p, j) \/ Submit(p, j)
  <2>1. Phase' = Phase
    BY <1>1, <1>5, PhaseKept, Stutter DEF CheckReport, Submit
  <2> QED
    BY <1>5, <2>1 DEF CheckReport, Submit
<1>6. CASE RequestFails(p, j)
  <2>1. \A i \in Jobs : Phase'[i] = Phase[i]
    BY <1>1, <1>6, PhaseKept DEF RequestFails
  <2> QED
    BY <1>6, <2>1, PhaseIsFunction DEF RequestFails, Fault, Lifecycle!Fault
<1> QED
  BY <1>3, <1>4, <1>5, <1>6 DEF RequestStep

(* Faults: what is lost is what no longer has an executor.                 *)
LEMMA FaultRefines ==
  ASSUME RInv, RInv', faults' = faults + 1, status' = status,
         \A j \in Jobs : status[j] \in Active /\ Executing(j)' => Executing(j)
  PROVE  \E lost \in SUBSET Jobs : Lifecycle!Fault(lost)
<1> DEFINE lost == {j \in Jobs : Phase[j] = "executing" /\ ~Executing(j)'}
<1>1. ASSUME NEW j \in Jobs
      PROVE  Phase'[j] = IF j \in lost THEN "pending" ELSE Phase[j]
  <2>1. CASE j \in lost
    <3>1. status[j] \in Active
      BY <2>1, PhaseValue DEF RInv, IInv, TypeOK, Statuses, Terminal
    <3> QED
      BY <2>1, <3>1, PhaseValueNext DEF RInv, IInv
  <2>2. CASE j \notin lost
    <3>1. status[j] \in Active => (Executing(j)' <=> Executing(j))
      BY <2>2, PhaseValue DEF RInv, IInv
    <3> QED
      BY <2>2, <3>1, PhaseKept DEF RInv, IInv
  <2> QED
    BY <2>1, <2>2
<1>2. Phase' = [j \in Jobs |-> IF j \in lost THEN "pending" ELSE Phase[j]]
  BY <1>1, PhaseIsFunction
<1>3. Lifecycle!Fault(lost)
  BY <1>2 DEF Lifecycle!Fault
<1> QED
  BY <1>3

(* A step of a thread is a step of the job in its hands.                   *)
LEMMA ThreadRefines ==
  ASSUME RInv, RInv', NEW t \in Threads,
         ThreadStep(t) \/ StatementFails(t) \/ LockFails(t)
  PROVE  Lifecycle!Next \/ UNCHANGED <<Phase, faults>>
<1> DEFINE Exec == {"loading", "executing", "rescuing"}
<1> PICK j : j = work[t]
  OBVIOUS
<1> USE DEF RInv, IInv, rows, sweepVars, requestVars, ThreadFrame, Goto
<1>1. pc[t] # "idle" => j \in Jobs
  BY DEF LockHeld
<1>2. ASSUME \A u \in Threads \ {t} : pc'[u] = pc[u] /\ work'[u] = work[u],
             pc[t] \in Exec => work'[t] = work[t] /\ pc'[t] \in Exec,
             pc'[t] \in Exec => work'[t] = work[t] /\ pc[t] \in Exec
      PROVE  \A i \in Jobs : Executing(i)' <=> Executing(i)
  BY <1>2 DEF Executing
<1>3. CASE Take(t) \/ Lock(t) \/ ClaimLost(t) \/ Load(t) \/ BuildFails(t)
           \/ Audit(t) \/ Release(t)
  <2>1. \A i \in Jobs : Executing(i)' <=> Executing(i)
    BY <1>2, <1>3 DEF Take, Lock, ClaimLost, Load, BuildFails, Audit, Release,
                      TypeOK
  <2>2. status' = status /\ faults' = faults
    BY <1>3 DEF Take, Lock, ClaimLost, Load, BuildFails, Audit, Release
  <2>3. Phase' = Phase
    BY <2>1, <2>2, PhaseKept, Stutter
  <2> QED
    BY <2>2, <2>3
<1>4. ASSUME work' = work, faults' = faults, j \in Jobs,
             \A u \in Threads \ {t} : pc'[u] = pc[u],
             \A i \in Jobs \ {j} : status'[i] = status[i]
      PROVE  \A i \in Jobs \ {j} : Phase'[i] = Phase[i]
  <2>1. ASSUME NEW i \in Jobs \ {j}
        PROVE  Executing(i)' <=> Executing(i)
    BY <1>4, <2>1 DEF Executing
  <2> QED
    BY <1>4, <2>1, PhaseKept
<1>5. CASE ClaimWon(t)
  <2>1. pc[t] = "claiming" /\ pc'[t] = "loading" /\ j \in Jobs
    BY <1>1, <1>5 DEF ClaimWon, TypeOK
  <2>2. status[j] = "queued" /\ status'[j] = "running"
    BY <1>5, <2>1 DEF ClaimWon, TypeOK
  <2>3. Phase[j] = "pending"
    <3>1. ~Executing(j)
      BY <2>1, OnlyHolderExecutes DEF Holding, ThreadPcs
    <3> QED
      BY <2>1, <2>2, <3>1, PhaseValue DEF Active
  <2>4. Phase'[j] = "executing"
    <3>1. Executing(j)'
      BY <1>5, <2>1 DEF Executing, ClaimWon
    <3> QED
      BY <2>1, <2>2, <3>1, PhaseValueNext DEF Active
  <2>5. \A i \in Jobs \ {j} : Phase'[i] = Phase[i]
    BY <1>4, <1>5, <2>1 DEF ClaimWon, TypeOK
  <2>6. Lifecycle!Begin(j) \/ UNCHANGED <<Phase, faults>>
    BY <1>5, <2>1, <2>3, <2>4, <2>5, StutterOrBecome DEF Lifecycle!Begin, ClaimWon
  <2> QED
    BY <2>1, <2>6 DEF Lifecycle!Next
<1>6. CASE LoadDeleted(t)
  <2>1. j \in Jobs /\ status[j] = "deleted" /\ status' = status
    BY <1>1, <1>6 DEF LoadDeleted
  <2>2. Phase'[j] = Phase[j]
    BY <2>1, PhaseKept DEF Active
  <2>3. \A i \in Jobs \ {j} : Phase'[i] = Phase[i]
    BY <1>4, <1>6, <2>1 DEF LoadDeleted, TypeOK
  <2>4. Phase' = Phase
    BY <2>2, <2>3, Stutter
  <2> QED
    BY <1>6, <2>4 DEF LoadDeleted
<1>7. ASSUME NEW result \in Terminal, pc[t] \in Exec, SetStatus(j, result),
             pc'[t] \notin Exec, work' = work, faults' = faults,
             \A u \in Threads \ {t} : pc'[u] = pc[u]
      PROVE  /\ j \in Jobs
             /\ \A i \in Jobs \ {j} : Phase'[i] = Phase[i]
             /\ status[j] = "deleted" => Phase'[j] = Phase[j]
             /\ status[j] # "deleted" => Phase'[j] = result
             /\ status[j] \in Active => Phase[j] = "executing"
  <2>1. j \in Jobs
    BY <1>1, <1>7
  <2>2. \A i \in Jobs \ {j} : status'[i] = status[i]
    BY <1>7, <2>1 DEF SetStatus, TypeOK
  <2>3. status'[j] = IF status[j] = "deleted" THEN "deleted" ELSE result
    BY <1>7, <2>1 DEF SetStatus, TypeOK
  <2>4. Executing(j)
    BY <1>7 DEF Executing
  <2>5. status[j] = "deleted" => Phase[j] = "deleted" /\ Phase'[j] = "deleted"
    BY <2>1, <2>3, PhaseValue, PhaseValueNext
  <2>6. status[j] # "deleted" => Phase'[j] = result
    BY <1>7, <2>1, <2>3, PhaseValueNext
  <2>7. status[j] \in Active => Phase[j] = "executing"
    BY <2>1, <2>4, PhaseValue
  <2> QED
    BY <1>4, <1>7, <2>1, <2>2, <2>5, <2>6, <2>7
<1>8. ASSUME NEW result \in Terminal,
             RecordMaintenance(t, result) \/ (RecordReport(t) /\ result = "completed")
      PROVE  Lifecycle!Next \/ UNCHANGED <<Phase, faults>>
  <2>1. /\ pc[t] = "executing" /\ pc'[t] \notin Exec /\ SetStatus(j, result)
        /\ work' = work /\ faults' = faults
        /\ \A u \in Threads \ {t} : pc'[u] = pc[u]
    BY <1>8 DEF RecordMaintenance, RecordReport, TypeOK
  <2>2. status[j] \in Active \union {"deleted"}
    BY <1>1, <2>1 DEF RowOpen, TypeOK, Statuses, Working
  <2>3. \/ Phase'[j] = Phase[j]
        \/ Phase[j] = "executing" /\ Phase'[j] = result
    BY <1>7, <2>1, <2>2 DEF Active
  <2>4. Lifecycle!Finish(j, result) \/ UNCHANGED <<Phase, faults>>
    BY <1>7, <2>1, <2>3, StutterOrBecome DEF Lifecycle!Finish
  <2> QED
    BY <1>7, <2>1, <2>4 DEF Lifecycle!Next, Terminal
<1>9. CASE Rescue(t)
  <2>1. /\ pc[t] = "rescuing" /\ pc'[t] \notin Exec /\ SetStatus(j, "failed")
        /\ work' = work /\ faults' = faults
        /\ \A u \in Threads \ {t} : pc'[u] = pc[u]
    BY <1>9 DEF Rescue, TypeOK
  <2>2. /\ j \in Jobs
        /\ \A i \in Jobs \ {j} : Phase'[i] = Phase[i]
        /\ status[j] = "deleted" => Phase'[j] = Phase[j]
        /\ status[j] # "deleted" => Phase'[j] = "failed"
        /\ status[j] \in Active => Phase[j] = "executing"
    BY <1>7, <2>1 DEF Terminal
  <2>3. status[j] \in Active \union {"completed", "failed", "deleted"}
    BY <2>1, <2>2 DEF RowOpen, TypeOK, Statuses, Working, Terminal
  <2>4. CASE status[j] \in {"deleted", "failed"}
    <3>1. Phase'[j] = Phase[j]
      BY <2>2, <2>4, PhaseValue DEF Terminal
    <3> QED
      BY <2>1, <2>2, <3>1, Stutter
  <2>5. CASE status[j] \in Active
    <3>1. Lifecycle!Finish(j, "failed") \/ UNCHANGED <<Phase, faults>>
      BY <2>1, <2>2, <2>5, StutterOrBecome DEF Lifecycle!Finish, Active
    <3> QED
      BY <2>2, <3>1 DEF Lifecycle!Next
  <2>6. CASE status[j] = "completed"
    <3>1. Phase[j] = "completed"
      BY <2>2, <2>6, PhaseValue DEF Terminal
    <3>2. j \in ReportJobs /\ faults > 0
      BY <2>1, <2>2, <2>6, JobsAssumption
         DEF ResultSeen, KindsKept, JobsOf, Kind, Jobs
    <3>3. Lifecycle!Revise(j) \/ UNCHANGED <<Phase, faults>>
      BY <2>1, <2>2, <2>6, <3>1, <3>2, StutterOrBecome DEF Lifecycle!Revise
    <3> QED
      BY <2>2, <3>3 DEF Lifecycle!Next
  <2> QED
    BY <2>3, <2>4, <2>5, <2>6
<1>10. CASE StatementFails(t) \/ LockFails(t)
  <2>1. status' = status /\ faults' = faults + 1
    BY <1>10 DEF StatementFails, LockFails, Fault
  <2>3. \A u \in Threads \ {t} : pc'[u] = pc[u] /\ work'[u] = work[u]
    BY <1>10 DEF StatementFails, LockFails, TypeOK
  <2>2. ASSUME NEW i \in Jobs, status[i] \in Active, Executing(i)'
        PROVE  Executing(i)
    <3>1. PICK u \in Threads : work'[u] = i /\ pc'[u] \in Exec
      BY <2>2 DEF Executing
    <3>2. CASE u # t
      BY <2>3, <3>1, <3>2 DEF Executing
    <3>3. CASE u = t
      <4>1. work[t] = i /\ pc[t] \in {"executing", "auditing"}
        BY <1>10, <3>1, <3>3 DEF StatementFails, LockFails, TypeOK
      <4>2. pc[t] = "executing"
        BY <2>2, <4>1 DEF ResultSeen
      <4> QED
        BY <4>1, <4>2 DEF Executing
    <3> QED
      BY <3>2, <3>3
  <2> QED
    BY <2>1, <2>2, FaultRefines DEF Lifecycle!Next
<1>11. CASE \E result \in Terminal : RecordMaintenance(t, result)
  <2>1. PICK result \in Terminal : RecordMaintenance(t, result)
    BY <1>11
  <2> QED
    BY <1>8, <2>1
<1>12. CASE RecordReport(t)
  BY <1>8, <1>12 DEF Terminal
<1> QED
  BY <1>3, <1>5, <1>6, <1>9, <1>10, <1>11, <1>12 DEF ThreadStep

(* A sweep moves rows between "running" and "queued" only, which are one   *)
(* phase to whoever executes the job, or to nobody.                        *)
LEMMA SweepRefines ==
  ASSUME RInv, RInv', NEW s \in Sweepers, SweepStep(s) \/ SweepFails(s)
  PROVE  Lifecycle!Next \/ UNCHANGED <<Phase, faults>>
<1> USE DEF RInv, IInv, rows, threadVars, requestVars, SweepFrame
<1>1. UNCHANGED <<pc, work>>
  BY DEF SweepStep, SweepFails, SweepStart, ProbeBusy, ProbeFree, Resubmit,
         ProbeRelease, Reset, SweepReports, CommandEnds, ListMaintenance,
         ListReports, SweepDone
<1>2. \A j \in Jobs : Executing(j)' <=> Executing(j)
  BY <1>1 DEF Executing
<1>3. CASE SweepFails(s)
  BY <1>2, <1>3, FaultRefines DEF SweepFails, Fault, Lifecycle!Next
<1>4. CASE SweepStep(s)
  <2>1. faults' = faults
    BY <1>4 DEF SweepStep, SweepStart, ProbeBusy, ProbeFree, Resubmit,
                ProbeRelease, Reset, SweepReports, CommandEnds,
                ListMaintenance, ListReports, SweepDone
  <2>2. \A j \in Jobs :
          \/ status'[j] = status[j]
          \/ status[j] \in Active /\ status'[j] \in Active
    <3>1. CASE Reset(s)
      BY <3>1 DEF Reset, TypeOK, Active
    <3> QED
      BY <1>4, <3>1
         DEF SweepStep, SweepStart, ProbeBusy, ProbeFree, Resubmit,
             ProbeRelease, SweepReports, CommandEnds, ListMaintenance,
             ListReports, SweepDone
  <2>3. \A j \in Jobs : Phase'[j] = Phase[j]
    BY <1>2, <2>2, PhaseKept
  <2> QED
    BY <2>1, <2>3, Stutter
<1> QED
  BY <1>3, <1>4

(* Starts change no phase; deaths are faults; deletions are deletions.     *)
LEMMA ProcessRefines ==
  ASSUME RInv, RInv',
         \/ \E p \in Procs : Start(p) \/ Crash(p)
         \/ \E c \in Commands : CommandKilled(c)
         \/ \E j \in Jobs : DeleteRow(j)
  PROVE  Lifecycle!Next \/ UNCHANGED <<Phase, faults>>
<1> USE DEF RInv, IInv, rows, threadVars, requestVars, sweepVars, SweepFrame
<1>1. ASSUME NEW p \in Procs, Start(p)
      PROVE  UNCHANGED <<Phase, faults>>
  <2>1. \A j \in Jobs : Executing(j)' <=> Executing(j)
    BY <1>1 DEF Executing, Start
  <2>2. Phase' = Phase
    BY <1>1, <2>1, PhaseKept, Stutter DEF Start
  <2> QED
    BY <1>1, <2>2 DEF Start
<1>2. ASSUME NEW p \in Procs, Crash(p)
      PROVE  Lifecycle!Next
  <2>1. \A t \in Threads :
          pc'[t] = "idle" \/ (pc'[t] = pc[t] /\ work'[t] = work[t])
    BY <1>2 DEF Crash
  <2>2. \A j \in Jobs : Executing(j)' => Executing(j)
    BY <2>1 DEF Executing
  <2> QED
    BY <1>2, <2>2, FaultRefines DEF Crash, Fault, Lifecycle!Next
<1>3. ASSUME NEW c \in Commands, CommandKilled(c)
      PROVE  Lifecycle!Next
  <2>1. \A j \in Jobs : Executing(j)' => Executing(j)
    BY <1>3 DEF Executing, CommandKilled
  <2> QED
    BY <1>3, <2>1, FaultRefines DEF CommandKilled, Fault, Lifecycle!Next
<1>4. ASSUME NEW j \in Jobs, DeleteRow(j)
      PROVE  Lifecycle!Next
  <2>1. \A i \in Jobs : Executing(i)' <=> Executing(i)
    BY <1>4 DEF Executing, DeleteRow
  <2>2. \A i \in Jobs \ {j} : Phase'[i] = Phase[i]
    BY <1>4, <2>1, PhaseKept DEF DeleteRow, TypeOK
  <2>3. Phase'[j] = "deleted"
    BY <1>4, PhaseValueNext DEF DeleteRow, TypeOK
  <2>4. Phase[j] \notin {"none", "deleted"}
    <3>1. status[j] \in Active \union Terminal
      BY <1>4 DEF DeleteRow, TypeOK, Statuses
    <3>2. Phase[j] \in {"executing", "pending"} \union Terminal
      BY <3>1, PhaseValue
    <3> QED
      BY <3>2 DEF Terminal
  <2>5. Phase' = [Phase EXCEPT ![j] = "deleted"]
    BY <2>2, <2>3, PhaseIsFunction
  <2> QED
    BY <1>4, <2>4, <2>5 DEF DeleteRow, Lifecycle!Delete, Lifecycle!Next
<1> QED
  BY <1>1, <1>2, <1>3, <1>4

(* The job queue, with all its processes, locks, sweeps, deaths and        *)
(* failing statements, implements the life of a job: an execution begins   *)
(* only from pending, is lost only to a fault, and ends in one result.     *)
THEOREM Refinement == Spec => ImplementsLifecycle
<1>1. Init => Lifecycle!Init
  <2> SUFFICES ASSUME Init
               PROVE  Lifecycle!Init
    OBVIOUS
  <2>1. TypeOK
    BY TypeInit
  <2>2. ASSUME NEW j \in Jobs
        PROVE  Phase[j] \in Lifecycle!Phases \ {"executing"}
    <3>1. ~Executing(j)
      BY DEF Executing, Init
    <3> QED
      BY <2>1, <3>1, PhaseValue
         DEF Lifecycle!Phases, TypeOK, Statuses, Active, Terminal
  <2>3. Phase \in [Jobs -> Lifecycle!Phases \ {"executing"}]
    BY <2>2, PhaseIsFunction
  <2> QED
    BY <2>3 DEF Init, Lifecycle!Init
<1>2. RInv /\ RInv' /\ [Next]_vars => [Lifecycle!Next]_(Lifecycle!vars)
  <2> SUFFICES ASSUME RInv, RInv', [Next]_vars
               PROVE  Lifecycle!Next \/ UNCHANGED <<Phase, faults>>
    BY DEF Lifecycle!vars
  <2>1. CASE UNCHANGED vars
    <3>1. \A j \in Jobs : Executing(j)' <=> Executing(j)
      BY <2>1 DEF Executing, vars
    <3> QED
      BY <2>1, <3>1, PhaseKept, Stutter DEF vars, RInv, IInv
  <2>2. ASSUME NEW p \in Procs, NEW j \in Jobs, RequestStep(p, j)
        PROVE  Lifecycle!Next \/ UNCHANGED <<Phase, faults>>
    BY <2>2, RequestRefines DEF Lifecycle!Next
  <2> QED
    BY <2>1, <2>2, ThreadRefines, SweepRefines, ProcessRefines DEF Next
<1> QED
  BY <1>1, <1>2, RefinementInvariance, PTL
     DEF Spec, ImplementsLifecycle, Lifecycle!Spec

-----------------------------------------------------------------------------
(* The rows, as JobRows describes them.                                    *)

(* One row gets another status by one of the steps of JobRows.             *)
LEMMA RowMoves ==
  ASSUME TypeOK, NEW j \in Jobs, NEW to, status' = [status EXCEPT ![j] = to],
         \/ status[j] = "absent" /\ to = "queued"
         \/ status[j] \in Active /\ to \in Terminal
         \/ status[j] = "queued" /\ to = "running"
         \/ status[j] = "running" /\ to = "queued"
         \/ j \in ReportJobs /\ status[j] = "completed" /\ to = "failed"
         \/ status[j] \in Active \union Terminal /\ to = "deleted"
  PROVE  Rows!RowsNext
<1>1. j \in Rows!Jobs
  BY DEF Jobs, Rows!Jobs
<1>2. Rows!RowStep(j)
  BY DEF Rows!RowStep, Rows!Create, Rows!Begin, Rows!Requeue, Rows!Finish, Rows!FinishRequeued,
         Rows!AuditFails, Rows!Delete, Rows!Become, Rows!Active, Rows!Terminal, Active, Terminal
<1> QED
  BY <1>1, <1>2 DEF Rows!RowsNext

(* A row written with the value it has does not change.                    *)
LEMMA RowStays ==
  ASSUME TypeOK, NEW j \in Jobs, status' = [status EXCEPT ![j] = status[j]]
  PROVE  status' = status
BY DEF TypeOK

(* A result is written over an active row, or over nothing; a failure also *)
(* over the result of a report that could not be audited.                  *)
LEMMA ThreadRows ==
  ASSUME RInv, NEW t \in Threads, ThreadStep(t)
  PROVE  Rows!RowsNext \/ UNCHANGED status
<1> DEFINE j == work[t]
<1> USE DEF RInv, IInv, rows, Goto
<1>1. pc[t] # "idle" => j \in Jobs
  BY DEF LockHeld
<1>2. CASE ClaimWon(t)
  BY <1>1, <1>2, RowMoves DEF ClaimWon
<1>3. ASSUME NEW result \in Terminal, pc[t] = "executing", SetStatus(j, result)
      PROVE  Rows!RowsNext \/ UNCHANGED status
  <2>1. j \in Jobs /\ status[j] \in Active \union {"deleted"}
    BY <1>1, <1>3 DEF RowOpen, Working, TypeOK, Statuses
  <2> QED
    BY <1>3, <2>1, RowMoves, RowStays DEF SetStatus, Active
<1>4. CASE Rescue(t)
  <2>1. /\ j \in Jobs /\ pc[t] = "rescuing"
        /\ status' = [status EXCEPT ![j] = IF @ = "deleted" THEN @ ELSE "failed"]
    BY <1>1, <1>4 DEF Rescue, SetStatus
  <2>2. j \in ReportJobs
    BY <2>1, JobsAssumption DEF ResultSeen, KindsKept, JobsOf, Kind, Jobs
  <2>3. status[j] \in Active \union {"completed", "failed", "deleted"}
    BY <2>1 DEF RowOpen, Working, TypeOK, Statuses, Terminal
  <2> QED
    BY <2>1, <2>2, <2>3, RowMoves, RowStays DEF Active, Terminal
<1>5. ASSUME NEW result \in Terminal, RecordMaintenance(t, result)
      PROVE  Rows!RowsNext \/ UNCHANGED status
  BY <1>3, <1>5 DEF RecordMaintenance
<1>6. CASE RecordReport(t)
  BY <1>3, <1>6 DEF RecordReport, Terminal
<1> QED
  BY <1>2, <1>4, <1>5, <1>6
     DEF ThreadStep, Take, Lock, ClaimLost, Load, LoadDeleted, BuildFails, Audit, Release

(* Whatever the processes, threads and sweeps of JobQueue do, in whatever  *)
(* order and with whatever faults, the rows change as JobRows says.        *)
THEOREM RowsRefinement == Spec => ImplementsRows
<1>1. Init => Rows!RowsInit
  BY DEF Init, Jobs, Statuses, Active, Terminal,
         Rows!RowsInit, Rows!Jobs, Rows!Statuses, Rows!Active, Rows!Terminal
<1>2. RInv /\ [Next]_vars => [Rows!RowsNext]_status
  <2> SUFFICES ASSUME RInv, [Next]_vars
               PROVE  Rows!RowsNext \/ UNCHANGED status
    OBVIOUS
  <2> USE DEF RInv, IInv, rows, SweepFrame
  <2>1. ASSUME NEW p \in Procs, NEW j \in Jobs, RequestStep(p, j)
        PROVE  Rows!RowsNext \/ UNCHANGED status
    <3>1. CASE RequestMaintenance(p, j) \/ CreateReport(p, j)
      BY <3>1, RowMoves DEF RequestMaintenance, CreateReport, CreatingNew
    <3> QED
      BY <2>1, <3>1 DEF RequestStep, CheckReport, Submit, RequestFails
  <2>2. ASSUME NEW s \in Sweepers, Reset(s)
        PROVE  Rows!RowsNext \/ UNCHANGED status
    <3> DEFINE j == sweepJob[s]
    <3>1. status' = [status EXCEPT ![j] = IF @ = "running" THEN "queued" ELSE @]
      BY <2>2 DEF Reset
    <3>2. CASE j \in Jobs
      BY <3>1, <3>2, RowMoves, RowStays
    <3>3. CASE j \notin Jobs
      BY <3>1, <3>3 DEF TypeOK
    <3> QED
      BY <3>2, <3>3
  <2>3. ASSUME NEW s \in Sweepers, SweepStep(s) \/ SweepFails(s)
        PROVE  Rows!RowsNext \/ UNCHANGED status
    BY <2>2, <2>3
       DEF SweepStep, SweepFails, SweepStart, ProbeBusy, ProbeFree, Resubmit, ProbeRelease,
           SweepReports, CommandEnds, ListMaintenance, ListReports, SweepDone
  <2>4. ASSUME NEW j \in Jobs, DeleteRow(j)
        PROVE  Rows!RowsNext \/ UNCHANGED status
    <3>1. status[j] \in Active \union Terminal
      BY <2>4 DEF DeleteRow, TypeOK, Statuses
    <3> QED
      BY <2>4, <3>1, RowMoves DEF DeleteRow
  <2> QED
    BY <2>1, <2>3, <2>4, ThreadRows
       DEF Next, vars, Start, Crash, CommandKilled, StatementFails, LockFails
<1> QED
  BY <1>1, <1>2, RefinementInvariance, PTL DEF Spec, ImplementsRows, Rows!RowsSpec
=============================================================================
