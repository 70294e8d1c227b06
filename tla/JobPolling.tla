---------------------------- MODULE JobPolling ----------------------------
(***************************************************************************)
(* How one browser tab follows background jobs (static/js/home.js).        *)
(*                                                                         *)
(* The tab keeps a map of the maintenance jobs it follows, maintenanceJobs.*)
(* A job enters it when the POST that started it is answered, or when the  *)
(* list of the user's jobs, asked for every ten seconds and after every    *)
(* poll, names an active job that is not in the map (one started in        *)
(* another tab, or before a reload).  Each of them starts a chain of polls:*)
(* a timer, a request, an answer, and again a timer while the job is       *)
(* active.  Reports are polled in the same way but are not in the map.     *)
(* Requests are answered in any order, by the rows as they are when the    *)
(* server looks at them, or are lost (connectionRequest gives up after     *)
(* twenty seconds).  The rows change as JobRows says, which JobQueue       *)
(* implements.  The user keeps one connection selected, and has not more   *)
(* jobs than the 25 of the list; the reports are of that connection and of *)
(* one language.                                                           *)
(***************************************************************************)
EXTENDS JobRows, Naturals, FiniteSets

CONSTANTS
  Chains,           \* bound: chains of polls that may exist at once
  Loads,            \* bound: requests for the list that may be under way
  MaxReportChains,  \* bound: chains of reports at which no report is started
  None              \* no job

ASSUME PollingAssumption ==
  /\ MaintenanceJobs \intersect ReportJobs = {}
  /\ None \notin Jobs
  /\ IsFiniteSet(Chains)
  /\ MaxReportChains \in Nat

VARIABLES
  tracked,     \* keys of maintenanceJobs
  chain,       \* chain[c]: a chain of polls
  load,        \* load[l]: a request for the list
  start,       \* start[j]: the POST that is to create maintenance job j
  reportPost,  \* the POST of a report; its button is disabled meanwhile
  hidden,      \* document.hidden
  told         \* told[j]: what the user has been told of j in this tab

vars == <<status, tracked, chain, load, start, reportPost, hidden, told>>

(* Where a chain is: waiting for its timer, for the server, or with the    *)
(* answer on its way.                                                      *)
Answers == Active \union Terminal \union {"error"}
ChainAts == {"free", "timer", "asked"} \union Answers
FreeChain == [job |-> None, at |-> "free"]
FreeLoad == [at |-> "free", seen |-> {}]
Posts == {"none", "asked", "answered", "refused", "over"}

TypeOK ==
  /\ status \in [Jobs -> Statuses]
  /\ tracked \subseteq MaintenanceJobs
  /\ chain \in [Chains -> [job : Jobs \union {None}, at : ChainAts]]
  /\ \A c \in Chains : chain[c].job = None <=> chain[c].at = "free"
  /\ load \in [Loads -> [at : {"free", "asked", "answered"},
                         seen : SUBSET MaintenanceJobs]]
  /\ start \in [MaintenanceJobs -> Posts]
  /\ reportPost \in {"none", "asked", "refused"} \union ReportJobs
  /\ hidden \in BOOLEAN
  /\ told \in [Jobs -> SUBSET (Terminal \union {"error"})]

(* The page has been loaded; the server may have jobs of any age, and the  *)
(* list has been asked for.                                                *)
Init ==
  /\ RowsInit
  /\ tracked = {}
  /\ chain = [c \in Chains |-> FreeChain]
  /\ \E first \in Loads :
       load = [l \in Loads |-> [at |-> IF l = first THEN "asked" ELSE "free",
                                seen |-> {}]]
  /\ start = [j \in MaintenanceJobs |-> "none"]
  /\ reportPost = "none"
  /\ hidden = FALSE
  /\ told = [j \in Jobs |-> {}]

FreeChains == {c \in Chains : chain[c] = FreeChain}
PollsOf(j) == {c \in Chains : chain[c].job = j}

(* When all Loads are under way one more request would be answered as they *)
(* are, and is left out.                                                   *)
RequestList ==
  LET free == {l \in Loads : load[l].at = "free"}
  IN  IF free = {}
        THEN UNCHANGED load
        ELSE \E l \in free : load' = [load EXCEPT ![l].at = "asked"]

(* Nothing is asked for in a hidden tab.                                   *)
LoadBackgroundJobs == IF hidden THEN UNCHANGED load ELSE RequestList

(* The user is told of j's result, or of an error in place of it.          *)
Tell(j, what) == told' = [told EXCEPT ![j] = @ \union {what}]

(* Mutant of Continue: the next timer is not set.                          *)
ContinueMutant(c) == chain' = [chain EXCEPT ![c] = FreeChain]

(* The answer says that the job is still active.                           *)
Continue(c) == chain' = [chain EXCEPT ![c].at = "timer"]

(* Mutant of End: the timer is forgotten but its job is not.               *)
EndMutant(c) == chain' = [chain EXCEPT ![c].at = "free"]
End(c) == chain' = [chain EXCEPT ![c] = FreeChain]

-----------------------------------------------------------------------------
(* The server, and the jobs of other tabs.                                 *)

ServerOnly == UNCHANGED <<tracked, chain, load, start, reportPost, hidden, told>>

JobStep(j) == RowStep(j) /\ ServerOnly

-----------------------------------------------------------------------------
(* startMaintenanceOperation.                                              *)

StartOperation(j) ==
  /\ start[j] = "none"
  /\ status[j] = "absent"
  /\ start' = [start EXCEPT ![j] = "asked"]
  /\ UNCHANGED <<status, tracked, chain, load, reportPost, hidden, told>>

CreateJob(j) ==
  /\ start[j] = "asked"
  /\ Create(j)
  /\ start' = [start EXCEPT ![j] = "answered"]
  /\ UNCHANGED <<tracked, chain, load, reportPost, hidden, told>>

RefuseJob(j) ==
  /\ start[j] = "asked"
  /\ start' = [start EXCEPT ![j] = "refused"]
  /\ UNCHANGED <<status, tracked, chain, load, reportPost, hidden, told>>

OperationStarted(j) ==
  /\ start[j] = "answered"
  /\ start' = [start EXCEPT ![j] = "over"]
  /\ tracked' = tracked \union {j}
  /\ \E c \in FreeChains : chain' = [chain EXCEPT ![c] = [job |-> j, at |-> "timer"]]
  /\ LoadBackgroundJobs
  /\ UNCHANGED <<status, reportPost, hidden, told>>

(* Refused, lost on its way, or given up by connectionRequest.             *)
OperationFailed(j) ==
  /\ start[j] \in {"asked", "answered", "refused"}
  /\ start' = [start EXCEPT ![j] = "over"]
  /\ Tell(j, "error")
  /\ UNCHANGED <<status, tracked, chain, load, reportPost, hidden>>

-----------------------------------------------------------------------------
(* The click on databasePdfReportBtn.                                      *)

StartReport ==
  /\ reportPost = "none"
  /\ Cardinality(UNION {PollsOf(r) : r \in ReportJobs}) < MaxReportChains
  /\ reportPost' = "asked"
  /\ UNCHANGED <<status, tracked, chain, load, start, hidden, told>>

(* A new report, or the active one of the same connection and language.    *)
CreateReport(r) ==
  /\ reportPost = "asked"
  /\ \/ status[r] \in Active
     \/ status[r] = "absent" /\ \A i \in ReportJobs : status[i] \notin Active
  /\ status' = [status EXCEPT ![r] = IF @ = "absent" THEN "queued" ELSE @]
  /\ reportPost' = r
  /\ UNCHANGED <<tracked, chain, load, start, hidden, told>>

RefuseReport ==
  /\ reportPost = "asked"
  /\ reportPost' = "refused"
  /\ UNCHANGED <<status, tracked, chain, load, start, hidden, told>>

ReportStarted(r) ==
  /\ reportPost = r
  /\ reportPost' = "none"
  /\ \E c \in FreeChains : chain' = [chain EXCEPT ![c] = [job |-> r, at |-> "timer"]]
  /\ LoadBackgroundJobs
  /\ UNCHANGED <<status, tracked, start, hidden, told>>

ReportFailed ==
  /\ reportPost # "none"
  /\ reportPost' = "none"
  /\ UNCHANGED <<status, tracked, chain, load, start, hidden, told>>

-----------------------------------------------------------------------------
(* pollMaintenanceJob and pollReportJob.                                   *)

ChainOnly == UNCHANGED <<status, tracked, load, start, reportPost, hidden, told>>

TimerFires(c) ==
  chain[c].at = "timer" /\ chain' = [chain EXCEPT ![c].at = "asked"] /\ ChainOnly

(* A row that is gone is answered with 404.                                *)
PollAnswered(c) ==
  /\ chain[c].at = "asked"
  /\ LET s == status[chain[c].job]
     IN  chain' = [chain EXCEPT ![c].at = IF s \in Active \union Terminal THEN s ELSE "error"]
  /\ ChainOnly

PollLost(c) ==
  chain[c].at = "asked" /\ chain' = [chain EXCEPT ![c].at = "error"] /\ ChainOnly

(* The job is followed: it is in the map, or it is a report.               *)
Followed(c) == chain[c].job \in tracked \union ReportJobs

StillActive(c) ==
  /\ chain[c].at \in Active
  /\ Followed(c)
  /\ Continue(c)
  /\ LoadBackgroundJobs
  /\ UNCHANGED <<status, tracked, start, reportPost, hidden, told>>

NotFollowed(c) ==
  /\ chain[c].at \in Active \union Terminal
  /\ ~Followed(c)
  /\ End(c)
  /\ ChainOnly

(* Mutant of Finished: the return after the next timer is missing.         *)
FinishedMutant(c) ==
  LET j == chain[c].job
  IN  /\ chain[c].at \in Terminal
      /\ Followed(c)
      /\ tracked' = tracked \ {j}
      /\ Tell(j, chain[c].at)
      /\ Continue(c)
      /\ LoadBackgroundJobs
      /\ UNCHANGED <<status, start, reportPost, hidden>>

Finished(c) ==
  LET j == chain[c].job
  IN  /\ chain[c].at \in Terminal
      /\ Followed(c)
      /\ tracked' = tracked \ {j}
      /\ Tell(j, chain[c].at)
      /\ End(c)
      /\ LoadBackgroundJobs
      /\ UNCHANGED <<status, start, reportPost, hidden>>

(* Mutants of PollFailed: an error is shown as the job's failure; the job  *)
(* stays in the map.                                                       *)
PollFailedAsResult(c) ==
  LET j == chain[c].job
  IN  /\ chain[c].at = "error"
      /\ tracked' = tracked \ {j}
      /\ Tell(j, "failed")
      /\ End(c)
      /\ UNCHANGED <<status, load, start, reportPost, hidden>>

PollFailedMutant(c) ==
  LET j == chain[c].job
  IN  /\ chain[c].at = "error"
      /\ Tell(j, "error")
      /\ End(c)
      /\ UNCHANGED <<status, tracked, load, start, reportPost, hidden>>

PollFailed(c) ==
  LET j == chain[c].job
  IN  /\ chain[c].at = "error"
      /\ tracked' = tracked \ {j}
      /\ Tell(j, "error")
      /\ End(c)
      /\ UNCHANGED <<status, load, start, reportPost, hidden>>

-----------------------------------------------------------------------------
(* loadBackgroundJobs.                                                     *)

IntervalLoad ==
  /\ LoadBackgroundJobs
  /\ UNCHANGED <<status, tracked, chain, start, reportPost, hidden, told>>

LoadOnly == UNCHANGED <<status, tracked, chain, start, reportPost, hidden, told>>

ListAnswered(l) ==
  /\ load[l].at = "asked"
  /\ load' = [load EXCEPT ![l] =
       [at |-> "answered", seen |-> {j \in MaintenanceJobs : status[j] \in Active}]]
  /\ LoadOnly

(* Mutant of Adoptable: without the look at maintenanceJobs.has.           *)
AdoptableMutant(l) == load[l].seen
Adoptable(l) == load[l].seen \ tracked

(* Every active job of the answer that is not in the map is followed.      *)
ListArrives(l) ==
  /\ load[l].at = "answered"
  /\ load' = [load EXCEPT ![l] = FreeLoad]
  /\ tracked' = tracked \union Adoptable(l)
  /\ \E new \in [Adoptable(l) -> FreeChains] :
       /\ \A i, j \in Adoptable(l) : new[i] = new[j] => i = j
       /\ chain' = [c \in Chains |->
            IF \E j \in Adoptable(l) : new[j] = c
              THEN [job |-> CHOOSE j \in Adoptable(l) : new[j] = c, at |-> "timer"]
              ELSE chain[c]]
  /\ UNCHANGED <<status, start, reportPost, hidden, told>>

(* Lost, given up, or refused: nothing is followed.                        *)
ListFailed(l) ==
  load[l].at # "free" /\ load' = [load EXCEPT ![l] = FreeLoad] /\ LoadOnly

(* A tab that is shown again catches up immediately.                       *)
Hide ==
  /\ ~hidden
  /\ hidden' = TRUE
  /\ UNCHANGED <<status, tracked, chain, load, start, reportPost, told>>

Show ==
  /\ hidden
  /\ hidden' = FALSE
  /\ RequestList
  /\ UNCHANGED <<status, tracked, chain, start, reportPost, told>>

-----------------------------------------------------------------------------
PostStep(j) ==
  \/ CreateJob(j)
  \/ RefuseJob(j)
  \/ OperationStarted(j)
  \/ OperationFailed(j)

ReportPostStep ==
  \/ \E r \in ReportJobs : CreateReport(r) \/ ReportStarted(r)
  \/ RefuseReport
  \/ ReportFailed

PollStep(c) ==
  \/ TimerFires(c)
  \/ PollAnswered(c)
  \/ PollLost(c)
  \/ StillActive(c)
  \/ NotFollowed(c)
  \/ Finished(c)
  \/ PollFailed(c)

ListStep(l) ==
  \/ ListAnswered(l)
  \/ ListArrives(l)
  \/ ListFailed(l)

Next ==
  \/ \E j \in Jobs : JobStep(j)
  \/ \E j \in MaintenanceJobs : StartOperation(j) \/ PostStep(j)
  \/ StartReport
  \/ ReportPostStep
  \/ \E c \in Chains : PollStep(c)
  \/ \E l \in Loads : ListStep(l)
  \/ IntervalLoad
  \/ Hide
  \/ Show

Spec == Init /\ [][Next]_vars

(* Timers fire and every request is answered or given up.  A job does not  *)
(* stay queued or running: JobQueue!TakenCareOfFinishes; a recovery may    *)
(* put it back in the queue, but not for ever.                             *)
Fairness ==
  /\ \A j \in Jobs : /\ WF_vars(Begin(j) /\ ServerOnly)
                      /\ SF_vars(Finish(j) /\ ServerOnly)
  /\ \A j \in MaintenanceJobs : WF_vars(PostStep(j))
  /\ WF_vars(ReportPostStep)
  /\ \A c \in Chains : WF_vars(PollStep(c))
  /\ \A l \in Loads : WF_vars(ListStep(l))

LiveSpec == Spec /\ Fairness

-----------------------------------------------------------------------------
(* Properties.                                                             *)

(* A job in the map is being polled.  Otherwise it would stay there for    *)
(* ever, since maintenanceJobs.has keeps later lists from following it     *)
(* again, and the buttons of its table would stay disabled                 *)
(* (home.js:3145, 3233).                                                   *)
TrackedIsPolled == \A j \in tracked : PollsOf(j) # {}

(* The answers of a POST, of lists that overtake it, and of lists that     *)
(* arrive after the result has been shown never pile up chains: a job has  *)
(* at most one for being in the map and one for its POST.                  *)
PollsBounded ==
  \A j \in MaintenanceJobs :
    Cardinality(PollsOf(j)) <= (IF j \in tracked THEN 1 ELSE 0)
                               + (IF start[j] = "over" THEN 1 ELSE 0)

(* The result a user is shown is the job's, however late the answer; only  *)
(* a report said to be ready may turn out to have failed.                  *)
ShownIsTrue ==
  \A j \in Jobs : \A result \in told[j] \intersect Terminal :
    \/ status[j] \in {result, "deleted"}
    \/ j \in ReportJobs /\ result = "completed" /\ status[j] = "failed"

(* Whoever starts an operation in this tab is told how it ended, or that   *)
(* it could not be started or followed.                                    *)
StartIsReported ==
  \A j \in MaintenanceJobs : start[j] = "asked" ~> told[j] # {}

(* Polling stops: once a job has its result no chain goes on for ever, and *)
(* no late list starts chains again and again.                             *)
PollingStops ==
  \A j \in Jobs : status[j] \in Terminal ~> [](PollsOf(j) = {} /\ j \notin tracked)
=============================================================================
