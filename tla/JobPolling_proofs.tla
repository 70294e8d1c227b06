------------------------- MODULE JobPolling_proofs -------------------------
(***************************************************************************)
(* What TLAPS proves about JobPolling, for any jobs, any number of chains  *)
(* of polls and any number of lists under way.                             *)
(***************************************************************************)
EXTENDS JobPolling, FiniteSetTheorems, TLAPS

(* The result a tab knows of a job, whether it is on its way or shown.     *)
IsResultOf(result, j) ==
  \/ status[j] \in {result, "deleted"}
  \/ j \in ReportJobs /\ result = "completed" /\ status[j] = "failed"

(* The results that are on their way are true.                             *)
AnswersAreTrue ==
  \A c \in Chains : chain[c].at \in Terminal => IsResultOf(chain[c].at, chain[c].job)

PollInv ==
  /\ TypeOK
  /\ TrackedIsPolled
  /\ PollsBounded
  /\ AnswersAreTrue
  /\ ShownIsTrue

-----------------------------------------------------------------------------
(* Chains of polls.                                                        *)

(* The types of the chains alone.                                          *)
ChainType ==
  /\ chain \in [Chains -> [job : Jobs \union {None}, at : ChainAts]]
  /\ \A c \in Chains : chain[c].job = None <=> chain[c].at = "free"

StartChain(c, j) == chain' = [chain EXCEPT ![c] = [job |-> j, at |-> "timer"]]

(* What the list makes of the chains.                                      *)
Adopted(l, new) ==
  chain' = [c \in Chains |->
    IF \E j \in Adoptable(l) : new[j] = c
      THEN [job |-> CHOOSE j \in Adoptable(l) : new[j] = c, at |-> "timer"]
      ELSE chain[c]]

(* The type of the chains after a step that only moves one of them.        *)
LEMMA MovedChain ==
  ASSUME ChainType, NEW c \in Chains, NEW at \in ChainAts \ {"free"},
         chain[c].at # "free", chain' = [chain EXCEPT ![c].at = at]
  PROVE  /\ ChainType'
         /\ \A d \in Chains : chain'[d].job = chain[d].job
         /\ \A d \in Chains : d # c => chain'[d] = chain[d]
         /\ chain'[c].at = at
         /\ \A j \in Jobs : PollsOf(j)' = PollsOf(j)
BY DEF ChainType, PollsOf

LEMMA EndedChain ==
  ASSUME ChainType, NEW c \in Chains, End(c)
  PROVE  /\ ChainType'
         /\ \A d \in Chains : d # c => chain'[d] = chain[d]
         /\ chain'[c] = FreeChain
         /\ \A j \in Jobs : PollsOf(j)' = PollsOf(j) \ {c}
BY PollingAssumption DEF ChainType, PollsOf, End, FreeChain, ChainAts, Jobs

LEMMA StartedChain ==
  ASSUME ChainType, NEW c \in FreeChains, NEW j \in Jobs, StartChain(c, j)
  PROVE  /\ ChainType'
         /\ \A d \in Chains : d # c => chain'[d] = chain[d]
         /\ chain'[c] = [job |-> j, at |-> "timer"]
         /\ PollsOf(j)' = PollsOf(j) \union {c}
         /\ \A i \in Jobs : i # j => PollsOf(i)' = PollsOf(i)
<1>1. c \in Chains /\ chain[c].job = None /\ None \notin Jobs
  BY PollingAssumption DEF FreeChains, FreeChain
<1>2. /\ \A d \in Chains : d # c => chain'[d] = chain[d]
      /\ chain'[c] = [job |-> j, at |-> "timer"]
  BY <1>1 DEF StartChain, ChainType
<1> QED
  BY <1>1, <1>2 DEF StartChain, ChainType, PollsOf, ChainAts

LEMMA AdoptedChains ==
  ASSUME TypeOK, NEW l \in Loads, NEW new \in [Adoptable(l) -> FreeChains],
         \A i, j \in Adoptable(l) : new[i] = new[j] => i = j, Adopted(l, new)
  PROVE  /\ ChainType'
         /\ \A j \in Jobs \ Adoptable(l) : PollsOf(j)' = PollsOf(j)
         /\ \A j \in Adoptable(l) : PollsOf(j)' = PollsOf(j) \union {new[j]}
         /\ \A d \in Chains : \/ chain'[d] = chain[d]
                               \/ \E j \in Adoptable(l) : chain'[d] = [job |-> j, at |-> "timer"]
<1> DEFINE A == Adoptable(l)
<1>1. A \subseteq MaintenanceJobs /\ A \subseteq Jobs /\ None \notin Jobs /\ ChainType
  BY PollingAssumption DEF Adoptable, TypeOK, Jobs, ChainType
<1>2. \A j \in A : new[j] \in Chains /\ chain[new[j]] = FreeChain
  BY DEF FreeChains
<1>3. \A j \in A : chain'[new[j]] = [job |-> j, at |-> "timer"]
  <2> SUFFICES ASSUME NEW j \in A PROVE chain'[new[j]] = [job |-> j, at |-> "timer"]
    OBVIOUS
  <2>1. (CHOOSE i \in A : new[i] = new[j]) = j
    OBVIOUS
  <2>2. new[j] \in Chains /\ \E i \in A : new[i] = new[j]
    BY <1>2
  <2> QED
    BY <2>1, <2>2 DEF Adopted
<1>4. \A d \in Chains : (\A j \in A : new[j] # d) => chain'[d] = chain[d]
  BY DEF Adopted
<1>5. \A d \in Chains : \/ chain'[d] = chain[d]
                        \/ \E j \in A : new[j] = d /\ chain'[d] = [job |-> j, at |-> "timer"]
  BY <1>3, <1>4
<1>6. ChainType'
  <2>1. chain' = [d \in Chains |-> chain'[d]]
    BY DEF Adopted
  <2>2. ASSUME NEW d \in Chains
        PROVE  /\ chain'[d] \in [job : Jobs \union {None}, at : ChainAts]
               /\ chain'[d].job = None <=> chain'[d].at = "free"
    <3>1. CASE chain'[d] = chain[d]
      BY <1>1, <3>1 DEF ChainType
    <3>2. CASE \E j \in A : chain'[d] = [job |-> j, at |-> "timer"]
      BY <1>1, <3>2 DEF ChainAts
    <3> QED
      BY <1>5, <3>1, <3>2
  <2> QED
    BY <2>1, <2>2 DEF ChainType
<1>7. ASSUME NEW j \in Jobs \ A PROVE PollsOf(j)' = PollsOf(j)
  <2>1. ASSUME NEW d \in Chains PROVE chain'[d].job = j <=> chain[d].job = j
    <3>1. CASE chain'[d] = chain[d]
      BY <3>1
    <3>2. CASE \E i \in A : new[i] = d /\ chain'[d] = [job |-> i, at |-> "timer"]
      BY <1>1, <1>2, <1>7, <3>2 DEF FreeChain
    <3> QED
      BY <1>5, <3>1, <3>2
  <2> QED
    BY <2>1 DEF PollsOf
<1>8. ASSUME NEW j \in A PROVE PollsOf(j)' = PollsOf(j) \union {new[j]}
  <2>1. ASSUME NEW d \in Chains
        PROVE  chain'[d].job = j <=> chain[d].job = j \/ d = new[j]
    <3>1. CASE d = new[j]
      <4>1. chain'[d] = [job |-> j, at |-> "timer"]
        BY <1>3, <1>8, <3>1, Zenon
      <4> QED
        BY <3>1, <4>1
    <3>2. CASE d # new[j] /\ chain'[d] = chain[d]
      BY <3>2
    <3>3. CASE \E i \in A : i # j /\ new[i] = d /\ chain'[d] = [job |-> i, at |-> "timer"]
      BY <1>1, <1>2, <1>8, <3>3 DEF FreeChain
    <3> QED
      BY <1>5, <3>1, <3>2, <3>3
  <2> QED
    BY <1>2, <1>8, <2>1 DEF PollsOf
<1>9. \A d \in Chains : \/ chain'[d] = chain[d]
                        \/ \E j \in A : chain'[d] = [job |-> j, at |-> "timer"]
  BY <1>5, Zenon
<1> QED
  BY <1>6, <1>7, <1>8, <1>9, Zenon

-----------------------------------------------------------------------------
(* Type correctness.                                                       *)

LoadTypes == [Loads -> [at : {"free", "asked", "answered"},
                        seen : SUBSET MaintenanceJobs]]

(* The types of everything but the chains.                                 *)
OtherTypes ==
  /\ status \in [Jobs -> Statuses]
  /\ tracked \subseteq MaintenanceJobs
  /\ load \in LoadTypes
  /\ start \in [MaintenanceJobs -> Posts]
  /\ reportPost \in {"none", "asked", "refused"} \union ReportJobs
  /\ hidden \in BOOLEAN
  /\ told \in [Jobs -> SUBSET (Terminal \union {"error"})]

LEMMA TypeParts == TypeOK <=> ChainType /\ OtherTypes
BY DEF TypeOK, ChainType, OtherTypes, LoadTypes

LEMMA TypeInit == Init => TypeOK
<1> SUFFICES ASSUME Init PROVE ChainType /\ OtherTypes
  BY TypeParts
<1>1. ChainType
  BY PollingAssumption DEF Init, ChainType, FreeChain, ChainAts
<1>2. load \in LoadTypes
  BY DEF Init, LoadTypes
<1> QED
  BY <1>1, <1>2 DEF Init, RowsInit, OtherTypes, Posts

(* Every step of a list request changes it to one of the same kind.        *)
LEMMA LoadMoves ==
  ASSUME load \in LoadTypes, NEW l \in Loads
  PROVE  /\ \A at \in {"free", "asked", "answered"} :
              [load EXCEPT ![l].at = at] \in LoadTypes
         /\ \A seen \in SUBSET MaintenanceJobs :
              [load EXCEPT ![l] = [at |-> "answered", seen |-> seen]] \in LoadTypes
         /\ [load EXCEPT ![l] = FreeLoad] \in LoadTypes
BY DEF LoadTypes, FreeLoad

(* Asking for the list changes the list requests only.                     *)
LEMMA ListType ==
  ASSUME load \in LoadTypes, LoadBackgroundJobs \/ RequestList
  PROVE  load' \in LoadTypes
<1>1. ASSUME RequestList PROVE load' \in LoadTypes
  BY <1>1, LoadMoves DEF RequestList
<1> QED
  BY <1>1 DEF LoadBackgroundJobs

LEMMA TypeNext == TypeOK /\ [Next]_vars => TypeOK'
<1> SUFFICES ASSUME ChainType, OtherTypes, [Next]_vars PROVE ChainType' /\ OtherTypes'
  BY DEF TypeOK, ChainType, OtherTypes, LoadTypes
<1>1. ASSUME NEW j \in Jobs, JobStep(j) PROVE ChainType' /\ OtherTypes'
  <2>1. ChainType'
    BY <1>1 DEF JobStep, ServerOnly, ChainType
  <2>2. \E s \in Statuses : status' = [status EXCEPT ![j] = s]
    BY <1>1 DEF JobStep, RowStep, Create, Begin, Requeue, Finish, FinishRequeued, Delete,
                AuditFails, Become, Statuses, Active, Terminal
  <2>3. UNCHANGED <<tracked, load, start, reportPost, hidden, told>>
    BY <1>1 DEF JobStep, ServerOnly
  <2> QED
    BY <2>1, <2>2, <2>3 DEF OtherTypes
<1>2. ASSUME NEW j \in MaintenanceJobs, StartOperation(j) PROVE ChainType' /\ OtherTypes'
  BY <1>2 DEF StartOperation, ChainType, OtherTypes, Posts
<1>3. ASSUME NEW j \in MaintenanceJobs, PostStep(j) PROVE ChainType' /\ OtherTypes'
  <2>0. j \in Jobs
    BY DEF Jobs
  <2>1. CASE CreateJob(j)
    BY <2>0, <2>1
       DEF CreateJob, Create, Become, ChainType, OtherTypes, Posts, Statuses, Active
  <2>2. CASE RefuseJob(j)
    BY <2>2 DEF RefuseJob, ChainType, OtherTypes, Posts
  <2>3. CASE OperationStarted(j)
    <3>1. ChainType'
      BY <2>0, <2>3, StartedChain DEF OperationStarted, StartChain
    <3> QED
      BY <2>3, <3>1, ListType DEF OperationStarted, OtherTypes, Posts
  <2>4. CASE OperationFailed(j)
    BY <2>0, <2>4 DEF OperationFailed, Tell, ChainType, OtherTypes, Posts
  <2> QED
    BY <1>3, <2>1, <2>2, <2>3, <2>4 DEF PostStep
<1>4. ASSUME StartReport PROVE ChainType' /\ OtherTypes'
  BY <1>4 DEF StartReport, ChainType, OtherTypes
<1>5. ASSUME ReportPostStep PROVE ChainType' /\ OtherTypes'
  <2>1. ASSUME NEW r \in ReportJobs, CreateReport(r) PROVE ChainType' /\ OtherTypes'
    <3>1. r \in Jobs
      BY DEF Jobs
    <3> QED
      BY <2>1, <3>1 DEF CreateReport, ChainType, OtherTypes, Statuses, Active
  <2>2. ASSUME NEW r \in ReportJobs, ReportStarted(r) PROVE ChainType' /\ OtherTypes'
    <3>1. r \in Jobs
      BY DEF Jobs
    <3>2. ChainType'
      BY <2>2, <3>1, StartedChain DEF ReportStarted, StartChain
    <3> QED
      BY <2>2, <3>2, ListType DEF ReportStarted, OtherTypes
  <2>3. ASSUME RefuseReport \/ ReportFailed PROVE ChainType' /\ OtherTypes'
    BY <2>3 DEF RefuseReport, ReportFailed, ChainType, OtherTypes
  <2> QED
    BY <1>5, <2>1, <2>2, <2>3 DEF ReportPostStep
<1>6. ASSUME NEW c \in Chains, PollStep(c) PROVE ChainType' /\ OtherTypes'
  <2>1. CASE TimerFires(c) \/ PollAnswered(c) \/ PollLost(c)
    <3>1. \E at \in ChainAts \ {"free"} : chain' = [chain EXCEPT ![c].at = at]
      BY <2>1 DEF TimerFires, PollAnswered, PollLost, ChainAts, Answers, Active, Terminal
    <3>2. chain[c].at # "free" /\ ChainOnly
      BY <2>1 DEF TimerFires, PollAnswered, PollLost
    <3> QED
      BY <3>1, <3>2, MovedChain DEF ChainOnly, OtherTypes
  <2>2. CASE StillActive(c)
    <3>1. ChainType'
      BY <2>2, MovedChain DEF StillActive, Continue, Active, ChainAts
    <3> QED
      BY <2>2, <3>1, ListType DEF StillActive, OtherTypes
  <2>3. CASE NotFollowed(c)
    BY <2>3, EndedChain DEF NotFollowed, ChainOnly, OtherTypes
  <2>4. CASE Finished(c)
    <3>1. chain[c].job \in Jobs
      BY <2>4 DEF Finished, Followed, OtherTypes, Jobs
    <3>2. ChainType'
      BY <2>4, EndedChain DEF Finished
    <3> QED
      BY <2>4, <3>1, <3>2, ListType DEF Finished, Tell, OtherTypes
  <2>5. CASE PollFailed(c)
    <3>1. chain[c].job \in Jobs
      BY <2>5 DEF PollFailed, ChainType
    <3>2. ChainType'
      BY <2>5, EndedChain DEF PollFailed
    <3> QED
      BY <2>5, <3>1, <3>2 DEF PollFailed, Tell, OtherTypes
  <2> QED
    BY <1>6, <2>1, <2>2, <2>3, <2>4, <2>5 DEF PollStep
<1>7. ASSUME NEW l \in Loads, ListStep(l) PROVE ChainType' /\ OtherTypes'
  <2>1. CASE ListAnswered(l) \/ ListFailed(l)
    <3>1. load \in LoadTypes
      BY DEF OtherTypes
    <3>2. load' \in LoadTypes
      <4>1. CASE ListAnswered(l)
        <5>1. {j \in MaintenanceJobs : status[j] \in Active} \subseteq MaintenanceJobs
          OBVIOUS
        <5> QED
          BY <3>1, <4>1, <5>1, LoadMoves DEF ListAnswered
      <4>2. CASE ListFailed(l)
        BY <3>1, <4>2, LoadMoves DEF ListFailed
      <4> QED
        BY <2>1, <4>1, <4>2
    <3> QED
      BY <2>1, <3>2 DEF ListAnswered, ListFailed, LoadOnly, ChainType, OtherTypes
  <2>2. CASE ListArrives(l)
    <3>1. ChainType'
      BY <2>2, AdoptedChains, TypeParts DEF ListArrives, Adopted
    <3>2. load[l].seen \subseteq MaintenanceJobs
      BY DEF OtherTypes, LoadTypes
    <3> QED
      BY <2>2, <3>1, <3>2, LoadMoves DEF ListArrives, Adoptable, OtherTypes
  <2> QED
    BY <1>7, <2>1, <2>2 DEF ListStep
<1>8. ASSUME IntervalLoad \/ Hide \/ Show PROVE ChainType' /\ OtherTypes'
  BY <1>8, ListType DEF IntervalLoad, Hide, Show, ChainType, OtherTypes
<1>9. ASSUME UNCHANGED vars PROVE ChainType' /\ OtherTypes'
  BY <1>9 DEF vars, ChainType, OtherTypes
<1> QED
  BY <1>1, <1>2, <1>3, <1>4, <1>5, <1>6, <1>7, <1>8, <1>9 DEF Next

(* The variables of a tab keep their types.                                *)
THEOREM TypeCorrect == Spec => []TypeOK
BY TypeInit, TypeNext, PTL DEF Spec

-----------------------------------------------------------------------------
(* What is followed is polled, and not more than it may.                   *)

(* What a step does to the jobs followed and to their polls: nothing, ...  *)
Quiet ==
  /\ tracked' = tracked
  /\ \A j \in Jobs : PollsOf(j)' = PollsOf(j)
  /\ \A j \in MaintenanceJobs : start[j] = "over" => start'[j] = "over"

(* ... a job that has been started here is followed, ...                   *)
FollowsJob ==
  \E j \in MaintenanceJobs, c \in FreeChains :
    /\ StartChain(c, j)
    /\ tracked' = tracked \union {j}
    /\ start[j] # "over"
    /\ start' = [start EXCEPT ![j] = "over"]

FollowsReport ==
  \E j \in ReportJobs, c \in FreeChains :
    StartChain(c, j) /\ tracked' = tracked /\ start' = start

(* ... a chain ends and its job is no longer followed, ...                 *)
Abandons ==
  \E c \in Chains :
    /\ chain[c].at # "free"
    /\ End(c)
    /\ tracked' = tracked \ {chain[c].job}
    /\ start' = start

(* ... or the active jobs of a list are followed.                          *)
Adopts ==
  \E l \in Loads : \E new \in [Adoptable(l) -> FreeChains] :
    /\ \A i, j \in Adoptable(l) : new[i] = new[j] => i = j
    /\ Adopted(l, new)
    /\ tracked' = tracked \union Adoptable(l)
    /\ start' = start

LEMMA PollCases ==
  TypeOK /\ [Next]_vars => Quiet \/ FollowsJob \/ FollowsReport \/ Abandons \/ Adopts
<1> SUFFICES ASSUME TypeOK, ChainType, OtherTypes, [Next]_vars
             PROVE  Quiet \/ FollowsJob \/ FollowsReport \/ Abandons \/ Adopts
  BY TypeParts
<1>1. ASSUME UNCHANGED <<tracked, chain, start>> PROVE Quiet
  BY <1>1 DEF Quiet, PollsOf
<1>2. ASSUME NEW j \in Jobs, JobStep(j) PROVE Quiet
  BY <1>1, <1>2 DEF JobStep, ServerOnly
<1>3. ASSUME NEW j \in MaintenanceJobs, NEW at \in Posts,
             UNCHANGED <<tracked, chain>>, start' = [start EXCEPT ![j] = at], start[j] # "over"
      PROVE  Quiet
  BY <1>3 DEF Quiet, PollsOf, OtherTypes
<1>4. ASSUME NEW j \in MaintenanceJobs, StartOperation(j) \/ PostStep(j)
      PROVE  Quiet \/ FollowsJob
  <2>1. CASE StartOperation(j)
    BY <1>3, <2>1 DEF StartOperation, Posts
  <2>2. CASE CreateJob(j)
    BY <1>3, <2>2 DEF CreateJob, Posts
  <2>3. CASE RefuseJob(j)
    BY <1>3, <2>3 DEF RefuseJob, Posts
  <2>4. CASE OperationStarted(j)
    BY <2>4 DEF OperationStarted, FollowsJob, StartChain
  <2>5. CASE OperationFailed(j)
    BY <1>3, <2>5 DEF OperationFailed, Posts
  <2> QED
    BY <1>4, <2>1, <2>2, <2>3, <2>4, <2>5 DEF PostStep
<1>5. ASSUME StartReport \/ ReportPostStep PROVE Quiet \/ FollowsReport
  <2>1. ASSUME NEW r \in ReportJobs, ReportStarted(r) PROVE FollowsReport
    BY <2>1 DEF ReportStarted, FollowsReport, StartChain
  <2>2. ASSUME NEW r \in ReportJobs, CreateReport(r) PROVE Quiet
    BY <1>1, <2>2 DEF CreateReport
  <2>3. ASSUME StartReport \/ RefuseReport \/ ReportFailed PROVE Quiet
    BY <1>1, <2>3 DEF StartReport, RefuseReport, ReportFailed
  <2> QED
    BY <1>5, <2>1, <2>2, <2>3 DEF ReportPostStep
<1>6. ASSUME NEW c \in Chains, PollStep(c) PROVE Quiet \/ Abandons
  <2>1. ASSUME NEW at \in ChainAts \ {"free"}, chain[c].at # "free",
               chain' = [chain EXCEPT ![c].at = at], UNCHANGED <<tracked, start>>
        PROVE  Quiet
    BY <2>1, MovedChain DEF Quiet
  <2>2. CASE TimerFires(c) \/ PollAnswered(c) \/ PollLost(c)
    <3>1. \E at \in ChainAts \ {"free"} : chain' = [chain EXCEPT ![c].at = at]
      BY <2>2 DEF TimerFires, PollAnswered, PollLost, ChainAts, Answers, Active, Terminal
    <3>2. chain[c].at # "free" /\ UNCHANGED <<tracked, start>>
      BY <2>2 DEF TimerFires, PollAnswered, PollLost, ChainOnly
    <3> QED
      BY <2>1, <3>1, <3>2
  <2>3. CASE StillActive(c)
    BY <2>1, <2>3 DEF StillActive, Continue, Active, ChainAts
  <2>4. CASE NotFollowed(c)
    <3>1. chain[c].at # "free" /\ chain[c].job \notin tracked
      BY <2>4 DEF NotFollowed, Followed, Active, Terminal
    <3> QED
      BY <2>4, <3>1 DEF NotFollowed, ChainOnly, Abandons
  <2>5. CASE Finished(c)
    BY <2>5 DEF Finished, Terminal, Abandons
  <2>6. CASE PollFailed(c)
    BY <2>6 DEF PollFailed, Abandons
  <2> QED
    BY <1>6, <2>2, <2>3, <2>4, <2>5, <2>6 DEF PollStep
<1>7. ASSUME NEW l \in Loads, ListStep(l) PROVE Quiet \/ Adopts
  <2>1. CASE ListAnswered(l) \/ ListFailed(l)
    BY <1>1, <2>1 DEF ListAnswered, ListFailed, LoadOnly
  <2>2. CASE ListArrives(l)
    BY <2>2 DEF ListArrives, Adopted, Adopts
  <2> QED
    BY <1>7, <2>1, <2>2 DEF ListStep
<1>8. ASSUME IntervalLoad \/ Hide \/ Show \/ UNCHANGED vars PROVE Quiet
  BY <1>1, <1>8 DEF IntervalLoad, Hide, Show, vars
<1> QED
  BY <1>2, <1>4, <1>5, <1>6, <1>7, <1>8 DEF Next

LEMMA TrackedNext == TypeOK /\ TrackedIsPolled /\ [Next]_vars => TrackedIsPolled'
<1> SUFFICES ASSUME TypeOK, TrackedIsPolled, [Next]_vars, NEW j \in tracked'
             PROVE  PollsOf(j)' # {}
  BY DEF TrackedIsPolled
<1>1. /\ ChainType /\ tracked \subseteq Jobs /\ MaintenanceJobs \subseteq Jobs
      /\ \A i \in tracked : PollsOf(i) # {}
  BY TypeParts DEF OtherTypes, Jobs, TrackedIsPolled
<1>2. CASE Quiet
  BY <1>1, <1>2 DEF Quiet
<1>3. CASE FollowsJob
  <2> PICK i \in MaintenanceJobs, c \in FreeChains :
        StartChain(c, i) /\ tracked' = tracked \union {i}
    BY <1>3 DEF FollowsJob
  <2>0. i \in Jobs
    BY <1>1
  <2>1. /\ PollsOf(i)' = PollsOf(i) \union {c}
        /\ \A k \in Jobs : k # i => PollsOf(k)' = PollsOf(k)
    BY <1>1, <2>0, StartedChain
  <2>2. CASE j = i
    BY <2>1, <2>2
  <2>3. CASE j # i
    BY <1>1, <2>1, <2>3
  <2> QED
    BY <2>2, <2>3
<1>4. CASE FollowsReport
  <2> PICK i \in ReportJobs, c \in FreeChains : StartChain(c, i) /\ tracked' = tracked
    BY <1>4 DEF FollowsReport
  <2>1. i \in Jobs
    BY DEF Jobs
  <2> QED
    BY <1>1, <2>1, StartedChain
<1>5. CASE Abandons
  <2> PICK c \in Chains : End(c) /\ tracked' = tracked \ {chain[c].job}
    BY <1>5 DEF Abandons
  <2>1. PollsOf(j)' = PollsOf(j) \ {c} /\ PollsOf(j) # {} /\ chain[c].job # j
    BY <1>1, EndedChain
  <2> QED
    BY <2>1 DEF PollsOf
<1>6. CASE Adopts
  <2> PICK l \in Loads : \E new \in [Adoptable(l) -> FreeChains] :
        /\ \A i, k \in Adoptable(l) : new[i] = new[k] => i = k
        /\ Adopted(l, new)
        /\ tracked' = tracked \union Adoptable(l)
    BY <1>6 DEF Adopts
  <2> PICK new \in [Adoptable(l) -> FreeChains] :
        /\ \A i, k \in Adoptable(l) : new[i] = new[k] => i = k
        /\ Adopted(l, new)
        /\ tracked' = tracked \union Adoptable(l)
    OBVIOUS
  <2>1. /\ \A k \in Jobs \ Adoptable(l) : PollsOf(k)' = PollsOf(k)
        /\ \A k \in Adoptable(l) : PollsOf(k)' = PollsOf(k) \union {new[k]}
    BY AdoptedChains
  <2>2. CASE j \in Adoptable(l)
    BY <2>1, <2>2
  <2>3. CASE j \notin Adoptable(l)
    BY <1>1, <2>1, <2>3
  <2> QED
    BY <2>2, <2>3
<1> QED
  BY <1>2, <1>3, <1>4, <1>5, <1>6, PollCases

(* A set of chains is finite, and changes by one when a chain joins or     *)
(* leaves it.                                                              *)
LEMMA ChainCount ==
  ASSUME NEW S \in SUBSET Chains, NEW c \in Chains
  PROVE  /\ Cardinality(S) \in Nat
         /\ Cardinality(S \union {c}) \in Nat
         /\ Cardinality(S \union {c}) <= Cardinality(S) + 1
         /\ Cardinality(S \ {c}) \in Nat
         /\ Cardinality(S \ {c}) <= Cardinality(S)
         /\ c \in S => Cardinality(S \ {c}) = Cardinality(S) - 1
<1>1. IsFiniteSet(S)
  BY FS_Subset, PollingAssumption
<1>2. IsFiniteSet(S \union {c}) /\ IsFiniteSet(S \ {c})
  BY <1>1, FS_AddElement, FS_RemoveElement
<1> QED
  BY <1>1, <1>2, FS_AddElement, FS_RemoveElement, FS_CardinalityType

LEMMA BoundNext == TypeOK /\ PollsBounded /\ [Next]_vars => PollsBounded'
<1> DEFINE Followings(j) == IF j \in tracked THEN 1 ELSE 0
           Starts(j) == IF start[j] = "over" THEN 1 ELSE 0
<1> SUFFICES ASSUME TypeOK, PollsBounded, [Next]_vars, NEW j \in MaintenanceJobs
             PROVE  Cardinality(PollsOf(j)') <= Followings(j)' + Starts(j)'
  BY DEF PollsBounded
<1>1. /\ ChainType /\ j \in Jobs /\ start \in [MaintenanceJobs -> Posts]
      /\ Cardinality(PollsOf(j)) <= Followings(j) + Starts(j)
      /\ PollsOf(j) \in SUBSET Chains
  BY TypeParts DEF OtherTypes, Jobs, PollsBounded, PollsOf
<1>2. CASE Quiet
  BY <1>1, <1>2, FS_Subset, FS_CardinalityType, PollingAssumption DEF Quiet
<1>3. CASE FollowsJob
  <2> PICK i \in MaintenanceJobs, c \in FreeChains :
        /\ StartChain(c, i)
        /\ tracked' = tracked \union {i}
        /\ start[i] # "over"
        /\ start' = [start EXCEPT ![i] = "over"]
    BY <1>3 DEF FollowsJob
  <2>1. i \in Jobs /\ c \in Chains
    BY DEF Jobs, FreeChains
  <2>2. CASE i = j
    <3>1. PollsOf(j)' = PollsOf(j) \union {c}
      BY <1>1, <2>1, <2>2, StartedChain
    <3>2. Followings(j)' = 1 /\ Starts(j)' = 1 /\ Starts(j) = 0 /\ Followings(j) \in {0, 1}
      BY <1>1, <2>2
    <3>3. /\ Cardinality(PollsOf(j)) \in Nat
          /\ Cardinality(PollsOf(j)') \in Nat
          /\ Cardinality(PollsOf(j)') <= Cardinality(PollsOf(j)) + 1
      BY <1>1, <2>1, <3>1, ChainCount
    <3> HIDE DEF Followings, Starts
    <3> QED
      BY <1>1, <3>2, <3>3
  <2>3. CASE i # j
    <3>1. PollsOf(j)' = PollsOf(j)
      BY <1>1, <2>1, <2>3, StartedChain
    <3>2. Followings(j)' = Followings(j) /\ Starts(j)' = Starts(j)
      BY <1>1, <2>3
    <3> QED
      BY <1>1, <3>1, <3>2
  <2> QED
    BY <2>2, <2>3
<1>4. CASE FollowsReport
  <2> PICK i \in ReportJobs, c \in FreeChains :
        StartChain(c, i) /\ tracked' = tracked /\ start' = start
    BY <1>4 DEF FollowsReport
  <2>1. i \in Jobs /\ i # j
    BY PollingAssumption DEF Jobs
  <2>2. PollsOf(j)' = PollsOf(j)
    BY <1>1, <2>1, StartedChain
  <2> QED
    BY <1>1, <2>2
<1>5. CASE Abandons
  <2> PICK c \in Chains :
        End(c) /\ tracked' = tracked \ {chain[c].job} /\ start' = start
    BY <1>5 DEF Abandons
  <2>1. PollsOf(j)' = PollsOf(j) \ {c}
    BY <1>1, EndedChain
  <2>2. CASE chain[c].job = j
    <3>1. c \in PollsOf(j)
      BY <2>2 DEF PollsOf
    <3>2. Starts(j)' = Starts(j) /\ Followings(j)' = 0 /\ Followings(j) \in {0, 1} /\ Starts(j) \in {0, 1}
      BY <2>2
    <3>3. /\ Cardinality(PollsOf(j)) \in Nat
          /\ Cardinality(PollsOf(j)') \in Nat
          /\ Cardinality(PollsOf(j)') = Cardinality(PollsOf(j)) - 1
      BY <1>1, <2>1, <3>1, ChainCount
    <3> HIDE DEF Followings, Starts
    <3> QED
      BY <1>1, <3>2, <3>3
  <2>3. CASE chain[c].job # j
    <3>1. Starts(j)' = Starts(j) /\ Followings(j)' = Followings(j) /\ Followings(j) \in {0, 1} /\ Starts(j) \in {0, 1}
      BY <2>3
    <3>2. /\ Cardinality(PollsOf(j)) \in Nat
          /\ Cardinality(PollsOf(j)') \in Nat
          /\ Cardinality(PollsOf(j)') <= Cardinality(PollsOf(j))
      BY <1>1, <2>1, ChainCount
    <3> HIDE DEF Followings, Starts
    <3> QED
      BY <1>1, <3>1, <3>2
  <2> QED
    BY <2>2, <2>3
<1>6. CASE Adopts
  <2> PICK l \in Loads : \E new \in [Adoptable(l) -> FreeChains] :
        /\ \A i, k \in Adoptable(l) : new[i] = new[k] => i = k
        /\ Adopted(l, new)
        /\ tracked' = tracked \union Adoptable(l)
        /\ start' = start
    BY <1>6 DEF Adopts
  <2> PICK new \in [Adoptable(l) -> FreeChains] :
        /\ \A i, k \in Adoptable(l) : new[i] = new[k] => i = k
        /\ Adopted(l, new)
        /\ tracked' = tracked \union Adoptable(l)
        /\ start' = start
    OBVIOUS
  <2>1. /\ \A k \in Jobs \ Adoptable(l) : PollsOf(k)' = PollsOf(k)
        /\ \A k \in Adoptable(l) : PollsOf(k)' = PollsOf(k) \union {new[k]}
    BY AdoptedChains
  <2>2. CASE j \in Adoptable(l)
    <3>1. PollsOf(j)' = PollsOf(j) \union {new[j]} /\ new[j] \in Chains
      BY <2>1, <2>2 DEF FreeChains
    <3>2. Followings(j) = 0 /\ Followings(j)' = 1 /\ Starts(j)' = Starts(j) /\ Starts(j) \in {0, 1}
      BY <2>2 DEF Adoptable
    <3>3. /\ Cardinality(PollsOf(j)) \in Nat
          /\ Cardinality(PollsOf(j)') \in Nat
          /\ Cardinality(PollsOf(j)') <= Cardinality(PollsOf(j)) + 1
      BY <1>1, <3>1, ChainCount
    <3> HIDE DEF Followings, Starts
    <3> QED
      BY <1>1, <3>2, <3>3
  <2>3. CASE j \notin Adoptable(l)
    <3>1. PollsOf(j)' = PollsOf(j)
      BY <1>1, <2>1, <2>3
    <3>2. Followings(j)' = Followings(j) /\ Starts(j)' = Starts(j)
      BY <2>3
    <3> QED
      BY <1>1, <3>1, <3>2
  <2> QED
    BY <2>2, <2>3
<1> QED
  BY <1>2, <1>3, <1>4, <1>5, <1>6, PollCases

-----------------------------------------------------------------------------
(* What the tab knows and shows is true.                                   *)

(* A result stays a job's result.                                          *)
LEMMA ResultStays ==
  ASSUME TypeOK, [Next]_vars, NEW j \in Jobs, NEW result \in Terminal, IsResultOf(result, j)
  PROVE  IsResultOf(result, j)'
<1>1. ASSUME UNCHANGED status PROVE IsResultOf(result, j)'
  BY <1>1 DEF IsResultOf
<1>2. ASSUME NEW i \in Jobs, JobStep(i) PROVE IsResultOf(result, j)'
  BY <1>2 DEF JobStep, RowStep, Create, Begin, Requeue, Finish, FinishRequeued, Delete,
              AuditFails, Become, IsResultOf, TypeOK, Terminal, Active
<1>3. ASSUME NEW i \in MaintenanceJobs, StartOperation(i) \/ PostStep(i)
      PROVE  IsResultOf(result, j)'
  BY <1>1, <1>3 DEF StartOperation, PostStep, CreateJob, Create, Become, RefuseJob,
                    OperationStarted, OperationFailed, IsResultOf, TypeOK, Terminal, Active
<1>4. ASSUME StartReport \/ ReportPostStep PROVE IsResultOf(result, j)'
  BY <1>1, <1>4 DEF StartReport, ReportPostStep, CreateReport, ReportStarted, RefuseReport,
                    ReportFailed, IsResultOf, TypeOK, Terminal, Active
<1>5. ASSUME NEW c \in Chains, PollStep(c) PROVE UNCHANGED status
  BY <1>5 DEF PollStep, TimerFires, PollAnswered, PollLost, StillActive, NotFollowed, Finished,
              PollFailed, ChainOnly
<1>6. ASSUME NEW l \in Loads, ListStep(l) PROVE UNCHANGED status
  BY <1>6 DEF ListStep, ListAnswered, ListFailed, ListArrives, LoadOnly
<1>7. ASSUME IntervalLoad \/ Hide \/ Show \/ UNCHANGED vars PROVE UNCHANGED status
  BY <1>7 DEF IntervalLoad, Hide, Show, vars
<1> QED
  BY <1>1, <1>2, <1>3, <1>4, <1>5, <1>6, <1>7 DEF Next

(* A result on its way is an old one, or was read from the row.            *)
LEMMA AnswersCome ==
  ASSUME TypeOK, [Next]_vars, NEW c \in Chains, chain'[c].at \in Terminal
  PROVE  \/ chain'[c] = chain[c]
         \/ chain'[c].job \in Jobs /\ chain'[c].at = status'[chain'[c].job]
<1>0. ChainType /\ chain'[c].at # "free" /\ chain'[c].at # "timer"
  BY TypeParts DEF Terminal
<1>1. ASSUME NEW d \in Chains, End(d) PROVE chain'[c] = chain[c]
  BY <1>0, <1>1, EndedChain DEF FreeChain
<1>2. ASSUME NEW d \in FreeChains, NEW j \in Jobs, StartChain(d, j) PROVE chain'[c] = chain[c]
  <2>1. /\ chain'[d] = [job |-> j, at |-> "timer"]
        /\ \A e \in Chains : e # d => chain'[e] = chain[e]
    BY <1>0, <1>2, StartedChain
  <2>2. c # d
    BY <1>0, <2>1
  <2> QED
    BY <2>1, <2>2
<1>3. CASE UNCHANGED chain
  BY <1>3
<1>4. ASSUME NEW d \in Chains, PollStep(d)
      PROVE  \/ chain'[c] = chain[c]
             \/ chain'[c].job \in Jobs /\ chain'[c].at = status'[chain'[c].job]
  <2>1. CASE TimerFires(d)
    BY <1>0, <2>1 DEF TimerFires, ChainType, Terminal
  <2>2. CASE PollAnswered(d)
    <3> DEFINE s == status[chain[d].job]
               at == IF s \in Active \union Terminal THEN s ELSE "error"
    <3>1. chain' = [chain EXCEPT ![d].at = at] /\ status' = status /\ chain[d].at = "asked"
      BY <2>2 DEF PollAnswered, ChainOnly
    <3>2. CASE c # d
      BY <1>0, <3>1, <3>2 DEF ChainType
    <3>3. CASE c = d
      <4>1. chain'[c].job = chain[c].job /\ chain'[c].at = at /\ chain[c].job \in Jobs
        BY <1>0, <3>1, <3>3 DEF ChainType
      <4>2. at = s
        BY <1>0, <4>1 DEF Terminal
      <4> QED
        BY <3>1, <3>3, <4>1, <4>2
    <3> QED
      BY <3>2, <3>3
  <2>3. CASE PollLost(d)
    BY <1>0, <2>3 DEF PollLost, ChainType, Terminal
  <2>4. CASE StillActive(d)
    BY <1>0, <2>4 DEF StillActive, Continue, ChainType
  <2>5. CASE NotFollowed(d) \/ Finished(d) \/ PollFailed(d)
    BY <1>1, <2>5 DEF NotFollowed, Finished, PollFailed
  <2> QED
    BY <1>4, <2>1, <2>2, <2>3, <2>4, <2>5 DEF PollStep
<1>5. ASSUME NEW l \in Loads, ListStep(l) PROVE chain'[c] = chain[c]
  <2>1. CASE ListAnswered(l) \/ ListFailed(l)
    BY <2>1 DEF ListAnswered, ListFailed, LoadOnly
  <2>2. CASE ListArrives(l)
    <3> PICK new \in [Adoptable(l) -> FreeChains] :
          /\ \A i, k \in Adoptable(l) : new[i] = new[k] => i = k
          /\ Adopted(l, new)
      BY <2>2 DEF ListArrives, Adopted
    <3>1. chain'[c] = chain[c] \/ \E j \in Adoptable(l) : chain'[c] = [job |-> j, at |-> "timer"]
      BY AdoptedChains
    <3>2. ASSUME NEW j \in Adoptable(l), chain'[c] = [job |-> j, at |-> "timer"] PROVE FALSE
      BY <1>0, <3>2
    <3> QED
      BY <3>1, <3>2
  <2> QED
    BY <1>5, <2>1, <2>2 DEF ListStep
<1>6. ASSUME NEW j \in Jobs, JobStep(j) PROVE UNCHANGED chain
  BY <1>6 DEF JobStep, ServerOnly
<1>7. ASSUME NEW j \in MaintenanceJobs, StartOperation(j) \/ PostStep(j)
      PROVE  chain'[c] = chain[c]
  <2>1. j \in Jobs
    BY DEF Jobs
  <2> QED
    BY <1>2, <1>7, <2>1 DEF StartOperation, PostStep, CreateJob, RefuseJob, OperationStarted,
                            OperationFailed, StartChain
<1>8. ASSUME StartReport \/ ReportPostStep PROVE chain'[c] = chain[c]
  <2>1. ASSUME NEW r \in ReportJobs, ReportStarted(r) PROVE chain'[c] = chain[c]
    <3>1. r \in Jobs
      BY DEF Jobs
    <3> QED
      BY <1>2, <2>1, <3>1 DEF ReportStarted, StartChain
  <2> QED
    BY <1>8, <2>1 DEF StartReport, ReportPostStep, CreateReport, RefuseReport, ReportFailed
<1>9. ASSUME IntervalLoad \/ Hide \/ Show \/ UNCHANGED vars PROVE UNCHANGED chain
  BY <1>9 DEF IntervalLoad, Hide, Show, vars
<1> QED
  BY <1>3, <1>4, <1>5, <1>6, <1>7, <1>8, <1>9 DEF Next

(* A result newly shown was an answer before.                              *)
LEMMA ShownCome ==
  ASSUME TypeOK, [Next]_vars, NEW j \in Jobs, NEW result \in told'[j] \intersect Terminal
  PROVE  \/ result \in told[j]
         \/ \E c \in Chains : chain[c].job = j /\ chain[c].at = result
<1>0. told \in [Jobs -> SUBSET (Terminal \union {"error"})] /\ result # "error"
  BY DEF TypeOK, Terminal
<1>1. CASE UNCHANGED told
  BY <1>1
<1>2. ASSUME NEW i \in Jobs, Tell(i, "error") PROVE result \in told[j]
  BY <1>0, <1>2 DEF Tell
<1>3. ASSUME NEW c \in Chains, PollStep(c)
      PROVE  \/ result \in told[j]
             \/ chain[c].job = j /\ chain[c].at = result
  <2>1. CASE Finished(c)
    BY <1>0, <2>1 DEF Finished, Tell
  <2>2. CASE PollFailed(c)
    BY <1>0, <2>2 DEF PollFailed, Tell
  <2>3. CASE TimerFires(c) \/ PollAnswered(c) \/ PollLost(c) \/ StillActive(c) \/ NotFollowed(c)
    BY <2>3 DEF TimerFires, PollAnswered, PollLost, StillActive, NotFollowed, ChainOnly
  <2> QED
    BY <1>3, <2>1, <2>2, <2>3 DEF PollStep
<1>4. ASSUME NEW l \in Loads, ListStep(l) PROVE UNCHANGED told
  BY <1>4 DEF ListStep, ListAnswered, ListFailed, ListArrives, LoadOnly
<1>5. ASSUME NEW i \in Jobs, JobStep(i) PROVE UNCHANGED told
  BY <1>5 DEF JobStep, ServerOnly
<1>6. ASSUME NEW i \in MaintenanceJobs, StartOperation(i) \/ PostStep(i)
      PROVE  result \in told[j]
  <2>1. i \in Jobs
    BY DEF Jobs
  <2> QED
    BY <1>2, <1>6, <2>1 DEF StartOperation, PostStep, CreateJob, RefuseJob, OperationStarted,
                            OperationFailed
<1>7. ASSUME StartReport \/ ReportPostStep PROVE UNCHANGED told
  BY <1>7 DEF StartReport, ReportPostStep, CreateReport, ReportStarted, RefuseReport, ReportFailed
<1>8. ASSUME IntervalLoad \/ Hide \/ Show \/ UNCHANGED vars PROVE UNCHANGED told
  BY <1>8 DEF IntervalLoad, Hide, Show, vars
<1> QED
  BY <1>1, <1>3, <1>4, <1>5, <1>6, <1>7, <1>8 DEF Next

LEMMA ShownIsResult ==
  TypeOK => (ShownIsTrue <=> \A j \in Jobs : \A result \in told[j] \intersect Terminal :
                               IsResultOf(result, j))
BY DEF ShownIsTrue, IsResultOf

LEMMA TrueNext ==
  TypeOK /\ AnswersAreTrue /\ ShownIsTrue /\ [Next]_vars => AnswersAreTrue' /\ ShownIsTrue'
<1> SUFFICES ASSUME TypeOK, AnswersAreTrue, ShownIsTrue, [Next]_vars
             PROVE  AnswersAreTrue' /\ ShownIsTrue'
  OBVIOUS
<1>1. ASSUME NEW c \in Chains, chain'[c].at \in Terminal
      PROVE  IsResultOf(chain[c].at, chain[c].job)'
  <2>1. CASE chain'[c] = chain[c]
    <3>1. chain[c].job \in Jobs
      BY <1>1, <2>1 DEF TypeOK, Terminal
    <3>2. IsResultOf(chain[c].at, chain[c].job)
      BY <1>1, <2>1 DEF AnswersAreTrue
    <3>3. PICK at \in Terminal, j \in Jobs : chain[c].at = at /\ chain[c].job = j
      BY <1>1, <2>1, <3>1
    <3>4. IsResultOf(at, j)
      BY <3>2, <3>3
    <3>5. IsResultOf(at, j)'
      BY <3>4, ResultStays
    <3> QED
      BY <2>1, <3>3, <3>5 DEF IsResultOf
  <2>2. CASE chain'[c].job \in Jobs /\ chain'[c].at = status'[chain'[c].job]
    BY <2>2 DEF IsResultOf
  <2> QED
    BY <1>1, <2>1, <2>2, AnswersCome
<1>2. ASSUME NEW j \in Jobs, NEW result \in told'[j] \intersect Terminal
      PROVE  IsResultOf(result, j)'
  <2>1. CASE result \in told[j]
    BY <2>1, ResultStays DEF ShownIsTrue, IsResultOf
  <2>2. ASSUME NEW c \in Chains, chain[c].job = j, chain[c].at = result
        PROVE  IsResultOf(result, j)'
    <3>1. IsResultOf(result, j)
      BY <2>2 DEF AnswersAreTrue
    <3> QED
      BY <3>1, ResultStays
  <2> QED
    BY <2>1, <2>2, ShownCome
<1> QED
  BY <1>1, <1>2 DEF AnswersAreTrue, ShownIsTrue, IsResultOf

-----------------------------------------------------------------------------
LEMMA PollInit == Init => PollInv
<1> SUFFICES ASSUME Init PROVE PollInv
  OBVIOUS
<1>1. TypeOK
  BY TypeInit
<1>2. TrackedIsPolled /\ AnswersAreTrue /\ ShownIsTrue
  BY DEF Init, TrackedIsPolled, AnswersAreTrue, ShownIsTrue, FreeChain, Terminal
<1>3. ASSUME NEW j \in MaintenanceJobs PROVE PollsOf(j) = {}
  BY PollingAssumption DEF Init, PollsOf, FreeChain, Jobs
<1>4. PollsBounded
  <2> SUFFICES ASSUME NEW j \in MaintenanceJobs
               PROVE  Cardinality(PollsOf(j)) <= (IF j \in tracked THEN 1 ELSE 0)
                                                 + (IF start[j] = "over" THEN 1 ELSE 0)
    BY DEF PollsBounded
  <2>1. Cardinality(PollsOf(j)) = 0
    BY <1>3, FS_EmptySet
  <2> QED
    BY <2>1
<1> QED
  BY <1>1, <1>2, <1>4 DEF PollInv

(* The inductive invariant.                                                *)
THEOREM PollInvariant == Spec => []PollInv
<1>1. PollInv /\ [Next]_vars => PollInv'
  BY TypeNext, TrackedNext, BoundNext, TrueNext DEF PollInv
<1> QED
  BY PollInit, <1>1, PTL DEF Spec

(* A job in the map is being polled (home.js:3145).                        *)
THEOREM FollowedIsPolled == Spec => []TrackedIsPolled
BY PollInvariant, PTL DEF PollInv

(* Chains of polls do not pile up, however lists and POSTs overtake each   *)
(* other.                                                                  *)
THEOREM PollsAreBounded == Spec => []PollsBounded
BY PollInvariant, PTL DEF PollInv

(* The result a user is shown is the job's.                                *)
THEOREM ShownResultsAreTrue == Spec => []ShownIsTrue
BY PollInvariant, PTL DEF PollInv

-----------------------------------------------------------------------------
(* The tab and its requests change the rows only as JobRows says, and so   *)
(* as JobQueue does: JobRows is what the server guarantees and all that    *)
(* the tab relies on.                                                      *)
THEOREM RowsInFront == Spec => RowsSpec
<1>1. Init => RowsInit
  BY DEF Init
<1>2. TypeOK /\ [Next]_vars => [RowsNext]_status
  <2> SUFFICES ASSUME TypeOK, [Next]_vars PROVE RowsNext \/ UNCHANGED status
    OBVIOUS
  <2>1. ASSUME NEW j \in Jobs, JobStep(j) PROVE RowsNext
    BY <2>1 DEF JobStep, RowsNext
  <2>2. ASSUME NEW j \in MaintenanceJobs, StartOperation(j) \/ PostStep(j)
        PROVE  RowsNext \/ UNCHANGED status
    <3>1. CASE CreateJob(j)
      BY <3>1 DEF CreateJob, RowsNext, RowStep, Jobs
    <3> QED
      BY <2>2, <3>1
         DEF StartOperation, PostStep, RefuseJob, OperationStarted, OperationFailed
  <2>3. ASSUME NEW r \in ReportJobs, CreateReport(r)
        PROVE  RowsNext \/ UNCHANGED status
    <3>1. status' = [status EXCEPT ![r] = IF @ = "absent" THEN "queued" ELSE @] /\ r \in Jobs
      BY <2>3 DEF CreateReport, Jobs
    <3>2. CASE status[r] = "absent"
      <4>1. Create(r)
        BY <3>1, <3>2 DEF Create, Become
      <4> QED
        BY <3>1, <4>1 DEF RowsNext, RowStep
    <3>3. CASE status[r] # "absent"
      BY <3>1, <3>3 DEF TypeOK
    <3> QED
      BY <3>2, <3>3
  <2>4. ASSUME ReportPostStep PROVE RowsNext \/ UNCHANGED status
    BY <2>3, <2>4 DEF ReportPostStep, ReportStarted, RefuseReport, ReportFailed
  <2>5. ASSUME NEW c \in Chains, PollStep(c) PROVE UNCHANGED status
    BY <2>5 DEF PollStep, TimerFires, PollAnswered, PollLost, StillActive, NotFollowed,
                Finished, PollFailed, ChainOnly
  <2>6. ASSUME NEW l \in Loads, ListStep(l) PROVE UNCHANGED status
    BY <2>6 DEF ListStep, ListAnswered, ListArrives, ListFailed, LoadOnly
  <2> QED
    BY <2>1, <2>2, <2>4, <2>5, <2>6
       DEF Next, vars, StartReport, IntervalLoad, Hide, Show
<1> QED
  BY <1>1, <1>2, TypeCorrect, PTL DEF Spec, RowsSpec
=============================================================================
