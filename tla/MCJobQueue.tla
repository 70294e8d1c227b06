---------------------------- MODULE MCJobQueue ----------------------------
(* Values of the constants of JobQueue that a cfg cannot write down, and   *)
(* servers that start with less to do.                                     *)
EXTENDS JobQueue

MCOneKey == [j \in ReportJobs |-> "same user, connection and language"]

(* The rows of all jobs but i are gone.                                    *)
Alone(i) == \A j \in Jobs \ {i} : status[j] = "deleted"
OneJobInit == Init /\ \E i \in Jobs : Alone(i)
OneJobSpec == OneJobInit /\ [][Next]_vars

(* Rows are waiting or abandoned, and no command is invoked; or there is   *)
(* only one such row.                                                      *)
Backlog == \A j \in Jobs : status[j] \in Active
OneLeft == LET i == CHOOSE i \in Jobs : TRUE IN status[i] \in Active /\ Alone(i)
BacklogInit == Init /\ ((Backlog /\ NoCommand) \/ OneLeft)
BacklogSpec == BacklogInit /\ [][Next]_vars /\ Fairness
=============================================================================
