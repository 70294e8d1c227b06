--------------------------- MODULE MCJobPolling ---------------------------
(* JobPolling for TLC: chains and list requests are alike, and a job may   *)
(* be the only one.                                                        *)
EXTENDS JobPolling, TLC

Interchangeable == Permutations(Chains) \union Permutations(Loads)

(* The rows of all jobs but i are gone.                                    *)
Alone(i) == \A j \in Jobs \ {i} : status[j] = "deleted"
OneJobInit == Init /\ \E i \in Jobs : Alone(i)
OneJobSpec == OneJobInit /\ [][Next]_vars /\ Fairness
=============================================================================
