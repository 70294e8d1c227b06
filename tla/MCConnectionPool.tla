------------------------- MODULE MCConnectionPool -------------------------
(* ConnectionPool for TLC: the users may be exchanged for one another      *)
(* within the requests and within the jobs.                                *)
EXTENDS ConnectionPool, TLC

Interchangeable == Permutations(Users \ Background) \union Permutations(Background)
=============================================================================
