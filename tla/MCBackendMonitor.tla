------------------------- MODULE MCBackendMonitor -------------------------
(* BackendMonitor for TLC: connections, requests and terminations are alike.*)
EXTENDS BackendMonitor, TLC

Interchangeable ==
  Permutations(Connections) \union Permutations(Requests)
    \union Permutations(Posts)
=============================================================================
