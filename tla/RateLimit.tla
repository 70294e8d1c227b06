----------------------------- MODULE RateLimit -----------------------------
(***************************************************************************)
(* The limit on how often one user does one thing: _rate_limit_exceeded    *)
(* (views/auth.py) with one key of one cache.  A window begins when the    *)
(* key is created and ends when it expires, at any time.  The three calls  *)
(* of the cache are atomic each, not together.                             *)
(*                                                                         *)
(* History variables: `allowed', the calls let through in this window, and *)
(* `resets', how often the key was set to one while it was there.          *)
(***************************************************************************)
EXTENDS Naturals, FiniteSets

CONSTANTS
  Callers,   \* calls at work at once
  Limit,     \* calls let through in a window
  MaxCalls   \* bound: calls counted since the key was last set

ASSUME RateAssumption ==
  /\ IsFiniteSet(Callers) /\ Callers # {}
  /\ Limit \in Nat \ {0} /\ MaxCalls \in Nat \ {0} /\ MaxCalls > Limit

VARIABLES
  present,   \* the key is in the cache
  counter,   \* its value; 0 if it is not there
  point,     \* point[c]: where call c is
  allowed, resets

rateVars == <<present, counter, point, allowed, resets>>

RateTypeOK ==
  /\ present \in BOOLEAN
  /\ counter \in 0..MaxCalls
  /\ point \in [Callers -> {"idle", "adding", "missing"}]
  /\ allowed \in Nat
  /\ resets \in Nat

RateInit ==
  /\ present = FALSE /\ counter = 0
  /\ point = [c \in Callers |-> "idle"]
  /\ allowed = 0 /\ resets = 0

-----------------------------------------------------------------------------
(* cache.add does nothing if the key is there.                             *)
AddKey(c) ==
  /\ point[c] = "idle"
  /\ point' = [point EXCEPT ![c] = "adding"]
  /\ present' = TRUE
  /\ IF present THEN UNCHANGED <<counter, allowed, resets>>
     ELSE counter' = 0 /\ allowed' = 0 /\ resets' = 0

(* Mutant of Exceeded: the limit itself is let pass once more.             *)
ExceededMutant(current) == current > Limit + 1

Exceeded(current) == current > Limit

(* cache.incr, and the answer.                                             *)
IncrKey(c) ==
  /\ point[c] = "adding" /\ present
  /\ counter < MaxCalls
  /\ counter' = counter + 1
  /\ allowed' = IF Exceeded(counter') THEN allowed ELSE allowed + 1
  /\ point' = [point EXCEPT ![c] = "idle"]
  /\ UNCHANGED <<present, resets>>

(* cache.incr raises ValueError: the key has expired since it was added.   *)
IncrFails(c) ==
  /\ point[c] = "adding" /\ ~present
  /\ point' = [point EXCEPT ![c] = "missing"]
  /\ UNCHANGED <<present, counter, allowed, resets>>

(* cache.set; another call may have created the key meanwhile.             *)
SetKey(c) ==
  /\ point[c] = "missing"
  /\ point' = [point EXCEPT ![c] = "idle"]
  /\ present' = TRUE /\ counter' = 1
  /\ resets' = IF present THEN resets + 1 ELSE 0
  /\ allowed' = (IF present THEN allowed ELSE 0) + (IF Exceeded(1) THEN 0 ELSE 1)

KeyExpires ==
  /\ present
  /\ present' = FALSE /\ counter' = 0 /\ allowed' = 0 /\ resets' = 0
  /\ UNCHANGED point

RateNext ==
  \/ KeyExpires
  \/ \E c \in Callers : AddKey(c) \/ IncrKey(c) \/ IncrFails(c) \/ SetKey(c)

RateSpec == RateInit /\ [][RateNext]_rateVars

-----------------------------------------------------------------------------
(* The calls let through in a window are at most Limit, and Limit again    *)
(* for every call that set the key anew because it had seen an earlier one *)
(* expire between cache.add and cache.incr (_rate_limit_exceeded): never   *)
(* more than Limit for each of the calls under way at once.                *)
WindowIsLimited ==
  /\ allowed <= Limit * (resets + 1)
  /\ resets < Cardinality(Callers)
=============================================================================
