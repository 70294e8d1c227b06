-------------------------- MODULE ConnectionPool --------------------------
(***************************************************************************)
(* The pool of connections to one saved target database in one server      *)
(* process (db_statistics/views/pool.py).                                  *)
(*                                                                         *)
(* A request or a job reads the saved parameters, asks the process's table *)
(* of pools for a pool with these parameters (a pool with other parameters *)
(* of the same saved connection is closed and replaced), checks a          *)
(* connection out, uses it, cleans it up and puts it back.  Meanwhile the  *)
(* saved connection may be edited or deleted, and any other thread may     *)
(* close the pool.  ThreadedConnectionPool of psycopg2 is external: it is  *)
(* modelled by what getconn, putconn and closeall do.                      *)
(***************************************************************************)
EXTENDS Naturals, Sequences, FiniteSets

CONSTANTS
  Users,        \* threads that use the pool: of requests and of jobs
  Background,   \* those that run background jobs (background=True)
  MinConn,      \* DB_CONNECTION_POOL_MIN_CONN
  MaxConn,      \* DB_CONNECTION_POOL_MAX_CONN
  MaxVersion,   \* bound: versions of the saved parameters, in order of saving
  MaxPools,     \* bound: pools created in a run
  None          \* no user, no pool, no connection

ASSUME ConnAssumption ==
  /\ MinConn \in Nat
  /\ MaxConn \in Nat \ {0}
  /\ MinConn <= MaxConn
  /\ MaxVersion \in Nat \ {0}
  /\ MaxPools \in Nat
ASSUME UsersAssumption ==
  /\ IsFiniteSet(Users)
  /\ Background \subseteq Users
  /\ None \notin Users

VARIABLES
  saved,     \* version of the parameters in the saved connection's row
  active,    \* the row's is_active
  pools,     \* every pool created so far, in order
  registry,  \* numbers of the pools in _connection_pools
  mutex,     \* holder of _connection_pools_lock
  pc,        \* what a user is doing
  version,   \* the parameters a user has read
  pool,      \* the pool a user has been given
  conn,      \* the state of the connection a user has checked out
  discard,   \* the user's connection is not to be kept
  answer     \* how a user's last use of the pool ended, or is about to

vars == <<saved, active, pools, registry, mutex, pc, version, pool, conn,
          discard, answer>>
rowVars == <<saved, active>>
userVars == <<pc, version, pool, conn, discard, answer>>

Versions == 1..MaxVersion
PoolIds == 1..Len(pools)

(* What an open connection carries from one user to the next.              *)
Connections ==
  [timeouts : {"default", "background"}, tx : {"none", "open"}, autocommit : BOOLEAN]
Fresh == [timeouts |-> "default", tx |-> "none", autocommit |-> FALSE]

(* used: psycopg2's table of checked-out connections, by who has them.     *)
Pools == [version : Versions, closed : BOOLEAN, idle : Seq(Connections),
          used : SUBSET Users]

Pcs == {"idle", "loaded", "creating", "found", "applying", "using",
        "cleaning", "putting", "closing"}
(* Between a successful getconn and putconn.                               *)
Holding == {"applying", "using", "cleaning", "putting"}
Answers == {"ok", "error", "busy"}

TypeOK ==
  /\ saved \in Versions
  /\ active \in BOOLEAN
  /\ pools \in Seq(Pools)
  /\ Len(pools) <= MaxPools
  /\ \A i \in PoolIds : Len(pools[i].idle) <= MinConn
  /\ registry \subseteq PoolIds
  /\ mutex \in Users \union {None}
  /\ pc \in [Users -> Pcs]
  /\ version \in [Users -> Versions]
  /\ pool \in [Users -> PoolIds \union {None}]
  /\ conn \in [Users -> Connections \union {None}]
  /\ discard \in [Users -> BOOLEAN]
  /\ answer \in [Users -> Answers]

Init ==
  /\ saved = 1
  /\ active = TRUE
  /\ pools = <<>>
  /\ registry = {}
  /\ mutex = None
  /\ pc = [u \in Users |-> "idle"]
  /\ version = [u \in Users |-> 1]
  /\ pool = [u \in Users |-> None]
  /\ conn = [u \in Users |-> None]
  /\ discard = [u \in Users |-> FALSE]
  /\ answer = [u \in Users |-> "ok"]

IsOpen(i) == ~pools[i].closed

(* The pools when one of them has other connections idle and checked out.  *)
With(i, idle, used) ==
  [pools EXCEPT ![i] = [version |-> pools[i].version, closed |-> pools[i].closed,
                        idle |-> idle, used |-> used]]

Goto(u, from, to) == pc[u] = from /\ pc' = [pc EXCEPT ![u] = to]

(* The with block is left: nothing of the pool stays with the user.        *)
Leave(u, how) ==
  /\ pc' = [pc EXCEPT ![u] = "idle"]
  /\ pool' = [pool EXCEPT ![u] = None]
  /\ conn' = [conn EXCEPT ![u] = None]
  /\ discard' = [discard EXCEPT ![u] = FALSE]
  /\ answer' = [answer EXCEPT ![u] = how]
  /\ UNCHANGED version

-----------------------------------------------------------------------------
(* The saved connection, in any process.                                   *)

(* POST /connections of its creator; saving also makes it active again.    *)
Edit ==
  /\ saved < MaxVersion
  /\ saved' = saved + 1
  /\ active' = TRUE
  /\ UNCHANGED <<pools, registry, mutex, userVars>>

(* The creator deletes the connection through this process.                *)
Deactivate(u) ==
  /\ active
  /\ active' = FALSE
  /\ Goto(u, "idle", "closing")
  /\ UNCHANGED <<saved, pools, registry, mutex, version, pool, conn, discard, answer>>

(* Mutant of CloseAll: the pools are forgotten but not closed.             *)
CloseAllMutant(ids) == pools

(* closeall of every pool in ids: connections in use are closed as well.   *)
(* (The table of a closed pool is not looked at any more.)                 *)
CloseAll(ids) ==
  [i \in PoolIds |->
     IF i \in ids
       THEN [version |-> pools[i].version, closed |-> TRUE, idle |-> <<>>, used |-> {}]
       ELSE pools[i]]

ClosePools(u) ==
  /\ mutex = None
  /\ Goto(u, "closing", "idle")
  /\ pools' = CloseAll(registry)
  /\ registry' = {}
  /\ UNCHANGED <<rowVars, mutex, version, pool, conn, discard, answer>>

-----------------------------------------------------------------------------
(* _get_connection_pool.                                                   *)

(* A request reads an active connection; a job reads it whatever it is.    *)
Load(u) ==
  /\ active \/ u \in Background
  /\ Goto(u, "idle", "loaded")
  /\ version' = [version EXCEPT ![u] = saved]
  /\ UNCHANGED <<rowVars, pools, registry, mutex, pool, conn, discard, answer>>

FindPool(u) ==
  /\ mutex = None
  /\ Goto(u, "loaded", "found")
  /\ \E i \in registry :
       /\ pools[i].version = version[u]
       /\ pool' = [pool EXCEPT ![u] = i]
  /\ UNCHANGED <<rowVars, pools, registry, mutex, version, conn, discard, answer>>

(* No pool has these parameters: those with others are closed, and the new *)
(* one connects, all under the lock.                                       *)
ReplacePools(u) ==
  /\ mutex = None
  /\ Goto(u, "loaded", "creating")
  /\ \A i \in registry : pools[i].version # version[u]
  /\ mutex' = u
  /\ pools' = CloseAll(registry)
  /\ registry' = {}
  /\ UNCHANGED <<rowVars, version, pool, conn, discard, answer>>

CreatePool(u) ==
  /\ Len(pools) < MaxPools
  /\ Goto(u, "creating", "found")
  /\ pools' = Append(pools, [version |-> version[u], closed |-> FALSE,
                             idle |-> [n \in 1..MinConn |-> Fresh],
                             used |-> {}])
  /\ registry' = registry \union {Len(pools) + 1}
  /\ pool' = [pool EXCEPT ![u] = Len(pools) + 1]
  /\ mutex' = None
  /\ UNCHANGED <<rowVars, version, conn, discard, answer>>

(* Mutant of CreateFails: the lock is not released by an exception.        *)
CreateFailsMutant(u) ==
  /\ pc[u] = "creating"
  /\ Leave(u, "error")
  /\ UNCHANGED <<rowVars, pools, registry, mutex>>

(* The target database refuses: no pool is left behind.                    *)
CreateFails(u) ==
  /\ pc[u] = "creating"
  /\ mutex' = None
  /\ Leave(u, "error")
  /\ UNCHANGED <<rowVars, pools, registry>>

-----------------------------------------------------------------------------
(* pool.getconn.                                                           *)

AfterCheckout(u) == IF u \in Background THEN "applying" ELSE "using"

CheckoutIdle(u) ==
  LET i == pool[u]
      idle == pools[i].idle
  IN  /\ pc[u] = "found"
      /\ IsOpen(i)
      /\ idle # <<>>
      /\ pc' = [pc EXCEPT ![u] = AfterCheckout(u)]
      /\ conn' = [conn EXCEPT ![u] = idle[Len(idle)]]
      /\ pools' = With(i, SubSeq(idle, 1, Len(idle) - 1), pools[i].used \union {u})
      /\ UNCHANGED <<rowVars, registry, mutex, version, pool, discard, answer>>

(* Mutant of CheckoutNew: one connection too many (> for =).               *)
CheckoutNewMutant(u) ==
  LET i == pool[u]
  IN  /\ pc[u] = "found"
      /\ IsOpen(i)
      /\ pools[i].idle = <<>>
      /\ Cardinality(pools[i].used) <= MaxConn
      /\ pc' = [pc EXCEPT ![u] = AfterCheckout(u)]
      /\ conn' = [conn EXCEPT ![u] = Fresh]
      /\ pools' = With(i, <<>>, pools[i].used \union {u})
      /\ UNCHANGED <<rowVars, registry, mutex, version, pool, discard, answer>>

CheckoutNew(u) ==
  LET i == pool[u]
  IN  /\ pc[u] = "found"
      /\ IsOpen(i)
      /\ pools[i].idle = <<>>
      /\ Cardinality(pools[i].used) # MaxConn
      /\ pc' = [pc EXCEPT ![u] = AfterCheckout(u)]
      /\ conn' = [conn EXCEPT ![u] = Fresh]
      /\ pools' = With(i, <<>>, pools[i].used \union {u})
      /\ UNCHANGED <<rowVars, registry, mutex, version, pool, discard, answer>>

(* Opening a new connection fails.                                         *)
CheckoutFails(u) ==
  /\ pc[u] = "found"
  /\ IsOpen(pool[u])
  /\ pools[pool[u]].idle = <<>>
  /\ Leave(u, "error")
  /\ UNCHANGED <<rowVars, pools, registry, mutex>>

(* PoolError: the pool has been closed, or all its connections are in use. *)
CheckoutRefused(u) ==
  LET i == pool[u]
  IN  /\ pc[u] = "found"
      /\ \/ ~IsOpen(i)
         \/ pools[i].idle = <<>> /\ Cardinality(pools[i].used) = MaxConn
      /\ Leave(u, "busy")
      /\ UNCHANGED <<rowVars, pools, registry, mutex>>

-----------------------------------------------------------------------------
(* The body of the with block, and what surrounds it.  A statement on a    *)
(* connection that closeall has closed fails; any other may fail.          *)

UserStep(u) == UNCHANGED <<rowVars, pools, registry, mutex, version, pool, answer>>

ApplyTimeouts(u) ==
  /\ Goto(u, "applying", "using")
  /\ IsOpen(pool[u])
  /\ conn' = [conn EXCEPT ![u].timeouts = "background"]
  /\ UserStep(u)
  /\ UNCHANGED discard

(* Mutant of PutConn: every healthy connection is kept.                    *)
PutConnMutant(u, close, how) ==
  LET i == pool[u]
      kept == IF close THEN <<>> ELSE <<[conn[u] EXCEPT !.tx = "none"]>>
  IN  /\ pools' = IF IsOpen(i)
                    THEN With(i, pools[i].idle \o kept, pools[i].used \ {u})
                    ELSE pools
      /\ Leave(u, IF IsOpen(i) THEN how ELSE "busy")
      /\ UNCHANGED <<rowVars, registry, mutex>>

(* putconn, keeping the connection or not; PoolError when the pool has     *)
(* been closed replaces whatever the block did.                            *)
PutConn(u, close, how) ==
  LET i == pool[u]
      kept == IF ~close /\ Len(pools[i].idle) < MinConn
                THEN <<[conn[u] EXCEPT !.tx = "none"]>>
                ELSE <<>>
  IN  /\ pools' = IF IsOpen(i)
                    THEN With(i, pools[i].idle \o kept, pools[i].used \ {u})
                    ELSE pools
      /\ Leave(u, IF IsOpen(i) THEN how ELSE "busy")
      /\ UNCHANGED <<rowVars, registry, mutex>>

(* Mutant of ApplyFails: without the except branch.                        *)
ApplyFailsMutant(u) ==
  pc[u] = "applying" /\ Leave(u, "error") /\ UNCHANGED <<rowVars, pools, registry, mutex>>

ApplyFails(u) == pc[u] = "applying" /\ PutConn(u, TRUE, "error")

(* Maintenance runs outside a transaction; autocommit comes first.         *)
SetAutocommit(u) ==
  /\ u \in Background
  /\ Goto(u, "using", "using")
  /\ IsOpen(pool[u])
  /\ conn[u].tx = "none"
  /\ conn' = [conn EXCEPT ![u].autocommit = TRUE]
  /\ UserStep(u)
  /\ UNCHANGED discard

Statement(u) ==
  /\ Goto(u, "using", "using")
  /\ IsOpen(pool[u])
  /\ conn' = [conn EXCEPT ![u].tx = IF conn[u].autocommit THEN "none" ELSE "open"]
  /\ UserStep(u)
  /\ UNCHANGED discard

BodyRaises(u) ==
  /\ Goto(u, "using", "putting")
  /\ discard' = [discard EXCEPT ![u] = TRUE]
  /\ answer' = [answer EXCEPT ![u] = "error"]
  /\ UNCHANGED <<rowVars, pools, registry, mutex, version, pool, conn>>

BodyEnds(u) ==
  /\ Goto(u, "using", "cleaning")
  /\ answer' = [answer EXCEPT ![u] = "ok"]
  /\ UNCHANGED <<rowVars, pools, registry, mutex, version, pool, conn, discard>>

(* Mutant of Cleaned: the timeouts are reset only after a transaction, the *)
(* branch without autocommit.                                              *)
CleanedMutant(u) ==
  [timeouts |-> IF conn[u].autocommit THEN conn[u].timeouts ELSE "default",
   tx |-> "none",
   autocommit |-> FALSE]

(* Autocommit is switched off, or the transaction rolled back; the         *)
(* timeouts of a background job are reset.                                 *)
Cleaned(u) ==
  [timeouts |-> IF u \in Background THEN "default" ELSE conn[u].timeouts,
   tx |-> IF conn[u].autocommit THEN conn[u].tx ELSE "none",
   autocommit |-> FALSE]

CleanUp(u) ==
  /\ Goto(u, "cleaning", "putting")
  /\ IsOpen(pool[u])
  /\ conn' = [conn EXCEPT ![u] = Cleaned(u)]
  /\ UserStep(u)
  /\ UNCHANGED discard

(* The connection is closed, or cleaning it up fails: it is not kept.      *)
CleanUpFails(u) ==
  /\ Goto(u, "cleaning", "putting")
  /\ discard' = [discard EXCEPT ![u] = TRUE]
  /\ UserStep(u)
  /\ UNCHANGED conn

Put(u) == pc[u] = "putting" /\ PutConn(u, discard[u], answer[u])

-----------------------------------------------------------------------------
Step(u) ==
  \/ ClosePools(u)
  \/ FindPool(u)
  \/ ReplacePools(u)
  \/ CreatePool(u)
  \/ CreateFails(u)
  \/ CheckoutIdle(u)
  \/ CheckoutNew(u)
  \/ CheckoutFails(u)
  \/ CheckoutRefused(u)
  \/ ApplyTimeouts(u)
  \/ ApplyFails(u)
  \/ BodyRaises(u)
  \/ BodyEnds(u)
  \/ CleanUp(u)
  \/ CleanUpFails(u)
  \/ Put(u)

Next ==
  \/ Edit
  \/ \E u \in Users :
       \/ Deactivate(u)
       \/ Load(u)
       \/ Step(u)
       \/ SetAutocommit(u)
       \/ Statement(u)

Spec == Init /\ [][Next]_vars

(* A thread in the block goes on and ends: every statement has a timeout,  *)
(* and no caller stays in the body.  _connection_pools_lock is a           *)
(* threading.Lock, which lets every waiting thread in at some time.        *)
Fairness ==
  \A u \in Users :
    /\ WF_vars(Step(u) /\ pc[u] # "loaded" /\ pc[u] # "closing")
    /\ SF_vars(FindPool(u) \/ ReplacePools(u))
    /\ SF_vars(ClosePools(u))

LiveSpec == Spec /\ Fairness

-----------------------------------------------------------------------------
(* Properties.                                                             *)

(* A process keeps at most one pool open for a saved connection: a pool    *)
(* that has left the table is closed, whoever removed it and whoever still *)
(* uses it, so no pool is left behind with its sockets.                    *)
OneOpenPool ==
  \A i, k \in PoolIds : IsOpen(i) /\ IsOpen(k) => i = k /\ i \in registry

Holders(i) == {u \in Users : pool[u] = i /\ pc[u] \in Holding}

(* No connection leaks: while a pool is open, its table of checked-out     *)
(* connections is exactly the set of threads inside the with block,        *)
(* whichever statement, cleaning up or setting of timeouts has failed.     *)
NothingLeaks == \A i \in PoolIds : IsOpen(i) => pools[i].used = Holders(i)

(* Connections open in a pool.                                             *)
OpenConnections(i) ==
  IF IsOpen(i) THEN Len(pools[i].idle) + Cardinality(pools[i].used) ELSE 0

(* .env.example and docs/DEVELOPMENT.md: a process holds at most           *)
(* DB_CONNECTION_POOL_MAX_CONN connections per saved connection, idle and  *)
(* checked out together.  (With OneOpenPool, over all its pools.)          *)
WithinBudget == \A i \in PoolIds : OpenConnections(i) <= MaxConn

(* A connection waiting in the pool is as a new one: default timeouts, no  *)
(* transaction, autocommit off, whatever its users did, and whatever       *)
(* failed, before (pool.py:114-116: the long timeouts of background jobs   *)
(* are not kept for other requests).                                       *)
IdleIsFresh ==
  \A i \in PoolIds : \A n \in 1..Len(pools[i].idle) : pools[i].idle[n] = Fresh

(* Whoever has begun to use the pool gets an answer: neither the global    *)
(* lock, held while connecting, nor a pool closed under its users blocks   *)
(* anyone for ever.                                                        *)
EveryUseEnds == \A u \in Users : pc[u] # "idle" ~> pc[u] = "idle"

(* pool.py:53-55: after the parameters of a saved connection have been     *)
(* changed no new connections are made with the old ones.                  *)
NoStaleConnections ==
  [][\A i \in DOMAIN pools' \ DOMAIN pools : pools'[i].version = saved]_vars
=============================================================================
