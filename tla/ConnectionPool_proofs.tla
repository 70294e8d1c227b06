----------------------- MODULE ConnectionPool_proofs -----------------------
(***************************************************************************)
(* What TLAPS proves about ConnectionPool, for any numbers of users, of    *)
(* connections, of versions of the parameters and of pools.                *)
(***************************************************************************)
EXTENDS ConnectionPool, FiniteSetTheorems, SequenceTheorems, TLAPS

(* Who has found a pool or has a connection of it refers to a pool that    *)
(* exists, and who has a connection has one.                               *)
UserState ==
  \A u \in Users :
    /\ pc[u] \in Holding \union {"found"} => pool[u] \in PoolIds
    /\ pc[u] \in Holding => conn[u] \in Connections

(* Whoever is creating a pool holds the lock, and the table is empty.      *)
CreatorAlone ==
  \A u \in Users : pc[u] = "creating" => mutex = u /\ registry = {}

Default(c) == c.timeouts = "default" /\ c.autocommit = FALSE

(* Requests never change what a session keeps; a connection about to be    *)
(* put back and kept has been cleaned up.                                  *)
CleanHands ==
  \A u \in Users :
    /\ pc[u] \in Holding /\ u \notin Background => Default(conn[u])
    /\ pc[u] = "putting" /\ ~discard[u] => Default(conn[u])
    /\ pc[u] = "applying" => u \in Background

PInv ==
  /\ TypeOK
  /\ UserState
  /\ CreatorAlone
  /\ CleanHands
  /\ OneOpenPool
  /\ NothingLeaks
  /\ WithinBudget
  /\ IdleIsFresh

(* A set of users is finite, and has one element more or less when a user  *)
(* joins or leaves it.                                                     *)
LEMMA UsersCount ==
  ASSUME NEW S \in SUBSET Users, NEW u \in Users
  PROVE  /\ Cardinality(S) \in Nat
         /\ Cardinality(S \union {u}) \in Nat
         /\ Cardinality(S \union {u}) <= Cardinality(S) + 1
         /\ Cardinality(S \ {u}) \in Nat
         /\ u \in S => Cardinality(S \ {u}) = Cardinality(S) - 1
<1>1. IsFiniteSet(S)
  BY FS_Subset, UsersAssumption
<1>2. IsFiniteSet(S \union {u}) /\ IsFiniteSet(S \ {u})
  BY <1>1, FS_AddElement, FS_RemoveElement
<1> QED
  BY <1>1, <1>2, FS_AddElement, FS_RemoveElement, FS_CardinalityType

(* The connection that psycopg2 opens is a connection.                     *)
LEMMA FreshType == Fresh \in Connections /\ Default(Fresh)
BY DEF Fresh, Connections, Default

(* Leaving the block keeps the types of a user's state.                    *)
LEMMA LeaveType ==
  ASSUME TypeOK, NEW u \in Users, NEW how \in Answers, Leave(u, how)
  PROVE  /\ pc' \in [Users -> Pcs]
         /\ version' \in [Users -> Versions]
         /\ pool' \in [Users -> PoolIds \union {None}]
         /\ conn' \in [Users -> Connections \union {None}]
         /\ discard' \in [Users -> BOOLEAN]
         /\ answer' \in [Users -> Answers]
BY DEF TypeOK, Leave, Pcs

(* Pool i changes, in its connections only.                                *)
OnlyPool(i) ==
  /\ pools' \in Seq(Pools)
  /\ Len(pools') = Len(pools)
  /\ PoolIds' = PoolIds
  /\ \A k \in PoolIds : k # i => pools'[k] = pools[k]
  /\ pools'[i].closed = pools[i].closed
  /\ \A k \in PoolIds : Len(pools'[k].idle) <= MinConn

(* What With does to the sequence of pools.                                *)
LEMMA WithPools ==
  ASSUME TypeOK, NEW i \in PoolIds, NEW idle \in Seq(Connections),
         NEW used \in SUBSET Users, Len(idle) <= MinConn,
         pools' = With(i, idle, used)
  PROVE  /\ OnlyPool(i)
         /\ pools'[i].idle = idle
         /\ pools'[i].used = used
<1> DEFINE q == [version |-> pools[i].version, closed |-> pools[i].closed,
                 idle |-> idle, used |-> used]
<1>1. pools[i] \in Pools
  BY DEF TypeOK, PoolIds
<1>2. q \in Pools
  BY <1>1 DEF Pools
<1>3. pools' = [pools EXCEPT ![i] = q]
  BY DEF With
<1> HIDE DEF q
<1>4. /\ pools' \in Seq(Pools)
      /\ Len(pools') = Len(pools)
      /\ pools'[i] = q
      /\ \A k \in PoolIds : k # i => pools'[k] = pools[k]
  BY <1>2, <1>3 DEF TypeOK, PoolIds
<1>5. PoolIds' = PoolIds
  BY <1>4 DEF PoolIds
<1>6. pools'[i].idle = idle /\ pools'[i].used = used
      /\ pools'[i].closed = pools[i].closed
  BY <1>4 DEF q
<1>7. \A k \in PoolIds : Len(pools'[k].idle) <= MinConn
  BY <1>4, <1>6 DEF TypeOK
<1> QED
  BY <1>4, <1>5, <1>6, <1>7 DEF OnlyPool

(* What CloseAll does to the sequence of pools.                            *)
LEMMA ClosedPools ==
  ASSUME TypeOK, NEW ids \in SUBSET PoolIds, pools' = CloseAll(ids)
  PROVE  /\ pools' \in Seq(Pools)
         /\ Len(pools') = Len(pools)
         /\ PoolIds' = PoolIds
         /\ \A k \in PoolIds : k \notin ids => pools'[k] = pools[k]
         /\ \A k \in ids : pools'[k].closed /\ pools'[k].idle = <<>>
         /\ \A k \in PoolIds : Len(pools'[k].idle) <= MinConn
<1>1. \A k \in PoolIds : pools[k] \in Pools
  BY DEF TypeOK, PoolIds
<1>2. \A k \in PoolIds :
        [version |-> pools[k].version, closed |-> TRUE, idle |-> <<>>, used |-> {}] \in Pools
  BY <1>1 DEF Pools
<1>3. pools' \in [1..Len(pools) -> Pools]
  BY <1>1, <1>2 DEF CloseAll, PoolIds
<1>4. pools' \in Seq(Pools) /\ Len(pools') = Len(pools)
  BY <1>3 DEF TypeOK
<1>5. PoolIds' = PoolIds
  BY <1>4 DEF PoolIds
<1>6. \A k \in ids : pools'[k].closed /\ pools'[k].idle = <<>>
  BY <1>1 DEF CloseAll, Pools
<1>7. \A k \in PoolIds : k \notin ids => pools'[k] = pools[k]
  BY DEF CloseAll
<1>8. Len(<<>>) <= MinConn
  BY ConnAssumption
<1> QED
  BY <1>4, <1>5, <1>6, <1>7, <1>8 DEF TypeOK

(* The initial states satisfy the invariant.                               *)
LEMMA PoolInit == Init => PInv
<1> SUFFICES ASSUME Init PROVE PInv
  OBVIOUS
<1>1. PoolIds = {}
  BY DEF Init, PoolIds
<1>2. TypeOK
  BY <1>1, ConnAssumption DEF Init, TypeOK, Versions, Pcs, Answers
<1> QED
  BY <1>1, <1>2
     DEF Init, PInv, UserState, CreatorAlone, CleanHands, Holding, OneOpenPool,
         NothingLeaks, WithinBudget, IdleIsFresh

(* A step that leaves the pools alone and takes only such a user out of    *)
(* the block as has no connection keeps what is known of the pools.        *)
LEMMA PoolsKept ==
  ASSUME PInv, pools' = pools, registry' = registry,
         \A u \in Users : /\ pc'[u] \in Holding <=> pc[u] \in Holding
                          /\ pc[u] \in Holding => pool'[u] = pool[u]
  PROVE  OneOpenPool' /\ NothingLeaks' /\ WithinBudget' /\ IdleIsFresh'
<1>1. PoolIds' = PoolIds
  BY DEF PoolIds
<1>2. OneOpenPool'
  BY <1>1 DEF PInv, OneOpenPool, IsOpen
<1>3. \A i \in PoolIds : Holders(i)' = Holders(i)
  <2> TAKE i \in PoolIds
  <2>1. \A u \in Users : (pool'[u] = i /\ pc'[u] \in Holding)
                           <=> (pool[u] = i /\ pc[u] \in Holding)
    OBVIOUS
  <2> QED
    BY <2>1 DEF Holders
<1>6. NothingLeaks'
  BY <1>1, <1>3 DEF PInv, NothingLeaks, IsOpen
<1>4. WithinBudget'
  BY <1>1 DEF PInv, WithinBudget, OpenConnections, IsOpen
<1>5. IdleIsFresh'
  BY <1>1 DEF PInv, IdleIsFresh
<1> QED
  BY <1>2, <1>6, <1>4, <1>5

(* Creating a pool adds one, with fresh connections and no user.           *)
NewPool(u) ==
  LET i == Len(pools) + 1
  IN  /\ pools' \in Seq(Pools)
      /\ Len(pools') = i
      /\ i <= MaxPools
      /\ PoolIds' = PoolIds \union {i}
      /\ i \notin PoolIds
      /\ \A k \in PoolIds : pools'[k] = pools[k]
      /\ ~pools'[i].closed
      /\ Len(pools'[i].idle) = MinConn
      /\ \A n \in 1..MinConn : pools'[i].idle[n] = Fresh
      /\ pools'[i].used = {}
      /\ \A k \in PoolIds' : Len(pools'[k].idle) <= MinConn

(* What CreatePool does to the sequence of pools.                          *)
LEMMA PoolAdded ==
  ASSUME TypeOK, NEW u \in Users, CreatePool(u)
  PROVE  NewPool(u)
<1> DEFINE i == Len(pools) + 1
           q == [version |-> version[u], closed |-> FALSE,
                 idle |-> [n \in 1..MinConn |-> Fresh], used |-> {}]
<1>1. q.idle \in Seq(Connections) /\ Len(q.idle) = MinConn
  BY FreshType, ConnAssumption
<1>2. q \in Pools
  BY <1>1 DEF Pools, TypeOK
<1>3. pools' = Append(pools, q) /\ Len(pools) \in Nat /\ Len(pools) < MaxPools
  BY DEF CreatePool, TypeOK
<1>4. \A n \in 1..MinConn : q.idle[n] = Fresh
  OBVIOUS
<1>5. ~q.closed /\ q.used = {}
  OBVIOUS
<1> HIDE DEF q
<1>6. /\ pools' \in Seq(Pools)
      /\ Len(pools') = i
      /\ pools'[i] = q
      /\ \A k \in PoolIds : pools'[k] = pools[k]
  BY <1>2, <1>3 DEF TypeOK, PoolIds
<1>7. PoolIds' = PoolIds \union {i} /\ i \notin PoolIds /\ i <= MaxPools
  BY <1>3, <1>6, ConnAssumption DEF PoolIds
<1>8. \A k \in PoolIds' : Len(pools'[k].idle) <= MinConn
  BY <1>1, <1>6, <1>7, ConnAssumption DEF TypeOK
<1> QED
  BY <1>1, <1>4, <1>5, <1>6, <1>7, <1>8 DEF NewPool

(* A connection is taken from the idle ones; it is as new.                 *)
TakesIdle(u) ==
  LET i == pool[u]
      last == Len(pools[i].idle)
  IN  /\ i \in PoolIds
      /\ OnlyPool(i)
      /\ last \in Nat \ {0}
      /\ Len(pools'[i].idle) = last - 1
      /\ \A n \in 1..(last - 1) : pools'[i].idle[n] = pools[i].idle[n]
      /\ pools'[i].used = pools[i].used \union {u}
      /\ conn'[u] = Fresh

(* What CheckoutIdle does to the pools.                                    *)
LEMMA IdleTaken ==
  ASSUME PInv, NEW u \in Users, CheckoutIdle(u)
  PROVE  TakesIdle(u)
<1> DEFINE i == pool[u]
           idle == pools[i].idle
           rest == SubSeq(idle, 1, Len(idle) - 1)
           used == pools[i].used \union {u}
<1>0. TypeOK
  BY DEF PInv
<1>1. i \in PoolIds
  BY DEF PInv, UserState, CheckoutIdle
<1>2. pools[i] \in Pools /\ Len(idle) <= MinConn
  BY <1>0, <1>1 DEF TypeOK, PoolIds
<1>3. idle \in Seq(Connections) /\ pools[i].used \in SUBSET Users
  BY <1>2 DEF Pools
<1>4. idle # <<>> /\ pools' = With(i, rest, pools[i].used \union {u})
      /\ conn' = [conn EXCEPT ![u] = idle[Len(idle)]]
  BY DEF CheckoutIdle
<1>5. Len(idle) \in Nat \ {0}
  BY <1>3, <1>4
<1>6. idle[Len(idle)] = Fresh
  BY <1>1, <1>5 DEF PInv, IdleIsFresh
<1>7. conn'[u] = Fresh
  BY <1>0, <1>4, <1>6 DEF TypeOK
<1> HIDE DEF idle
<1>8. /\ rest \in Seq(Connections)
      /\ Len(rest) = Len(idle) - 1
      /\ \A n \in 1..(Len(idle) - 1) : rest[n] = idle[n]
  <2>1. \A n \in 1..(Len(idle) - 1) : idle[n] \in Connections
    BY <1>3, <1>5 DEF idle
  <2>2. Len(idle) - 1 \in Int /\ 1 \in Int
    BY <1>5
  <2>3. /\ rest \in Seq(Connections)
        /\ Len(rest) = IF 1 <= Len(idle) - 1 THEN (Len(idle) - 1) - 1 + 1 ELSE 0
        /\ \A n \in 1..((Len(idle) - 1) - 1 + 1) : rest[n] = idle[1 + n - 1]
    BY <2>1, <2>2, SubSeqProperties
  <2> HIDE DEF rest
  <2>4. Len(rest) = Len(idle) - 1
    <3>1. CASE Len(idle) = 1
      <4>1. ~(1 <= Len(idle) - 1) /\ Len(idle) - 1 = 0
        BY <3>1
      <4> QED
        BY <2>3, <4>1
    <3>2. CASE Len(idle) # 1
      <4>1. 1 <= Len(idle) - 1 /\ (Len(idle) - 1) - 1 + 1 = Len(idle) - 1
        BY <1>5, <3>2
      <4> QED
        BY <2>3, <4>1
    <3> QED
      BY <3>1, <3>2
  <2>5. ASSUME NEW n \in 1..(Len(idle) - 1)
        PROVE  rest[n] = idle[n]
    <3>1. 1 + n - 1 = n /\ n \in 1..((Len(idle) - 1) - 1 + 1)
      BY <1>5
    <3> QED
      BY <2>3, <3>1
  <2> QED
    BY <2>3, <2>4, <2>5
<1>9. Len(rest) <= MinConn
  BY <1>2, <1>5, <1>8, ConnAssumption DEF idle
<1>10. used \in SUBSET Users /\ pools' = With(i, rest, used)
  BY <1>3, <1>4 DEF idle
<1> HIDE DEF rest, used
<1>11. OnlyPool(i) /\ pools'[i].idle = rest /\ pools'[i].used = used
  BY <1>0, <1>1, <1>8, <1>9, <1>10, WithPools
<1> QED
  BY <1>1, <1>5, <1>7, <1>8, <1>11 DEF TakesIdle, idle, used

(* A connection is opened in a pool that has not reached its limit.        *)
OpensNew(u) ==
  LET i == pool[u]
  IN  /\ i \in PoolIds
      /\ OnlyPool(i)
      /\ pools'[i].idle = <<>>
      /\ pools[i].idle = <<>>
      /\ pools'[i].used = pools[i].used \union {u}
      /\ conn'[u] = Fresh
      /\ Cardinality(pools[i].used) # MaxConn

(* What CheckoutNew does to the pools.                                     *)
LEMMA NewOpened ==
  ASSUME PInv, NEW u \in Users, CheckoutNew(u)
  PROVE  OpensNew(u)
<1> DEFINE i == pool[u]
           used == pools[i].used \union {u}
<1>0. TypeOK
  BY DEF PInv
<1>1. i \in PoolIds
  BY DEF PInv, UserState, CheckoutNew
<1>2. pools[i] \in Pools
  BY <1>0, <1>1 DEF TypeOK, PoolIds
<1>3. used \in SUBSET Users
  BY <1>2 DEF Pools
<1>4. pools' = With(i, <<>>, used)
  BY DEF CheckoutNew
<1>5. <<>> \in Seq(Connections) /\ Len(<<>>) <= MinConn
  BY ConnAssumption
<1> HIDE DEF used
<1>6. OnlyPool(i) /\ pools'[i].idle = <<>> /\ pools'[i].used = used
  BY <1>0, <1>1, <1>3, <1>4, <1>5, WithPools
<1>7. conn'[u] = Fresh
  BY <1>0 DEF TypeOK, CheckoutNew
<1> QED
  BY <1>1, <1>6, <1>7 DEF OpensNew, CheckoutNew, used

(* A connection goes back to its pool, which keeps it or closes it, or     *)
(* finds itself closed.                                                    *)
PutsBack(u, close) ==
  LET i == pool[u]
  IN  /\ i \in PoolIds
      /\ OnlyPool(i)
      /\ IsOpen(i) =>
           /\ pools'[i].used = pools[i].used \ {u}
           /\ \/ pools'[i].idle = pools[i].idle
              \/ /\ ~close
                 /\ pools'[i].idle = Append(pools[i].idle, [conn[u] EXCEPT !.tx = "none"])
      /\ ~IsOpen(i) => pools' = pools

(* What PutConn does to the pools.                                         *)
LEMMA ConnectionReturned ==
  ASSUME PInv, NEW u \in Users, NEW close \in BOOLEAN, NEW how,
         pc[u] \in Holding, PutConn(u, close, how)
  PROVE  PutsBack(u, close)
<1> DEFINE i == pool[u]
           idle == pools[i].idle
           c == [conn[u] EXCEPT !.tx = "none"]
           keeps == ~close /\ Len(idle) < MinConn
           kept == IF keeps THEN <<c>> ELSE <<>>
<1>0. TypeOK
  BY DEF PInv
<1>1. i \in PoolIds /\ conn[u] \in Connections
  BY DEF PInv, UserState
<1>2. pools[i] \in Pools /\ Len(idle) <= MinConn
  BY <1>0, <1>1 DEF TypeOK, PoolIds
<1>3. idle \in Seq(Connections) /\ pools[i].used \ {u} \in SUBSET Users
  BY <1>2 DEF Pools
<1>4. c \in Connections
  BY <1>1 DEF Connections
<1>5. CASE IsOpen(i)
  <2>1. pools' = With(i, idle \o kept, pools[i].used \ {u})
    BY <1>5 DEF PutConn
  <2> HIDE DEF c, idle
  <2>2. /\ idle \o kept \in Seq(Connections)
        /\ Len(idle \o kept) <= MinConn
        /\ idle \o kept = IF keeps THEN Append(idle, c) ELSE idle
    <3>1. CASE keeps
      BY <1>3, <1>4, <3>1, ConnAssumption
    <3>2. CASE ~keeps
      <4>1. idle \o kept = idle
        BY <1>3, <3>2, ConcatEmptySeq DEF idle
      <4> QED
        BY <1>2, <1>3, <3>2, <4>1 DEF idle
    <3> QED
      BY <3>1, <3>2
  <2> HIDE DEF kept
  <2> DEFINE left == idle \o kept
             used == pools[i].used \ {u}
  <2>3. left \in Seq(Connections) /\ Len(left) <= MinConn
        /\ used \in SUBSET Users /\ pools' = With(i, left, used)
    BY <1>3, <2>1, <2>2
  <2> HIDE DEF i, left, used
  <2>4. OnlyPool(i) /\ pools'[i].idle = left /\ pools'[i].used = used
    BY <1>0, <1>1, <2>3, WithPools
  <2> QED
    BY <1>1, <1>5, <2>2, <2>4 DEF PutsBack, i, left, used, idle, c
<1>6. CASE ~IsOpen(i)
  <2>1. pools' = pools
    BY <1>6 DEF PutConn
  <2>2. OnlyPool(i)
    BY <1>0, <1>1, <2>1 DEF OnlyPool, TypeOK, PoolIds
  <2> QED
    BY <1>1, <1>6, <2>1, <2>2 DEF PutsBack
<1> QED
  BY <1>5, <1>6

(* Steps on the saved connection and on the process's table keep types.    *)
LEMMA TypeTable ==
  ASSUME PInv, NEW u \in Users,
         \/ Edit \/ Deactivate(u) \/ ClosePools(u) \/ Load(u) \/ FindPool(u)
         \/ ReplacePools(u) \/ CreatePool(u) \/ CreateFails(u)
  PROVE  TypeOK'
<1> USE DEF rowVars, userVars, Pcs, Versions
<1>0. TypeOK
  BY DEF PInv
<1>1. CASE Edit
  BY <1>0, <1>1, ConnAssumption DEF TypeOK, Edit, PoolIds
<1>2. CASE Deactivate(u)
  BY <1>0, <1>2 DEF TypeOK, Deactivate, Goto, PoolIds
<1>3. CASE ClosePools(u)
  <2>1. pools' = CloseAll(registry) /\ registry \in SUBSET PoolIds
    BY <1>0, <1>3 DEF ClosePools, TypeOK
  <2> QED
    BY <1>0, <1>3, <2>1, ClosedPools DEF TypeOK, ClosePools, Goto
<1>4. CASE Load(u)
  BY <1>0, <1>4 DEF TypeOK, Load, Goto, PoolIds
<1>5. CASE FindPool(u)
  BY <1>0, <1>5 DEF TypeOK, FindPool, Goto, PoolIds
<1>6. CASE ReplacePools(u)
  <2>1. pools' = CloseAll(registry) /\ registry \in SUBSET PoolIds
    BY <1>0, <1>6 DEF ReplacePools, TypeOK
  <2> QED
    BY <1>0, <1>6, <2>1, ClosedPools DEF TypeOK, ReplacePools, Goto
<1>7. CASE CreatePool(u)
  <2>1. NewPool(u)
    BY <1>0, <1>7, PoolAdded
  <2>2. pool' \in [Users -> PoolIds' \union {None}]
    BY <1>0, <1>7, <2>1 DEF TypeOK, CreatePool, NewPool
  <2>3. registry' \subseteq PoolIds'
    BY <1>0, <1>7, <2>1 DEF TypeOK, CreatePool, NewPool
  <2>4. pc' \in [Users -> Pcs]
    BY <1>0, <1>7 DEF TypeOK, CreatePool, Goto
  <2> QED
    BY <1>0, <1>7, <2>1, <2>2, <2>3, <2>4 DEF TypeOK, CreatePool, NewPool
<1>8. CASE CreateFails(u)
  <2>1. Leave(u, "error") /\ "error" \in Answers
    BY <1>8 DEF CreateFails, Answers
  <2> QED
    BY <1>0, <1>8, <2>1, LeaveType DEF TypeOK, CreateFails, PoolIds
<1> QED
  BY <1>1, <1>2, <1>3, <1>4, <1>5, <1>6, <1>7, <1>8

(* Checking a connection out keeps types.                                  *)
LEMMA TypeCheckout ==
  ASSUME PInv, NEW u \in Users,
         \/ CheckoutIdle(u) \/ CheckoutNew(u) \/ CheckoutFails(u) \/ CheckoutRefused(u)
  PROVE  TypeOK'
<1> USE DEF rowVars, userVars, Pcs
<1>0. TypeOK
  BY DEF PInv
<1>1. CASE CheckoutIdle(u)
  <2>1. TakesIdle(u)
    BY <1>1, IdleTaken
  <2>2. conn' \in [Users -> Connections \union {None}]
    BY <1>0, <1>1, <2>1, FreshType DEF TypeOK, CheckoutIdle, TakesIdle
  <2>3. pc' \in [Users -> Pcs]
    BY <1>0, <1>1 DEF TypeOK, CheckoutIdle, AfterCheckout
  <2> QED
    BY <1>0, <1>1, <2>1, <2>2, <2>3 DEF TypeOK, CheckoutIdle, TakesIdle, OnlyPool
<1>2. CASE CheckoutNew(u)
  <2>1. OpensNew(u)
    BY <1>2, NewOpened
  <2>2. pc' \in [Users -> Pcs]
    BY <1>0, <1>2 DEF TypeOK, CheckoutNew, AfterCheckout
  <2>3. conn' \in [Users -> Connections \union {None}]
    BY <1>0, <1>2, FreshType DEF TypeOK, CheckoutNew
  <2> QED
    BY <1>0, <1>2, <2>1, <2>2, <2>3 DEF TypeOK, CheckoutNew, OpensNew, OnlyPool
<1>3. CASE CheckoutFails(u)
  <2>1. Leave(u, "error") /\ "error" \in Answers
    BY <1>3 DEF CheckoutFails, Answers
  <2> QED
    BY <1>0, <1>3, <2>1, LeaveType DEF TypeOK, CheckoutFails, PoolIds
<1>4. CASE CheckoutRefused(u)
  <2>1. Leave(u, "busy") /\ "busy" \in Answers
    BY <1>4 DEF CheckoutRefused, Answers
  <2> QED
    BY <1>0, <1>4, <2>1, LeaveType DEF TypeOK, CheckoutRefused, PoolIds
<1> QED
  BY <1>1, <1>2, <1>3, <1>4

(* Using a connection, and putting it back, keeps types.                   *)
LEMMA TypeUse ==
  ASSUME PInv, NEW u \in Users,
         \/ ApplyTimeouts(u) \/ ApplyFails(u) \/ SetAutocommit(u) \/ Statement(u)
         \/ BodyRaises(u) \/ BodyEnds(u) \/ CleanUp(u) \/ CleanUpFails(u) \/ Put(u)
  PROVE  TypeOK'
<1> USE DEF rowVars, Pcs
<1>0. TypeOK
  BY DEF PInv
<1>1. CASE ApplyTimeouts(u)
  <2>1. conn[u] \in Connections
    BY <1>1 DEF PInv, UserState, ApplyTimeouts, Goto, Holding
  <2>2. [conn[u] EXCEPT !.timeouts = "background"] \in Connections
    BY <2>1 DEF Connections
  <2>3. conn' = [conn EXCEPT ![u] = [conn[u] EXCEPT !.timeouts = "background"]]
    BY <1>1 DEF ApplyTimeouts
  <2> QED
    BY <1>0, <1>1, <2>2, <2>3 DEF TypeOK, ApplyTimeouts, UserStep, Goto, PoolIds
<1>2. CASE SetAutocommit(u)
  <2>1. conn[u] \in Connections
    BY <1>2 DEF PInv, UserState, SetAutocommit, Goto, Holding
  <2>2. [conn[u] EXCEPT !.autocommit = TRUE] \in Connections
    BY <2>1 DEF Connections
  <2>3. conn' = [conn EXCEPT ![u] = [conn[u] EXCEPT !.autocommit = TRUE]]
    BY <1>2 DEF SetAutocommit
  <2> QED
    BY <1>0, <1>2, <2>2, <2>3 DEF TypeOK, SetAutocommit, UserStep, Goto, PoolIds
<1>3. CASE Statement(u)
  <2> DEFINE tx == IF conn[u].autocommit THEN "none" ELSE "open"
  <2>1. conn[u] \in Connections
    BY <1>3 DEF PInv, UserState, Statement, Goto, Holding
  <2>2. [conn[u] EXCEPT !.tx = tx] \in Connections
    BY <2>1 DEF Connections
  <2>3. conn' = [conn EXCEPT ![u] = [conn[u] EXCEPT !.tx = tx]]
    BY <1>3 DEF Statement
  <2> QED
    BY <1>0, <1>3, <2>2, <2>3 DEF TypeOK, Statement, UserStep, Goto, PoolIds
<1>4. CASE BodyRaises(u)
  BY <1>0, <1>4 DEF TypeOK, BodyRaises, Goto, PoolIds, Answers
<1>5. CASE BodyEnds(u)
  BY <1>0, <1>5 DEF TypeOK, BodyEnds, Goto, PoolIds, Answers
<1>6. CASE CleanUp(u)
  <2>1. conn[u] \in Connections
    BY <1>6 DEF PInv, UserState, CleanUp, Goto, Holding
  <2>2. Cleaned(u) \in Connections
    BY <2>1 DEF Connections, Cleaned
  <2> QED
    BY <1>0, <1>6, <2>2 DEF TypeOK, CleanUp, UserStep, Goto, PoolIds
<1>7. CASE CleanUpFails(u)
  BY <1>0, <1>7 DEF TypeOK, CleanUpFails, UserStep, Goto, PoolIds
<1>8. ASSUME NEW close \in BOOLEAN, NEW how \in Answers, pc[u] \in Holding,
             PutConn(u, close, how)
      PROVE  TypeOK'
  <2>1. PutsBack(u, close)
    BY <1>8, ConnectionReturned
  <2>2. \E answered \in Answers : Leave(u, answered)
    BY <1>8 DEF PutConn, Answers
  <2> QED
    BY <1>0, <1>8, <2>1, <2>2, LeaveType DEF TypeOK, PutConn, PutsBack, OnlyPool
<1>9. CASE ApplyFails(u)
  BY <1>8, <1>9 DEF ApplyFails, Holding, Answers
<1>10. CASE Put(u)
  BY <1>0, <1>8, <1>10 DEF Put, Holding, TypeOK
<1> QED
  BY <1>1, <1>2, <1>3, <1>4, <1>5, <1>6, <1>7, <1>9, <1>10

(* When every pool of the table is closed, no pool is open.                *)
LEMMA AllClosed ==
  ASSUME PInv, pools' = CloseAll(registry), registry' = {}
  PROVE  /\ PoolIds' = PoolIds
         /\ OneOpenPool' /\ NothingLeaks' /\ WithinBudget' /\ IdleIsFresh'
<1>1. TypeOK /\ registry \in SUBSET PoolIds
  BY DEF PInv, TypeOK
<1>2. /\ PoolIds' = PoolIds
      /\ \A k \in PoolIds : k \notin registry => pools'[k] = pools[k]
      /\ \A k \in registry : pools'[k].closed /\ pools'[k].idle = <<>>
  BY <1>1, ClosedPools
<1>3. \A k \in PoolIds : k \notin registry => ~IsOpen(k)
  BY DEF PInv, OneOpenPool
<1>4. \A k \in PoolIds : pools'[k].closed
  BY <1>2, <1>3 DEF IsOpen
<1>5. OneOpenPool' /\ NothingLeaks'
  BY <1>2, <1>4 DEF OneOpenPool, NothingLeaks, IsOpen
<1>6. WithinBudget'
  BY <1>2, <1>4, ConnAssumption DEF WithinBudget, OpenConnections, IsOpen
<1>7. IdleIsFresh'
  <2> SUFFICES ASSUME NEW k \in PoolIds, NEW n \in 1..Len(pools'[k].idle)
               PROVE  pools'[k].idle[n] = Fresh
    BY <1>2 DEF IdleIsFresh
  <2>1. CASE k \in registry
    BY <1>2, <2>1
  <2>2. CASE k \notin registry
    BY <1>2, <2>2 DEF PInv, IdleIsFresh
  <2> QED
    BY <2>1, <2>2
<1> QED
  BY <1>2, <1>5, <1>6, <1>7

(* Steps on the saved connection and on the process's table keep what is   *)
(* known of the users.                                                     *)
LEMMA UsersTable ==
  ASSUME PInv, NEW u \in Users,
         \/ Edit \/ Deactivate(u) \/ ClosePools(u) \/ Load(u) \/ FindPool(u)
         \/ ReplacePools(u) \/ CreatePool(u) \/ CreateFails(u)
  PROVE  UserState' /\ CreatorAlone' /\ CleanHands'
<1> USE DEF Holding, rowVars, userVars
<1>0. TypeOK /\ UserState /\ CreatorAlone /\ CleanHands
  BY DEF PInv
<1>1. CASE Edit
  BY <1>0, <1>1 DEF Edit, UserState, CreatorAlone, CleanHands, PoolIds
<1>2. CASE Deactivate(u)
  BY <1>0, <1>2 DEF TypeOK, Deactivate, Goto, UserState, CreatorAlone, CleanHands, PoolIds
<1>3. CASE ClosePools(u)
  <2>1. PoolIds' = PoolIds
    BY <1>3, AllClosed DEF ClosePools
  <2> QED
    BY <1>0, <1>3, <2>1 DEF TypeOK, ClosePools, Goto, UserState, CreatorAlone, CleanHands
<1>4. CASE Load(u)
  BY <1>0, <1>4 DEF TypeOK, Load, Goto, UserState, CreatorAlone, CleanHands, PoolIds
<1>5. CASE FindPool(u)
  <2>1. \E i \in PoolIds : pool' = [pool EXCEPT ![u] = i]
    BY <1>0, <1>5 DEF FindPool, TypeOK
  <2>2. PoolIds' = PoolIds
    BY <1>5 DEF FindPool, PoolIds
  <2> QED
    BY <1>0, <1>5, <2>1, <2>2
       DEF TypeOK, FindPool, Goto, UserState, CreatorAlone, CleanHands
<1>6. CASE ReplacePools(u)
  <2>1. PoolIds' = PoolIds
    BY <1>6, AllClosed DEF ReplacePools
  <2>2. UserState' /\ CleanHands'
    BY <1>0, <1>6, <2>1 DEF TypeOK, ReplacePools, Goto, UserState, CleanHands
  <2>3. \A v \in Users : pc[v] # "creating"
    BY <1>0, <1>6, UsersAssumption DEF CreatorAlone, ReplacePools
  <2>4. CreatorAlone'
    BY <1>0, <1>6, <2>3 DEF TypeOK, ReplacePools, Goto, CreatorAlone
  <2> QED
    BY <2>2, <2>4
<1>7. CASE CreatePool(u)
  <2>1. PoolIds' = PoolIds \union {Len(pools) + 1}
    BY <1>0, <1>7, PoolAdded DEF NewPool
  <2>2. UserState' /\ CleanHands'
    BY <1>0, <1>7, <2>1 DEF TypeOK, CreatePool, Goto, UserState, CleanHands
  <2>3. \A v \in Users : v # u => pc[v] # "creating"
    BY <1>0, <1>7 DEF CreatorAlone, CreatePool, Goto
  <2>4. CreatorAlone'
    BY <1>0, <1>7, <2>3 DEF TypeOK, CreatePool, Goto, CreatorAlone
  <2> QED
    BY <2>2, <2>4
<1>8. CASE CreateFails(u)
  <2>1. \A v \in Users : v # u => pc[v] # "creating"
    BY <1>0, <1>8 DEF CreatorAlone, CreateFails
  <2> QED
    BY <1>0, <1>8, <2>1
       DEF TypeOK, CreateFails, Leave, UserState, CreatorAlone, CleanHands, PoolIds
<1> QED
  BY <1>1, <1>2, <1>3, <1>4, <1>5, <1>6, <1>7, <1>8

(* Steps on the saved connection and on the process's table keep what is   *)
(* known of the pools.                                                     *)
LEMMA PoolsTable ==
  ASSUME PInv, NEW u \in Users,
         \/ Edit \/ Deactivate(u) \/ ClosePools(u) \/ Load(u) \/ FindPool(u)
         \/ ReplacePools(u) \/ CreatePool(u) \/ CreateFails(u)
  PROVE  OneOpenPool' /\ NothingLeaks' /\ WithinBudget' /\ IdleIsFresh'
<1>0. TypeOK
  BY DEF PInv
<1>1. CASE Edit
  BY <1>1, PoolsKept DEF Edit, userVars
<1>2. CASE Deactivate(u)
  BY <1>0, <1>2, PoolsKept DEF Deactivate, Goto, Holding, TypeOK
<1>3. CASE ClosePools(u)
  BY <1>3, AllClosed DEF ClosePools
<1>4. CASE Load(u)
  BY <1>0, <1>4, PoolsKept DEF Load, Goto, Holding, TypeOK
<1>5. CASE FindPool(u)
  <2>1. pools' = pools /\ registry' = registry
    BY <1>5 DEF FindPool
  <2>2. pc[u] = "loaded" /\ pc' = [pc EXCEPT ![u] = "found"]
    BY <1>5 DEF FindPool, Goto
  <2>3. \E i : pool' = [pool EXCEPT ![u] = i]
    BY <1>5 DEF FindPool
  <2>4. \A v \in Users : /\ pc'[v] \in Holding <=> pc[v] \in Holding
                         /\ pc[v] \in Holding => pool'[v] = pool[v]
    BY <1>0, <2>2, <2>3 DEF Holding, TypeOK
  <2> QED
    BY <2>1, <2>4, PoolsKept
<1>6. CASE ReplacePools(u)
  BY <1>6, AllClosed DEF ReplacePools
<1>7. CASE CreatePool(u)
  <2>0. PICK i \in Nat : i = Len(pools) + 1
    BY <1>0 DEF TypeOK
  <2>1. /\ PoolIds' = PoolIds \union {i}
        /\ i \notin PoolIds
        /\ \A k \in PoolIds : pools'[k] = pools[k]
        /\ ~pools'[i].closed
        /\ Len(pools'[i].idle) = MinConn
        /\ \A n \in 1..MinConn : pools'[i].idle[n] = Fresh
        /\ pools'[i].used = {}
    BY <1>0, <1>7, <2>0, PoolAdded DEF NewPool
  <2>2. registry = {} /\ registry' = {i}
    BY <1>7, <2>0 DEF PInv, CreatorAlone, CreatePool, Goto
  <2>3. \A k \in PoolIds : pools[k].closed
    BY <2>2 DEF PInv, OneOpenPool, IsOpen
  <2>4. \A k \in PoolIds' : k # i => k \in PoolIds /\ pools'[k] = pools[k] /\ pools'[k].closed
    BY <2>1, <2>3
  <2>5. OneOpenPool'
    BY <2>2, <2>4 DEF OneOpenPool, IsOpen
  <2>6. Holders(i)' = {}
    <3>1. \A v \in Users : pc'[v] \in Holding => pc[v] \in Holding /\ pool'[v] = pool[v]
      BY <1>0, <1>7 DEF CreatePool, Goto, Holding, TypeOK
    <3>2. \A v \in Users : pc[v] \in Holding => pool[v] # i
      BY <2>1 DEF PInv, UserState
    <3> QED
      BY <3>1, <3>2 DEF Holders
  <2>7. NothingLeaks'
    BY <2>1, <2>4, <2>6 DEF NothingLeaks, IsOpen
  <2>8. WithinBudget'
    <3>1. OpenConnections(i)' <= MaxConn
      BY <2>1, FS_EmptySet, ConnAssumption DEF OpenConnections, IsOpen
    <3>2. \A k \in PoolIds' : k # i => OpenConnections(k)' = 0
      BY <2>4 DEF OpenConnections, IsOpen
    <3>3. 0 <= MaxConn
      BY ConnAssumption
    <3> QED
      BY <3>1, <3>2, <3>3 DEF WithinBudget
  <2>9. IdleIsFresh'
    BY <2>1, <2>4 DEF PInv, IdleIsFresh
  <2> QED
    BY <2>5, <2>7, <2>8, <2>9
<1>8. CASE CreateFails(u)
  BY <1>0, <1>8, PoolsKept DEF CreateFails, Leave, Holding, TypeOK
<1> QED
  BY <1>1, <1>2, <1>3, <1>4, <1>5, <1>6, <1>7, <1>8

(* A change of one pool that keeps it open or closed keeps the number of   *)
(* open pools.                                                             *)
LEMMA StillOneOpen ==
  ASSUME PInv, NEW i \in PoolIds, OnlyPool(i), registry' = registry
  PROVE  /\ OneOpenPool'
         /\ \A k \in PoolIds : IsOpen(k)' <=> IsOpen(k)
<1>1. \A k \in PoolIds : IsOpen(k)' <=> IsOpen(k)
  BY DEF OnlyPool, IsOpen
<1>2. PoolIds' = PoolIds
  BY DEF OnlyPool
<1> QED
  BY <1>1, <1>2 DEF PInv, OneOpenPool

(* The other pools, and their users, are as before.                        *)
LEMMA OtherPools ==
  ASSUME PInv, NEW i \in PoolIds, OnlyPool(i), registry' = registry,
         \A k \in PoolIds : k # i => Holders(k)' = Holders(k),
         IsOpen(i) => /\ pools'[i].used = Holders(i)'
                      /\ OpenConnections(i)' <= MaxConn,
         \A n \in 1..Len(pools'[i].idle) : pools'[i].idle[n] = Fresh
  PROVE  OneOpenPool' /\ NothingLeaks' /\ WithinBudget' /\ IdleIsFresh'
<1>1. /\ OneOpenPool'
      /\ PoolIds' = PoolIds
      /\ \A k \in PoolIds : IsOpen(k)' <=> IsOpen(k)
      /\ \A k \in PoolIds : k # i => pools'[k] = pools[k]
  BY StillOneOpen DEF OnlyPool
<1>2. NothingLeaks'
  BY <1>1 DEF PInv, NothingLeaks
<1>3. WithinBudget'
  <2>1. \A k \in PoolIds : k # i => OpenConnections(k)' = OpenConnections(k)
    BY <1>1 DEF OpenConnections
  <2>2. ~IsOpen(i) => OpenConnections(i)' = 0
    BY <1>1 DEF OpenConnections
  <2>3. 0 <= MaxConn
    BY ConnAssumption
  <2> QED
    BY <1>1, <2>1, <2>2, <2>3 DEF PInv, WithinBudget
<1>4. IdleIsFresh'
  <2> SUFFICES ASSUME NEW k \in PoolIds, NEW n \in 1..Len(pools'[k].idle)
               PROVE  pools'[k].idle[n] = Fresh
    BY <1>1 DEF IdleIsFresh
  <2>1. CASE k = i
    BY <2>1
  <2>2. CASE k # i
    BY <1>1, <2>2 DEF PInv, IdleIsFresh
  <2> QED
    BY <2>1, <2>2
<1> QED
  BY <1>1, <1>2, <1>3, <1>4

(* A user who checks a connection out becomes a holder of its pool.        *)
LEMMA JoinsHolders ==
  ASSUME PInv, NEW u \in Users, NEW i \in PoolIds, pool[u] = i,
         pc[u] = "found", pc' = [pc EXCEPT ![u] = AfterCheckout(u)], pool' = pool
  PROVE  /\ Holders(i)' = Holders(i) \union {u}
         /\ u \notin Holders(i)
         /\ \A k \in PoolIds : k # i => Holders(k)' = Holders(k)
<1>1. pc' \in [Users -> Pcs] /\ pc \in [Users -> Pcs]
  BY DEF PInv, TypeOK, AfterCheckout, Pcs
<1>2. pc'[u] \in Holding /\ pc[u] \notin Holding
  BY <1>1 DEF AfterCheckout, Holding
<1>3. \A v \in Users : v # u => pc'[v] = pc[v]
  BY <1>1
<1>4. Holders(i)' = Holders(i) \union {u}
  BY <1>2, <1>3 DEF Holders
<1>5. u \notin Holders(i)
  BY <1>2 DEF Holders
<1>6. ASSUME NEW k \in PoolIds, k # i
      PROVE  Holders(k)' = Holders(k)
  <2>1. \A v \in Users : (pool[v] = k /\ pc'[v] \in Holding)
                           <=> (pool[v] = k /\ pc[v] \in Holding)
    BY <1>3, <1>6
  <2> QED
    BY <2>1 DEF Holders
<1> QED
  BY <1>4, <1>5, <1>6

(* Checking a connection out keeps what is known of the pools.             *)
LEMMA PoolsCheckout ==
  ASSUME PInv, NEW u \in Users,
         \/ CheckoutIdle(u) \/ CheckoutNew(u) \/ CheckoutFails(u) \/ CheckoutRefused(u)
  PROVE  OneOpenPool' /\ NothingLeaks' /\ WithinBudget' /\ IdleIsFresh'
<1>0. TypeOK
  BY DEF PInv
<1>1. CASE CheckoutIdle(u)
  <2>1. PICK i \in PoolIds : pool[u] = i
    BY <1>1 DEF PInv, UserState, CheckoutIdle
  <2>2. /\ OnlyPool(i)
        /\ Len(pools[i].idle) \in Nat \ {0}
        /\ Len(pools'[i].idle) = Len(pools[i].idle) - 1
        /\ \A n \in 1..(Len(pools[i].idle) - 1) : pools'[i].idle[n] = pools[i].idle[n]
        /\ pools'[i].used = pools[i].used \union {u}
    BY <1>1, <2>1, IdleTaken DEF TakesIdle
  <2>3. IsOpen(i) /\ registry' = registry
    BY <1>1, <2>1 DEF CheckoutIdle
  <2>4. /\ Holders(i)' = Holders(i) \union {u}
        /\ \A k \in PoolIds : k # i => Holders(k)' = Holders(k)
    BY <1>1, <2>1, JoinsHolders DEF CheckoutIdle
  <2>5. pools[i].used = Holders(i) /\ Holders(i) \in SUBSET Users
    BY <2>3 DEF PInv, NothingLeaks, Holders
  <2>6. pools'[i].used = Holders(i)'
    BY <2>2, <2>4, <2>5
  <2>7. OpenConnections(i)' <= MaxConn
    <3>1. Len(pools[i].idle) + Cardinality(Holders(i)) <= MaxConn
      BY <2>3, <2>5 DEF PInv, WithinBudget, OpenConnections
    <3>2. /\ Cardinality(Holders(i)) \in Nat
          /\ Cardinality(Holders(i) \union {u}) \in Nat
          /\ Cardinality(Holders(i) \union {u}) <= Cardinality(Holders(i)) + 1
      BY <2>5, UsersCount
    <3>3. OpenConnections(i)' = (Len(pools[i].idle) - 1) + Cardinality(Holders(i) \union {u})
      BY <2>2, <2>3, <2>5, StillOneOpen DEF OpenConnections
    <3> QED
      BY <2>2, <3>1, <3>2, <3>3, ConnAssumption
  <2>8. \A n \in 1..Len(pools'[i].idle) : pools'[i].idle[n] = Fresh
    BY <2>2 DEF PInv, IdleIsFresh
  <2> QED
    BY <2>2, <2>3, <2>4, <2>6, <2>7, <2>8, OtherPools
<1>2. CASE CheckoutNew(u)
  <2>1. PICK i \in PoolIds : pool[u] = i
    BY <1>2 DEF PInv, UserState, CheckoutNew
  <2>2. /\ OnlyPool(i)
        /\ pools[i].idle = <<>> /\ pools'[i].idle = <<>>
        /\ pools'[i].used = pools[i].used \union {u}
        /\ Cardinality(pools[i].used) # MaxConn
    BY <1>2, <2>1, NewOpened DEF OpensNew
  <2>3. IsOpen(i) /\ registry' = registry
    BY <1>2, <2>1 DEF CheckoutNew
  <2>4. /\ Holders(i)' = Holders(i) \union {u}
        /\ \A k \in PoolIds : k # i => Holders(k)' = Holders(k)
    BY <1>2, <2>1, JoinsHolders DEF CheckoutNew
  <2>5. pools[i].used = Holders(i) /\ Holders(i) \in SUBSET Users
    BY <2>3 DEF PInv, NothingLeaks, Holders
  <2>6. pools'[i].used = Holders(i)'
    BY <2>2, <2>4, <2>5
  <2>7. OpenConnections(i)' <= MaxConn
    <3>1. 0 + Cardinality(Holders(i)) <= MaxConn
      BY <2>2, <2>3, <2>5, EmptySeq DEF PInv, WithinBudget, OpenConnections
    <3>2. /\ Cardinality(Holders(i)) \in Nat
          /\ Cardinality(Holders(i) \union {u}) \in Nat
          /\ Cardinality(Holders(i) \union {u}) <= Cardinality(Holders(i)) + 1
      BY <2>5, UsersCount
    <3>3. OpenConnections(i)' = 0 + Cardinality(Holders(i) \union {u})
      BY <2>2, <2>3, <2>5, EmptySeq, StillOneOpen DEF OpenConnections
    <3> QED
      BY <2>2, <2>5, <3>1, <3>2, <3>3, ConnAssumption
  <2>8. \A n \in 1..Len(pools'[i].idle) : pools'[i].idle[n] = Fresh
    BY <2>2
  <2> QED
    BY <2>2, <2>3, <2>4, <2>6, <2>7, <2>8, OtherPools
<1>3. CASE CheckoutFails(u)
  BY <1>0, <1>3, PoolsKept DEF CheckoutFails, Leave, Holding, TypeOK
<1>4. CASE CheckoutRefused(u)
  BY <1>0, <1>4, PoolsKept DEF CheckoutRefused, Leave, Holding, TypeOK
<1> QED
  BY <1>1, <1>2, <1>3, <1>4

(* Checking a connection out keeps what is known of the users.             *)
LEMMA UsersCheckout ==
  ASSUME PInv, NEW u \in Users,
         \/ CheckoutIdle(u) \/ CheckoutNew(u) \/ CheckoutFails(u) \/ CheckoutRefused(u)
  PROVE  UserState' /\ CreatorAlone' /\ CleanHands'
<1> USE DEF Holding, rowVars
<1>0. TypeOK /\ UserState /\ CreatorAlone /\ CleanHands
  BY DEF PInv
<1>1. CASE CheckoutIdle(u) \/ CheckoutNew(u)
  <2>1. /\ PoolIds' = PoolIds /\ conn'[u] = Fresh
        /\ \A v \in Users : v # u => conn'[v] = conn[v]
    <3>1. CASE CheckoutIdle(u)
      BY <1>0, <3>1, IdleTaken DEF TakesIdle, OnlyPool, CheckoutIdle, TypeOK
    <3>2. CASE CheckoutNew(u)
      BY <1>0, <3>2, NewOpened DEF OpensNew, OnlyPool, CheckoutNew, TypeOK
    <3> QED
      BY <1>1, <3>1, <3>2
  <2>2. /\ pc[u] = "found" /\ pc' = [pc EXCEPT ![u] = AfterCheckout(u)]
        /\ pool' = pool /\ discard' = discard /\ mutex' = mutex /\ registry' = registry
    BY <1>1 DEF CheckoutIdle, CheckoutNew
  <2>3. /\ pc'[u] \in {"applying", "using"}
        /\ pc'[u] = "applying" => u \in Background
        /\ \A v \in Users : v # u => pc'[v] = pc[v]
    BY <1>0, <2>2 DEF AfterCheckout, TypeOK
  <2>4. UserState'
    BY <1>0, <2>1, <2>2, <2>3, FreshType DEF UserState
  <2>5. CreatorAlone'
    BY <1>0, <2>2, <2>3 DEF CreatorAlone
  <2>6. CleanHands'
    BY <1>0, <2>1, <2>2, <2>3, FreshType DEF CleanHands
  <2> QED
    BY <2>4, <2>5, <2>6
<1>2. CASE CheckoutFails(u)
  BY <1>0, <1>2
     DEF TypeOK, CheckoutFails, Leave, UserState, CreatorAlone, CleanHands, PoolIds
<1>3. CASE CheckoutRefused(u)
  BY <1>0, <1>3
     DEF TypeOK, CheckoutRefused, Leave, UserState, CreatorAlone, CleanHands, PoolIds
<1> QED
  BY <1>1, <1>2, <1>3

(* The steps inside the with block, short of putting the connection back,  *)
(* touch no pool.                                                          *)
LEMMA PoolsInside ==
  ASSUME PInv, NEW u \in Users,
         \/ ApplyTimeouts(u) \/ SetAutocommit(u) \/ Statement(u)
         \/ BodyRaises(u) \/ BodyEnds(u) \/ CleanUp(u) \/ CleanUpFails(u)
  PROVE  /\ OneOpenPool' /\ NothingLeaks' /\ WithinBudget' /\ IdleIsFresh'
         /\ PoolIds' = PoolIds
<1>1. pools' = pools /\ registry' = registry /\ pool' = pool
  BY DEF ApplyTimeouts, SetAutocommit, Statement, BodyRaises, BodyEnds, CleanUp,
         CleanUpFails, UserStep
<1>2. \E from, to \in Holding : pc[u] = from /\ pc' = [pc EXCEPT ![u] = to]
  BY DEF ApplyTimeouts, SetAutocommit, Statement, BodyRaises, BodyEnds, CleanUp,
         CleanUpFails, Goto, Holding
<1>3. \A v \in Users : pc'[v] \in Holding <=> pc[v] \in Holding
  BY <1>2 DEF PInv, TypeOK
<1> QED
  BY <1>1, <1>3, PoolsKept DEF PoolIds

(* A connection that CleanUp has cleaned up is as the pool expects it.     *)
LEMMA CleanedIsDefault ==
  ASSUME NEW u \in Users, conn[u] \in Connections,
         u \notin Background => Default(conn[u])
  PROVE  Default(Cleaned(u))
BY DEF Cleaned, Default, Connections

(* Steps inside the with block keep what is known of the users.            *)
LEMMA UsersInside ==
  ASSUME PInv, NEW u \in Users,
         \/ ApplyTimeouts(u) \/ SetAutocommit(u) \/ Statement(u)
         \/ BodyRaises(u) \/ BodyEnds(u) \/ CleanUp(u) \/ CleanUpFails(u)
  PROVE  UserState' /\ CreatorAlone' /\ CleanHands'
<1>0. TypeOK /\ UserState /\ CreatorAlone /\ CleanHands
  BY DEF PInv
<1>1. /\ pool' = pool /\ registry' = registry /\ mutex' = mutex /\ PoolIds' = PoolIds
  BY PoolsInside
     DEF ApplyTimeouts, SetAutocommit, Statement, BodyRaises, BodyEnds, CleanUp,
         CleanUpFails, UserStep
<1>2. /\ pc[u] \in Holding /\ pc'[u] \in Holding /\ pc'[u] # "applying"
      /\ \A v \in Users : v # u => pc'[v] = pc[v]
  BY <1>0
     DEF TypeOK, ApplyTimeouts, SetAutocommit, Statement, BodyRaises, BodyEnds,
         CleanUp, CleanUpFails, Goto, Holding
<1>3. CreatorAlone'
  BY <1>0, <1>1, <1>2 DEF CreatorAlone, Holding
<1>4. \A v \in Users : v # u => conn'[v] = conn[v] /\ discard'[v] = discard[v]
  BY <1>0
     DEF TypeOK, ApplyTimeouts, SetAutocommit, Statement, BodyRaises, BodyEnds,
         CleanUp, CleanUpFails, UserStep
<1>5. conn[u] \in Connections /\ (u \notin Background => Default(conn[u]))
  BY <1>0, <1>2 DEF UserState, CleanHands
<1>6. /\ conn'[u] \in Connections
      /\ u \notin Background => Default(conn'[u])
      /\ pc'[u] = "putting" /\ ~discard'[u] => Default(conn'[u])
  <2>1. CASE ApplyTimeouts(u)
    <3>1. conn'[u] = [conn[u] EXCEPT !.timeouts = "background"]
          /\ pc[u] = "applying" /\ pc'[u] = "using"
      BY <1>0, <2>1 DEF ApplyTimeouts, Goto, TypeOK
    <3>2. [conn[u] EXCEPT !.timeouts = "background"] \in Connections
      BY <1>5 DEF Connections
    <3>3. u \in Background
      BY <1>0, <3>1 DEF CleanHands
    <3> QED
      BY <3>1, <3>2, <3>3
  <2>2. CASE SetAutocommit(u)
    <3>1. conn'[u] = [conn[u] EXCEPT !.autocommit = TRUE]
          /\ pc'[u] = "using" /\ u \in Background
      BY <1>0, <2>2 DEF SetAutocommit, Goto, TypeOK
    <3>2. [conn[u] EXCEPT !.autocommit = TRUE] \in Connections
      BY <1>5 DEF Connections
    <3> QED
      BY <3>1, <3>2
  <2>3. CASE Statement(u)
    <3> DEFINE tx == IF conn[u].autocommit THEN "none" ELSE "open"
    <3>1. conn'[u] = [conn[u] EXCEPT !.tx = tx] /\ pc'[u] = "using"
      BY <1>0, <2>3 DEF Statement, Goto, TypeOK
    <3>2. [conn[u] EXCEPT !.tx = tx] \in Connections
          /\ (Default(conn[u]) => Default([conn[u] EXCEPT !.tx = tx]))
      BY <1>5 DEF Connections, Default
    <3> QED
      BY <1>5, <3>1, <3>2
  <2>4. CASE BodyRaises(u)
    BY <1>0, <1>5, <2>4 DEF BodyRaises, TypeOK
  <2>5. CASE BodyEnds(u)
    <3>1. conn' = conn /\ pc'[u] = "cleaning"
      BY <1>0, <2>5 DEF BodyEnds, Goto, TypeOK
    <3> QED
      BY <1>5, <3>1
  <2>6. CASE CleanUp(u)
    <3>1. conn'[u] = Cleaned(u)
      BY <1>0, <2>6 DEF CleanUp, TypeOK
    <3>2. Cleaned(u) \in Connections
      BY <1>5 DEF Cleaned, Connections
    <3> QED
      BY <1>5, <3>1, <3>2, CleanedIsDefault
  <2>7. CASE CleanUpFails(u)
    BY <1>0, <1>5, <2>7 DEF CleanUpFails, TypeOK
  <2> QED
    BY <2>1, <2>2, <2>3, <2>4, <2>5, <2>6, <2>7
<1>7. UserState'
  BY <1>0, <1>1, <1>2, <1>4, <1>6 DEF UserState
<1>8. CleanHands'
  BY <1>0, <1>2, <1>4, <1>6 DEF CleanHands
<1> QED
  BY <1>3, <1>7, <1>8

(* A user who puts a connection back is no longer a holder of its pool.    *)
LEMMA LeavesHolders ==
  ASSUME PInv, NEW u \in Users, NEW i \in PoolIds, pool[u] = i,
         pc[u] \in Holding, NEW how, Leave(u, how)
  PROVE  /\ u \in Holders(i)
         /\ Holders(i)' = Holders(i) \ {u}
         /\ \A k \in PoolIds : k # i => Holders(k)' = Holders(k)
<1>1. pc'[u] = "idle" /\ \A v \in Users : v # u => pc'[v] = pc[v] /\ pool'[v] = pool[v]
  BY DEF PInv, TypeOK, Leave
<1>2. u \in Holders(i)
  BY DEF Holders
<1>3. Holders(i)' = Holders(i) \ {u}
  BY <1>1 DEF Holders, Holding
<1>4. ASSUME NEW k \in PoolIds, k # i
      PROVE  Holders(k)' = Holders(k)
  <2>1. \A v \in Users : (pool'[v] = k /\ pc'[v] \in Holding)
                           <=> (pool[v] = k /\ pc[v] \in Holding)
    BY <1>1, <1>4 DEF Holding
  <2> QED
    BY <2>1 DEF Holders
<1> QED
  BY <1>2, <1>3, <1>4

(* Putting a connection back keeps what is known of the pools.             *)
LEMMA PoolsPut ==
  ASSUME PInv, NEW u \in Users, NEW close \in BOOLEAN, NEW how,
         pc[u] \in Holding, PutConn(u, close, how), ~close => Default(conn[u])
  PROVE  /\ OneOpenPool' /\ NothingLeaks' /\ WithinBudget' /\ IdleIsFresh'
         /\ UserState' /\ CreatorAlone' /\ CleanHands'
<1>0. TypeOK /\ UserState /\ CreatorAlone /\ CleanHands
  BY DEF PInv
<1>1. PICK i \in PoolIds : pool[u] = i
  BY <1>0 DEF UserState
<1>2. PICK answered : Leave(u, answered)
  BY DEF PutConn
<1>3. PutsBack(u, close)
  BY ConnectionReturned
<1>4. /\ u \in Holders(i)
      /\ Holders(i)' = Holders(i) \ {u}
      /\ \A k \in PoolIds : k # i => Holders(k)' = Holders(k)
  BY <1>1, <1>2, LeavesHolders
<1>5. OnlyPool(i) /\ registry' = registry /\ mutex' = mutex
  BY <1>1, <1>3 DEF PutsBack, PutConn
<1> DEFINE c == [conn[u] EXCEPT !.tx = "none"]
           idle == pools[i].idle
<1>6. IsOpen(i) => /\ pools[i].used = Holders(i)
                   /\ pools'[i].used = Holders(i)'
                   /\ Holders(i) \in SUBSET Users
  BY <1>1, <1>3, <1>4 DEF PInv, NothingLeaks, PutsBack, Holders
<1>7. idle \in Seq(Connections) /\ c \in Connections
  <2>1. pools[i] \in Pools /\ conn[u] \in Connections
    BY <1>0 DEF TypeOK, PoolIds, UserState
  <2> QED
    BY <2>1 DEF Pools, Connections
<1>8. ~close => c = Fresh
  <2>1. conn[u] \in Connections
    BY <1>0 DEF UserState
  <2>2. c = [timeouts |-> conn[u].timeouts, tx |-> "none",
             autocommit |-> conn[u].autocommit]
    BY <2>1 DEF Connections
  <2> HIDE DEF c
  <2> QED
    BY <2>2 DEF Default, Fresh
<1>9. \/ pools'[i].idle = idle
      \/ ~close /\ IsOpen(i) /\ pools'[i].idle = Append(idle, c)
  BY <1>1, <1>3 DEF PutsBack
<1> HIDE DEF c, idle
<1>10. \A n \in 1..Len(pools'[i].idle) : pools'[i].idle[n] = Fresh
  <2>1. \A n \in 1..Len(idle) : idle[n] = Fresh
    BY DEF PInv, IdleIsFresh, idle
  <2> QED
    BY <1>7, <1>8, <1>9, <2>1, AppendProperties
<1>11. IsOpen(i) => OpenConnections(i)' <= MaxConn
  <2> SUFFICES ASSUME IsOpen(i) PROVE OpenConnections(i)' <= MaxConn
    OBVIOUS
  <2>1. Len(idle) + Cardinality(Holders(i)) <= MaxConn
    BY <1>6 DEF PInv, WithinBudget, OpenConnections, idle
  <2>2. /\ Cardinality(Holders(i)) \in Nat
        /\ Cardinality(Holders(i) \ {u}) = Cardinality(Holders(i)) - 1
    BY <1>4, <1>6, UsersCount
  <2>3. Len(idle) \in Nat /\ (Len(pools'[i].idle) = Len(idle) \/ Len(pools'[i].idle) = Len(idle) + 1)
    BY <1>7, <1>9, AppendProperties, LenProperties
  <2>4. OpenConnections(i)' = Len(pools'[i].idle) + Cardinality(Holders(i) \ {u})
    BY <1>4, <1>5, <1>6, StillOneOpen DEF OpenConnections
  <2> QED
    BY <2>1, <2>2, <2>3, <2>4, ConnAssumption
<1>12. OneOpenPool' /\ NothingLeaks' /\ WithinBudget' /\ IdleIsFresh'
  BY <1>4, <1>5, <1>6, <1>10, <1>11, OtherPools
<1>13. UserState' /\ CreatorAlone' /\ CleanHands'
  BY <1>0, <1>2, <1>5
     DEF TypeOK, Leave, UserState, CreatorAlone, CleanHands, OnlyPool, Holding
<1> QED
  BY <1>12, <1>13

(* Every step keeps the invariant.                                         *)
LEMMA PoolStep == PInv /\ [Next]_vars => PInv'
<1> SUFFICES ASSUME PInv, [Next]_vars PROVE PInv'
  OBVIOUS
<1>1. CASE UNCHANGED vars
  <2>1. TypeOK' /\ UserState' /\ CreatorAlone' /\ CleanHands'
    BY <1>1 DEF PInv, vars, TypeOK, PoolIds, UserState, CreatorAlone, CleanHands
  <2>2. OneOpenPool' /\ NothingLeaks' /\ WithinBudget' /\ IdleIsFresh'
    BY <1>1, PoolsKept DEF vars
  <2> QED
    BY <2>1, <2>2 DEF PInv
<1>2. ASSUME NEW u \in Users, 
             \/ Edit \/ Deactivate(u) \/ ClosePools(u) \/ Load(u) \/ FindPool(u)
             \/ ReplacePools(u) \/ CreatePool(u) \/ CreateFails(u)
      PROVE  PInv'
  BY <1>2, TypeTable, UsersTable, PoolsTable DEF PInv
<1>3. ASSUME NEW u \in Users,
             \/ CheckoutIdle(u) \/ CheckoutNew(u) \/ CheckoutFails(u) \/ CheckoutRefused(u)
      PROVE  PInv'
  BY <1>3, TypeCheckout, UsersCheckout, PoolsCheckout DEF PInv
<1>4. ASSUME NEW u \in Users,
             \/ ApplyTimeouts(u) \/ SetAutocommit(u) \/ Statement(u)
             \/ BodyRaises(u) \/ BodyEnds(u) \/ CleanUp(u) \/ CleanUpFails(u)
      PROVE  PInv'
  BY <1>4, TypeUse, UsersInside, PoolsInside DEF PInv
<1>5. ASSUME NEW u \in Users, ApplyFails(u)
      PROVE  PInv'
  <2>1. pc[u] \in Holding /\ PutConn(u, TRUE, "error")
    BY <1>5 DEF ApplyFails, Holding
  <2> QED
    BY <1>5, <2>1, TypeUse, PoolsPut DEF PInv
<1>6. ASSUME NEW u \in Users, Put(u)
      PROVE  PInv'
  <2>1. pc[u] \in Holding /\ discard[u] \in BOOLEAN /\ (~discard[u] => Default(conn[u]))
    BY <1>6 DEF PInv, TypeOK, CleanHands, Put, Holding
  <2>2. PutConn(u, discard[u], answer[u])
    BY <1>6 DEF Put
  <2> QED
    BY <1>6, <2>1, <2>2, TypeUse, PoolsPut DEF PInv
<1>7. CASE Edit
  <2>1. CASE Users = {}
    <3>1. TypeOK' /\ UserState' /\ CreatorAlone' /\ CleanHands'
      BY <1>7, <2>1, ConnAssumption
         DEF PInv, Edit, rowVars, userVars, TypeOK, PoolIds, Versions, UserState,
             CreatorAlone, CleanHands
    <3>2. OneOpenPool' /\ NothingLeaks' /\ WithinBudget' /\ IdleIsFresh'
      BY <1>7, PoolsKept DEF Edit, userVars
    <3> QED
      BY <3>1, <3>2 DEF PInv
  <2>2. CASE Users # {}
    BY <1>2, <1>7, <2>2
  <2> QED
    BY <2>1, <2>2
<1> QED
  BY <1>1, <1>2, <1>3, <1>4, <1>5, <1>6, <1>7 DEF Next, Step

(* The inductive invariant of the pool.                                    *)
THEOREM PoolInvariance == Spec => []PInv
<1> QED
  BY PoolInit, PoolStep, PTL DEF Spec

(* The variables have their types, and a pool never keeps more than        *)
(* MinConn idle connections.                                               *)
THEOREM PoolTypeCorrect == Spec => []TypeOK
<1>1. PInv => TypeOK
  BY DEF PInv
<1> QED
  BY <1>1, PoolInvariance, PTL

(* A process keeps at most one pool of a saved connection open, and no     *)
(* open pool is out of the table's reach.                                  *)
THEOREM SinglePool == Spec => []OneOpenPool
<1>1. PInv => OneOpenPool
  BY DEF PInv
<1> QED
  BY <1>1, PoolInvariance, PTL

(* An open pool counts exactly the users inside the with block.            *)
THEOREM NoLeak == Spec => []NothingLeaks
<1>1. PInv => NothingLeaks
  BY DEF PInv
<1> QED
  BY <1>1, PoolInvariance, PTL

(* No pool has more than MaxConn connections open.                         *)
THEOREM Budget == Spec => []WithinBudget
<1>1. PInv => WithinBudget
  BY DEF PInv
<1> QED
  BY <1>1, PoolInvariance, PTL

(* An idle connection carries nothing over from its former users.          *)
THEOREM NothingCarriedOver == Spec => []IdleIsFresh
<1>1. PInv => IdleIsFresh
  BY DEF PInv
<1> QED
  BY <1>1, PoolInvariance, PTL

-----------------------------------------------------------------------------
(* The lock of the table is held while a pool connects and at no other     *)
(* time (with _connection_pools_lock in _get_connection_pool): whoever     *)
(* waits for it waits for a thread that does not, whatever fails.          *)
LockIsCreators == \A u \in Users : mutex = u <=> pc[u] = "creating"

(* Only two steps leave "creating", and both release the lock; only one    *)
(* takes it.                                                               *)
LEMMA LockStep == PInv /\ LockIsCreators /\ [Next]_vars => LockIsCreators'
<1> SUFFICES ASSUME PInv, LockIsCreators, [Next]_vars PROVE LockIsCreators'
  OBVIOUS
<1>0. TypeOK
  BY DEF PInv
<1>1. CASE UNCHANGED vars
  BY <1>1 DEF vars, userVars, LockIsCreators
<1>2. CASE Edit
  BY <1>2 DEF Edit, userVars, LockIsCreators
<1>3. ASSUME NEW u \in Users, ReplacePools(u)
      PROVE  LockIsCreators'
  <2>1. \A v \in Users : pc[v] # "creating"
    BY <1>3, UsersAssumption DEF LockIsCreators, ReplacePools
  <2> QED
    BY <1>0, <1>3, <2>1 DEF TypeOK, ReplacePools, Goto, LockIsCreators
<1>4. ASSUME NEW u \in Users, CreatePool(u) \/ CreateFails(u)
      PROVE  LockIsCreators'
  <2>1. \A v \in Users : v # u => pc[v] # "creating"
    BY <1>4 DEF LockIsCreators, CreatePool, CreateFails, Goto
  <2>2. mutex' = None /\ pc'[u] # "creating" /\ \A v \in Users : v # u => pc'[v] = pc[v]
    BY <1>0, <1>4 DEF TypeOK, CreatePool, CreateFails, Goto, Leave
  <2> QED
    BY <2>1, <2>2, UsersAssumption DEF LockIsCreators
<1>5. ASSUME NEW u \in Users,
             \/ Deactivate(u) \/ ClosePools(u) \/ Load(u) \/ FindPool(u)
             \/ CheckoutIdle(u) \/ CheckoutNew(u) \/ CheckoutFails(u) \/ CheckoutRefused(u)
             \/ ApplyTimeouts(u) \/ ApplyFails(u) \/ BodyRaises(u) \/ BodyEnds(u)
             \/ CleanUp(u) \/ CleanUpFails(u) \/ Put(u)
             \/ SetAutocommit(u) \/ Statement(u)
      PROVE  LockIsCreators'
  <2>1. mutex' = mutex
    BY <1>5 DEF Deactivate, ClosePools, Load, FindPool, CheckoutIdle, CheckoutNew,
                CheckoutFails, CheckoutRefused, ApplyTimeouts, ApplyFails, BodyRaises,
                BodyEnds, CleanUp, CleanUpFails, Put, PutConn, SetAutocommit, Statement,
                UserStep
  <2>2. /\ pc[u] # "creating" /\ pc'[u] # "creating"
        /\ \A v \in Users : v # u => pc'[v] = pc[v]
    BY <1>0, <1>5
       DEF TypeOK, Deactivate, ClosePools, Load, FindPool, CheckoutIdle, CheckoutNew,
           CheckoutFails, CheckoutRefused, ApplyTimeouts, ApplyFails, BodyRaises,
           BodyEnds, CleanUp, CleanUpFails, Put, PutConn, SetAutocommit, Statement,
           UserStep, Goto, Leave, AfterCheckout
  <2> QED
    BY <2>1, <2>2 DEF LockIsCreators
<1> QED
  BY <1>1, <1>2, <1>3, <1>4, <1>5 DEF Next, Step

(* A thread that cannot connect never leaves the lock behind, and no other *)
(* step is taken under it: the table is free again when the one connection *)
(* is open or refused.                                                     *)
THEOREM LockIsReleased == Spec => []LockIsCreators
<1>1. Init => LockIsCreators
  BY UsersAssumption DEF Init, LockIsCreators
<1> QED
  BY <1>1, LockStep, PoolInvariance, PTL DEF Spec
=============================================================================
