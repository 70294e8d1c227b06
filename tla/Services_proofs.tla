---------------------------- MODULE Services_proofs ----------------------------
(***************************************************************************)
(* What TLAPS proves about Logins, RateLimit, PaginationSizes and          *)
(* SidebarSettings: for any requests and calls at once and any limits, for *)
(* any pages, new pages, sections and saves.                               *)
(***************************************************************************)
EXTENDS
  Logins, RateLimit, PaginationSizes, SidebarSettings, FiniteSetTheorems, TLAPS

(* Logins.                                                                 *)

(* As long as no requests have overlapped, one request at most is at work, *)
(* its copy is the row, and the row is right.                              *)
OneAtWork == ~overlap => \A r, s \in AtWork : r = s

CopyIsRow == ~overlap => \A r \in AtWork : copy[r] = user

LoginsInv == LoginsTypeOK /\ OneAtWork /\ CopyIsRow /\ LockoutIsKept

-----------------------------------------------------------------------------
LEMMA UserRecords ==
  /\ Cleared \in User
  /\ Cleared.attempts = 0 /\ Cleared.lockout = "none"
  /\ \A seen \in User : FailedLogin(seen) \in User
  /\ 0 \in 0..(MaxFailed - 1)
<1>1. 0 \in 0..(MaxFailed - 1) /\ MaxFailed \in Nat
  BY LoginsAssumption
<1>2. ASSUME NEW seen \in User
      PROVE  FailedLogin(seen) \in User
  <2>1. seen.attempts \in 0..(MaxFailed - 1) /\ seen.lockout \in {"none", "future", "past"}
    BY DEF User
  <2>2. CASE seen.attempts + 1 >= MaxFailed
    BY <1>1, <2>2 DEF FailedLogin, User
  <2>3. CASE ~(seen.attempts + 1 >= MaxFailed)
    <3>1. seen.attempts + 1 \in 0..(MaxFailed - 1)
      BY <1>1, <2>1, <2>3
    <3> QED
      BY <2>1, <2>3, <3>1 DEF FailedLogin, User
  <2> QED
    BY <2>2, <2>3
<1> QED
  BY <1>1, <1>2 DEF Cleared, User

LEMMA ReadInv ==
  ASSUME LoginsInv, NEW r \in Requesters, Read(r)
  PROVE  LoginsInv'
<1>1. /\ copy \in [Requesters -> User \union {Nobody}] /\ user \in User
      /\ copy' = [copy EXCEPT ![r] = user]
      /\ overlap' = (overlap \/ AtWork # {})
      /\ UNCHANGED <<user, failures, due>>
  BY DEF Read, LoginsInv, LoginsTypeOK
<1>2. overlap' \in BOOLEAN
  BY <1>1 DEF LoginsInv, LoginsTypeOK
<1>3. LoginsTypeOK'
  BY <1>1, <1>2 DEF LoginsInv, LoginsTypeOK
<1>4. ~overlap' => ~overlap /\ AtWork = {}
  BY <1>1
<1>5. ~overlap' => AtWork' \subseteq {r}
  BY <1>1, <1>4 DEF AtWork
<1>6. OneAtWork'
  BY <1>5 DEF OneAtWork
<1>7. CopyIsRow'
  BY <1>1, <1>5 DEF CopyIsRow
<1>8. LockoutIsKept'
  BY <1>1, <1>4 DEF LoginsInv, LockoutIsKept
<1> QED
  BY <1>3, <1>6, <1>7, <1>8 DEF LoginsInv

(* A request that writes leaves nobody at work, unless requests overlap.   *)
LEMMA WriteInv ==
  ASSUME LoginsInv, NEW r \in Requesters, Write(r),
         user' \in User, failures' \in 0..(MaxFailed - 1), due' \in BOOLEAN,
         ~overlap => user'.attempts = failures' /\ (due' => user'.lockout = "future")
  PROVE  LoginsInv'
<1>1. /\ copy \in [Requesters -> User \union {Nobody}]
      /\ copy[r] # Nobody /\ copy' = [copy EXCEPT ![r] = Nobody]
      /\ overlap' = (overlap /\ ~(AtWork = {r} /\ user' = Cleared /\ failures' = 0 /\ ~due'))
  BY DEF Write, LoginsInv, LoginsTypeOK
<1>2. overlap' \in BOOLEAN
  BY <1>1 DEF LoginsInv, LoginsTypeOK
<1>3. LoginsTypeOK'
  BY <1>1, <1>2 DEF LoginsInv, LoginsTypeOK
<1>4. ~overlap' => \/ ~overlap
                   \/ AtWork = {r} /\ user' = Cleared /\ failures' = 0 /\ ~due'
  BY <1>1
<1>5. r \in AtWork /\ AtWork' = AtWork \ {r}
  BY <1>1 DEF AtWork
<1>6. ~overlap' => AtWork' = {}
  BY <1>4, <1>5 DEF LoginsInv, OneAtWork
<1>7. OneAtWork' /\ CopyIsRow'
  BY <1>6 DEF OneAtWork, CopyIsRow
<1>8. LockoutIsKept'
  BY <1>4, UserRecords DEF LockoutIsKept
<1> QED
  BY <1>3, <1>7, <1>8 DEF LoginsInv

LEMMA LoginSucceedsInv ==
  ASSUME LoginsInv, NEW l \in Logins, LoginSucceeds(l)
  PROVE  LoginsInv'
<1>1. l \in Requesters /\ Write(l) /\ failures' = 0 /\ due' = FALSE
  BY DEF Requesters, LoginSucceeds
<1>2. copy[l] # Nobody
  BY <1>1 DEF Write
<1>3. user \in User /\ user' \in {user, Cleared}
  BY DEF LoginSucceeds, LoginsInv, LoginsTypeOK
<1>4. ~overlap => user' = Cleared
  <2>1. ~overlap => copy[l] = user
    BY <1>1, <1>2 DEF AtWork, LoginsInv, CopyIsRow
  <2> QED
    BY <2>1 DEF LoginSucceeds
<1>5. user' \in User /\ failures' \in 0..(MaxFailed - 1) /\ due' \in BOOLEAN
  BY <1>1, <1>3, UserRecords
<1>6. ~overlap => user'.attempts = failures' /\ (due' => user'.lockout = "future")
  BY <1>1, <1>4, UserRecords
<1> QED
  BY <1>1, <1>5, <1>6, WriteInv

LEMMA LoginFailsInv ==
  ASSUME LoginsInv, NEW l \in Logins, LoginFails(l)
  PROVE  LoginsInv'
<1>1. /\ l \in Requesters /\ Write(l) /\ copy[l] # Nobody
      /\ user' = FailedLogin(copy[l])
      /\ failures' = (failures + 1) % MaxFailed
      /\ due' = (due \/ failures + 1 = MaxFailed)
  BY DEF Requesters, LoginFails
<1>2. /\ copy[l] \in User /\ user \in User
      /\ failures \in 0..(MaxFailed - 1) /\ due \in BOOLEAN
  BY <1>1 DEF LoginsInv, LoginsTypeOK
<1>3. user' \in User
  BY <1>1, <1>2, UserRecords
<1>4. MaxFailed \in Nat \ {0}
  BY LoginsAssumption
<1>5. /\ failures + 1 = MaxFailed => failures' = 0
      /\ failures + 1 # MaxFailed => failures' = failures + 1
  BY <1>1, <1>2, <1>4
<1>6. failures' \in 0..(MaxFailed - 1)
  BY <1>2, <1>4, <1>5
<1>7. due' \in BOOLEAN
  BY <1>1, <1>2
<1>8. ~overlap => user'.attempts = failures' /\ (due' => user'.lockout = "future")
  <2> SUFFICES ASSUME ~overlap
               PROVE  user'.attempts = failures' /\ (due' => user'.lockout = "future")
    OBVIOUS
  <2>1. /\ copy[l] = user
        /\ user.attempts = failures
        /\ due => user.lockout = "future"
    BY <1>1 DEF AtWork, LoginsInv, CopyIsRow, LockoutIsKept
  <2>2. CASE failures + 1 = MaxFailed
    <3>1. user' = [attempts |-> 0, lockout |-> "future"]
      BY <1>1, <1>2, <1>4, <2>1, <2>2 DEF FailedLogin
    <3> QED
      BY <1>5, <2>2, <3>1
  <2>3. CASE failures + 1 # MaxFailed
    <3>1. user' = [attempts |-> failures + 1, lockout |-> user.lockout]
      BY <1>1, <1>2, <1>4, <2>1, <2>3 DEF FailedLogin
    <3>2. due' => due
      BY <1>1, <2>3
    <3> QED
      BY <1>5, <2>1, <2>3, <3>1, <3>2
  <2> QED
    BY <2>2, <2>3
<1> QED
  BY <1>1, <1>3, <1>6, <1>7, <1>8, WriteInv

LEMMA SaveUserInv ==
  ASSUME LoginsInv, NEW e \in Edits, SaveUser(e)
  PROVE  LoginsInv'
<1>1. /\ e \in Requesters /\ Write(e) /\ copy[e] # Nobody
      /\ \/ user' = Cleared /\ failures' = 0 /\ due' = FALSE
         \/ user' = copy[e] /\ UNCHANGED <<failures, due>>
  BY DEF Requesters, SaveUser
<1>2. /\ copy[e] \in User /\ failures \in 0..(MaxFailed - 1) /\ due \in BOOLEAN
  BY <1>1 DEF LoginsInv, LoginsTypeOK
<1>3. user' \in User /\ failures' \in 0..(MaxFailed - 1) /\ due' \in BOOLEAN
  BY <1>1, <1>2, UserRecords
<1>4. ~overlap => user'.attempts = failures' /\ (due' => user'.lockout = "future")
  <2>1. CASE user' = Cleared /\ failures' = 0 /\ due' = FALSE
    BY <2>1, UserRecords
  <2>2. CASE user' = copy[e] /\ UNCHANGED <<failures, due>>
    <3>1. ~overlap => copy[e] = user
      BY <1>1 DEF AtWork, LoginsInv, CopyIsRow
    <3> QED
      BY <2>2, <3>1 DEF LoginsInv, LockoutIsKept
  <2> QED
    BY <1>1, <2>1, <2>2
<1> QED
  BY <1>1, <1>3, <1>4, WriteInv

LEMMA LockoutEndsInv ==
  ASSUME LoginsInv, LockoutEnds
  PROVE  LoginsInv'
<1> DEFINE later(seen) == IF seen # Nobody /\ seen.lockout = "future"
                            THEN [seen EXCEPT !.lockout = "past"] ELSE seen
<1>1. /\ user' = later(user)
      /\ copy' = [r \in Requesters |-> later(copy[r])]
      /\ due' = FALSE
      /\ UNCHANGED <<failures, overlap>>
  BY DEF LockoutEnds
<1>2. /\ user \in User
      /\ copy \in [Requesters -> User \union {Nobody}]
      /\ failures \in 0..(MaxFailed - 1) /\ overlap \in BOOLEAN
  BY DEF LoginsInv, LoginsTypeOK
<1>3. ASSUME NEW seen \in User \union {Nobody}
      PROVE  /\ later(seen) \in User \union {Nobody}
             /\ later(seen) = Nobody <=> seen = Nobody
             /\ seen \in User => later(seen) \in User /\ later(seen).attempts = seen.attempts
  <2>1. CASE seen = Nobody
    BY <2>1, LoginsAssumption
  <2>2. CASE seen \in User
    <3>1. /\ [seen EXCEPT !.lockout = "past"] \in User
          /\ [seen EXCEPT !.lockout = "past"].attempts = seen.attempts
      BY <2>2 DEF User
    <3>2. later(seen) \in {seen, [seen EXCEPT !.lockout = "past"]}
      OBVIOUS
    <3>3. Nobody \notin User
      BY LoginsAssumption
    <3> HIDE DEF later
    <3> QED
      BY <2>2, <3>1, <3>2, <3>3
  <2> QED
    BY <2>1, <2>2
<1> HIDE DEF later
<1>4. user' \in User /\ user'.attempts = user.attempts
  BY <1>1, <1>2, <1>3
<1>5. copy' \in [Requesters -> User \union {Nobody}]
  BY <1>1, <1>2, <1>3
<1>6. LoginsTypeOK'
  BY <1>1, <1>2, <1>4, <1>5 DEF LoginsTypeOK
<1>7. AtWork' = AtWork
  BY <1>1, <1>2, <1>3 DEF AtWork
<1>8. OneAtWork' /\ CopyIsRow'
  BY <1>1, <1>7 DEF LoginsInv, OneAtWork, CopyIsRow, AtWork
<1>9. LockoutIsKept'
  BY <1>1, <1>4 DEF LoginsInv, LockoutIsKept
<1> QED
  BY <1>6, <1>8, <1>9 DEF LoginsInv

LEMMA LoginsInductive ==
  ASSUME LoginsInv, [LoginsNext]_loginVars
  PROVE  LoginsInv'
<1>1. CASE LoginsNext
  <2>1. CASE LockoutEnds
    BY <2>1, LockoutEndsInv
  <2>2. CASE \E l \in Logins : ReadUser(l) \/ LoginSucceeds(l) \/ LoginFails(l)
    BY <2>2, ReadInv, LoginSucceedsInv, LoginFailsInv DEF ReadUser, Requesters
  <2>3. CASE \E e \in Edits : Read(e) \/ SaveUser(e)
    BY <2>3, ReadInv, SaveUserInv DEF Requesters
  <2> QED
    BY <1>1, <2>1, <2>2, <2>3 DEF LoginsNext
<1>2. CASE UNCHANGED loginVars
  BY <1>2 DEF loginVars, LoginsInv, LoginsTypeOK, OneAtWork, CopyIsRow, AtWork,
              LockoutIsKept
<1> QED
  BY <1>1, <1>2

LEMMA LoginsInitInv == LoginsInit => LoginsInv
<1> SUFFICES ASSUME LoginsInit PROVE LoginsInv
  OBVIOUS
<1>1. user = Cleared
  BY DEF LoginsInit, Cleared
<1>2. LoginsTypeOK
  BY <1>1, UserRecords DEF LoginsInit, LoginsTypeOK
<1>3. AtWork = {}
  BY DEF LoginsInit, AtWork
<1> QED
  BY <1>1, <1>2, <1>3, UserRecords
     DEF LoginsInit, LoginsInv, OneAtWork, CopyIsRow, LockoutIsKept

(* As long as requests for a user do not overlap, every failed login is    *)
(* counted and the lockout lasts until its time is over                    *)
(* (register_failed_login, clear_login_failures), for any limit.           *)
THEOREM LockoutsAreKept == LoginsSpec => []LockoutIsKept
<1>1. LoginsInv => LockoutIsKept
  BY DEF LoginsInv
<1> QED
  BY <1>1, LoginsInitInv, LoginsInductive, PTL DEF LoginsSpec

-----------------------------------------------------------------------------
(* RateLimit.                                                              *)

(* The calls that will set the key because they have seen it expire.       *)
Missing == {c \in Callers : point[c] = "missing"}

(* Since the key was last set, its value has counted the calls let through; *)
(* every earlier setting stands for at most Limit of them.                 *)
Let(count) == IF count <= Limit THEN count ELSE Limit

AllowedByValue == allowed <= Limit * resets + Let(counter)

NoKeyNoCount == ~present => counter = 0 /\ allowed = 0 /\ resets = 0

(* The call that has created the key is not one of those that missed it.   *)
MissingAreLeft == present => resets + Cardinality(Missing) < Cardinality(Callers)

RateInv == RateTypeOK /\ AllowedByValue /\ NoKeyNoCount /\ MissingAreLeft

-----------------------------------------------------------------------------
LEMMA MissingIsFinite ==
  /\ IsFiniteSet(Missing) /\ Cardinality(Missing) \in Nat
  /\ Cardinality(Callers) \in Nat /\ Cardinality(Callers) > 0
<1>1. IsFiniteSet(Callers) /\ Callers # {} /\ Missing \subseteq Callers
  BY RateAssumption DEF Missing
<1>2. IsFiniteSet(Missing)
  BY <1>1, FS_Subset
<1>3. Cardinality(Callers) \in Nat /\ Cardinality(Missing) \in Nat
  BY <1>1, <1>2, FS_CardinalityType
<1>4. Cardinality(Callers) # 0
  BY <1>1, FS_EmptySet
<1> QED
  BY <1>2, <1>3, <1>4

(* One that has not missed the key leaves room for the others.             *)
LEMMA OneIsLeft ==
  ASSUME NEW S \in SUBSET Callers, NEW c \in Callers, c \notin S
  PROVE  Cardinality(S) \in Nat /\ Cardinality(S) < Cardinality(Callers)
<1>1. IsFiniteSet(Callers)
  BY RateAssumption
<1>2. S \subseteq Callers \ {c}
  OBVIOUS
<1>3. IsFiniteSet(Callers \ {c}) /\ Cardinality(Callers \ {c}) = Cardinality(Callers) - 1
  BY <1>1, FS_RemoveElement
<1>4. IsFiniteSet(S) /\ Cardinality(S) <= Cardinality(Callers \ {c})
  BY <1>2, <1>3, FS_Subset
<1> QED
  BY <1>1, <1>3, <1>4, FS_CardinalityType

LEMMA Products ==
  ASSUME NEW n \in Nat
  PROVE  /\ Limit \in Nat /\ Limit >= 1
         /\ Limit * n \in Nat
         /\ Limit * (n + 1) = Limit * n + Limit
         /\ Limit * 0 = 0
BY RateAssumption

LEMMA Starts == FALSE \in BOOLEAN /\ 0 \in 0..MaxCalls /\ 0 \in Nat
BY RateAssumption

LEMMA LetBounds ==
  ASSUME NEW n \in Nat
  PROVE  Let(n) \in Nat /\ Let(n) <= Limit /\ Let(0) = 0 /\ Let(1) = 1
BY RateAssumption DEF Let

-----------------------------------------------------------------------------
LEMMA AddKeyInv ==
  ASSUME RateInv, NEW c \in Callers, AddKey(c)
  PROVE  RateInv'
<1>1. /\ point \in [Callers -> {"idle", "adding", "missing"}] /\ point[c] = "idle"
      /\ point' = [point EXCEPT ![c] = "adding"]
  BY DEF AddKey, RateInv, RateTypeOK
<1>2. Missing' = Missing /\ c \notin Missing'
  BY <1>1 DEF Missing
<1>3. point' \in [Callers -> {"idle", "adding", "missing"}] /\ present' = TRUE
  BY <1>1 DEF AddKey
<1>4. CASE present
  <2>1. UNCHANGED <<counter, allowed, resets, present>>
    BY <1>3, <1>4 DEF AddKey, RateInv, RateTypeOK
  <2> QED
    BY <1>2, <1>3, <1>4, <2>1
       DEF RateInv, RateTypeOK, AllowedByValue, Let, NoKeyNoCount, MissingAreLeft
<1>5. CASE ~present
  <2>1. counter' = 0 /\ allowed' = 0 /\ resets' = 0
    BY <1>5 DEF AddKey
  <2>2. RateTypeOK'
    BY <1>3, <2>1, RateAssumption DEF RateTypeOK
  <2>3. AllowedByValue'
    BY <2>1, Products, LetBounds DEF AllowedByValue, Let
  <2>4. MissingAreLeft'
    <3>1. Missing' \in SUBSET Callers
      BY DEF Missing
    <3>2. Cardinality(Missing') \in Nat /\ Cardinality(Missing') < Cardinality(Callers)
      BY <1>2, <3>1, OneIsLeft
    <3> QED
      BY <2>1, <3>2 DEF MissingAreLeft
  <2> QED
    BY <1>3, <2>2, <2>3, <2>4 DEF RateInv, NoKeyNoCount
<1> QED
  BY <1>4, <1>5

LEMMA IncrKeyInv ==
  ASSUME RateInv, NEW c \in Callers, IncrKey(c)
  PROVE  RateInv'
<1>1. /\ present /\ present' = present /\ resets' = resets
      /\ counter < MaxCalls /\ counter' = counter + 1
      /\ allowed' = IF counter + 1 > Limit THEN allowed ELSE allowed + 1
      /\ counter \in Nat /\ allowed \in Nat /\ resets \in Nat
      /\ MaxCalls \in Nat
  BY RateAssumption DEF IncrKey, Exceeded, RateInv, RateTypeOK
<1>2. /\ point' \in [Callers -> {"idle", "adding", "missing"}]
      /\ Missing' = Missing
  BY DEF IncrKey, Missing, RateInv, RateTypeOK
<1>3. RateTypeOK'
  BY <1>1, <1>2 DEF RateTypeOK, RateInv
<1>4. AllowedByValue'
  <2>1. allowed <= Limit * resets + Let(counter)
    BY DEF RateInv, AllowedByValue
  <2>2. Limit \in Nat /\ Limit * resets \in Nat
    BY <1>1, Products
  <2>3. allowed' <= Limit * resets + Let(counter + 1)
    BY <1>1, <2>1, <2>2 DEF Let
  <2> QED
    BY <1>1, <2>3 DEF AllowedByValue, Let
<1> QED
  BY <1>1, <1>2, <1>3, <1>4 DEF RateInv, NoKeyNoCount, MissingAreLeft

LEMMA IncrFailsInv ==
  ASSUME RateInv, NEW c \in Callers, IncrFails(c)
  PROVE  RateInv'
<1>1. /\ ~present /\ point' = [point EXCEPT ![c] = "missing"]
      /\ UNCHANGED <<present, counter, allowed, resets>>
  BY DEF IncrFails
<1> QED
  BY <1>1 DEF RateInv, RateTypeOK, AllowedByValue, Let, NoKeyNoCount, MissingAreLeft

LEMMA SetKeyInv ==
  ASSUME RateInv, NEW c \in Callers, SetKey(c)
  PROVE  RateInv'
<1>1. /\ counter \in Nat /\ allowed \in Nat /\ resets \in Nat
      /\ point \in [Callers -> {"idle", "adding", "missing"}] /\ point[c] = "missing"
      /\ point' = [point EXCEPT ![c] = "idle"]
  BY DEF SetKey, RateInv, RateTypeOK
<1>2. /\ Missing' = Missing \ {c} /\ c \in Missing
      /\ point' \in [Callers -> {"idle", "adding", "missing"}]
  BY <1>1 DEF Missing
<1>3. ~Exceeded(1)
  BY RateAssumption DEF Exceeded
<1>4. /\ present' = TRUE /\ counter' = 1
      /\ resets' = IF present THEN resets + 1 ELSE 0
      /\ allowed' = IF present THEN allowed + 1 ELSE 1
  BY <1>1, <1>3 DEF SetKey
<1>5. RateTypeOK'
  BY <1>1, <1>2, <1>4, RateAssumption DEF RateTypeOK
<1>6. AllowedByValue'
  <2>1. CASE present
    <3>1. allowed <= Limit * resets + Let(counter)
      BY DEF RateInv, AllowedByValue
    <3>2. /\ Limit \in Nat /\ Limit * resets \in Nat
          /\ Limit * (resets + 1) = Limit * resets + Limit
      BY <1>1, Products
    <3>3. Let(counter) \in Nat /\ Let(counter) <= Limit /\ Let(1) = 1
      BY <1>1, LetBounds
    <3>4. allowed + 1 <= Limit * (resets + 1) + 1
      BY <1>1, <3>1, <3>2, <3>3
    <3>5. allowed' = allowed + 1 /\ resets' = resets + 1
      BY <1>4, <2>1
    <3> QED
      BY <1>4, <3>3, <3>4, <3>5 DEF AllowedByValue, Let
  <2>2. CASE ~present
    <3>1. allowed' = 1 /\ resets' = 0
      BY <1>4, <2>2
    <3>2. Limit * 0 = 0 /\ Let(1) = 1
      BY Products, LetBounds
    <3> QED
      BY <1>4, <3>1, <3>2 DEF AllowedByValue, Let
  <2> QED
    BY <2>1, <2>2
<1>7. MissingAreLeft'
  <2>1. Cardinality(Missing \ {c}) = Cardinality(Missing) - 1
    BY <1>2, MissingIsFinite, FS_RemoveElement
  <2>2. Cardinality(Missing') = Cardinality(Missing) - 1
    BY <1>2, <2>1
  <2>3. CASE present
    BY <1>1, <1>4, <2>2, <2>3, MissingIsFinite DEF RateInv, MissingAreLeft
  <2>4. CASE ~present
    <3>1. Missing' \in SUBSET Callers /\ c \notin Missing'
      BY <1>2 DEF Missing
    <3>2. Cardinality(Missing') \in Nat /\ Cardinality(Missing') < Cardinality(Callers)
      BY <3>1, OneIsLeft
    <3> QED
      BY <1>4, <2>4, <3>2 DEF MissingAreLeft
  <2> QED
    BY <2>3, <2>4
<1> QED
  BY <1>4, <1>5, <1>6, <1>7 DEF RateInv, NoKeyNoCount

LEMMA KeyExpiresInv ==
  ASSUME RateInv, KeyExpires
  PROVE  RateInv'
<1>1. /\ present' = FALSE /\ counter' = 0 /\ allowed' = 0 /\ resets' = 0
      /\ point' = point
  BY DEF KeyExpires
<1>2. RateTypeOK'
  BY <1>1, Starts DEF RateInv, RateTypeOK
<1>3. AllowedByValue'
  BY <1>1, Products, LetBounds DEF AllowedByValue, Let
<1> QED
  BY <1>1, <1>2, <1>3 DEF RateInv, NoKeyNoCount, MissingAreLeft

LEMMA RateInductive ==
  ASSUME RateInv, [RateNext]_rateVars
  PROVE  RateInv'
<1>1. CASE RateNext
  BY <1>1, KeyExpiresInv, AddKeyInv, IncrKeyInv, IncrFailsInv, SetKeyInv DEF RateNext
<1>2. CASE UNCHANGED rateVars
  BY <1>2 DEF rateVars, RateInv, RateTypeOK, AllowedByValue, Let, NoKeyNoCount,
              MissingAreLeft, Missing
<1> QED
  BY <1>1, <1>2

LEMMA RateInitInv == RateInit => RateInv
<1> SUFFICES ASSUME RateInit PROVE RateInv
  OBVIOUS
<1>1. RateTypeOK
  BY Starts DEF RateInit, RateTypeOK
<1>2. AllowedByValue
  BY Products, LetBounds DEF RateInit, AllowedByValue, Let
<1> QED
  BY <1>1, <1>2 DEF RateInit, RateInv, NoKeyNoCount, MissingAreLeft

(* In a window no more calls are let through than Limit, and Limit again   *)
(* for every call that set the key anew; and fewer set it anew than are    *)
(* under way at once (_rate_limit_exceeded), for any limit.                *)
THEOREM LimitHolds == RateSpec => []WindowIsLimited
<1>1. RateInv => WindowIsLimited
  <2> SUFFICES ASSUME RateInv PROVE WindowIsLimited
    OBVIOUS
  <2>1. /\ counter \in Nat /\ allowed \in Nat /\ resets \in Nat
        /\ allowed <= Limit * resets + Let(counter)
    BY DEF RateInv, RateTypeOK, AllowedByValue
  <2>2. allowed <= Limit * (resets + 1)
    <3>1. /\ Limit \in Nat /\ Limit * resets \in Nat
          /\ Limit * (resets + 1) = Limit * resets + Limit
      BY <2>1, Products
    <3>2. Let(counter) \in Nat /\ Let(counter) <= Limit
      BY <2>1, LetBounds
    <3> QED
      BY <2>1, <3>1, <3>2
  <2>3. resets < Cardinality(Callers)
    BY <2>1, MissingIsFinite DEF RateInv, NoKeyNoCount, MissingAreLeft
  <2> QED
    BY <2>2, <2>3 DEF WindowIsLimited
<1> QED
  BY <1>1, RateInitInv, RateInductive, PTL DEF RateSpec

-----------------------------------------------------------------------------
(* PaginationSizes.                                                        *)

(* Rows that are gone and will be inserted again by a request that found   *)
(* them, and requests that have made sure there is room for one more.      *)
Editing == {"editing", "checked"}

Holders(now, ids) ==
  {e \in Editors : now[e].at \in Editing /\ now[e].id \notin ids \union {New}}

GoneIds(now, ids) == {now[e].id : e \in Holders(now, ids)}

Adders(now) == {e \in Editors : now[e].at = "checked" /\ now[e].id = New}

SizesBounded ==
  Count + Cardinality(GoneIds(edit, DOMAIN stored)) + Cardinality(Adders(edit))
    <= MaxRecords + Cardinality(Editors) - 1

(* The table is right as long as requests do not overlap, and so is what   *)
(* the one request at work has seen.                                       *)
SizesAlone ==
  ~loose =>
    /\ Kept
    /\ \A e, f \in Editors : edit[e] # Idle /\ edit[f] # Idle => e = f
    /\ \A e \in Editors :
         /\ edit[e].at = "counted" => Count >= 2
         /\ edit[e].at \in Editing => edit[e].id \in DOMAIN stored \union {New}
         /\ edit[e].at = "checked" /\ edit[e].id = New => Count < MaxRecords

EditType ==
  [at : {"idle", "found", "counted", "editing", "checked"},
   id : Ids \union {New}, size : PageSizes \union {0}]

SizesTypes ==
  /\ DOMAIN stored \subseteq Ids /\ IsFiniteSet(DOMAIN stored)
  /\ edit \in [Editors -> EditType]
  /\ loose \in BOOLEAN

SizesInv == SizesTypes /\ SizesBounded /\ SizesAlone

(* Every row that is gone has a request of its own that holds it.          *)
LEMMA PendingRows ==
  ASSUME NEW now, NEW ids
  PROVE  /\ IsFiniteSet(GoneIds(now, ids)) /\ IsFiniteSet(Adders(now))
         /\ Cardinality(GoneIds(now, ids)) \in Nat /\ Cardinality(Adders(now)) \in Nat
         /\ Cardinality(Editors) \in Nat
         /\ Cardinality(GoneIds(now, ids)) + Cardinality(Adders(now))
              <= Cardinality(Editors)
<1> DEFINE H == Holders(now, ids)
           A == Adders(now)
           G == GoneIds(now, ids)
           f == [e \in H |-> now[e].id]
<1>1. H \subseteq Editors /\ A \subseteq Editors /\ H \intersect A = {}
  BY DEF Holders, Adders
<1>2. IsFiniteSet(Editors)
  BY SizesAssumption
<1>3. IsFiniteSet(H) /\ IsFiniteSet(A)
  BY <1>1, <1>2, FS_Subset
<1>4. f \in Surjection(H, G)
  BY DEF Surjection, GoneIds
<1>5. IsFiniteSet(G) /\ Cardinality(G) <= Cardinality(H)
  BY <1>3, <1>4, FS_Surjection
<1>6. Cardinality(H \union A) = Cardinality(H) + Cardinality(A)
  <2>1. Cardinality(H \union A)
          = Cardinality(H) + Cardinality(A) - Cardinality(H \intersect A)
    BY <1>3, FS_Union
  <2>2. Cardinality(H \intersect A) = 0
    BY <1>1, FS_EmptySet
  <2> QED
    BY <1>3, <2>1, <2>2, FS_CardinalityType
<1>7. Cardinality(H \union A) <= Cardinality(Editors)
  BY <1>1, <1>2, FS_Subset
<1>8. /\ Cardinality(G) \in Nat /\ Cardinality(H) \in Nat /\ Cardinality(A) \in Nat
      /\ Cardinality(Editors) \in Nat
  BY <1>2, <1>3, <1>5, FS_CardinalityType
<1> QED
  BY <1>3, <1>5, <1>6, <1>7, <1>8

LEMMA CountTypes ==
  ASSUME SizesTypes
  PROVE  Count \in Nat
BY FS_CardinalityType DEF SizesTypes, Count

(* A step with which no row is added, and no request that will add one.    *)
LEMMA NothingAdded ==
  ASSUME SizesInv, Count' = Count,
         GoneIds(edit, DOMAIN stored)' \subseteq GoneIds(edit, DOMAIN stored),
         Adders(edit)' \subseteq Adders(edit)
  PROVE  SizesBounded'
<1> DEFINE G == GoneIds(edit, DOMAIN stored)
           A == Adders(edit)
<1>1. IsFiniteSet(G) /\ IsFiniteSet(A)
  BY PendingRows
<1>2. Cardinality(G') <= Cardinality(G) /\ Cardinality(A') <= Cardinality(A)
  BY <1>1, FS_Subset
<1>3. /\ Cardinality(G) \in Nat /\ Cardinality(A) \in Nat
      /\ Cardinality(Editors) \in Nat
  BY PendingRows
<1>4. Cardinality(G') \in Nat /\ Cardinality(A') \in Nat
  BY PendingRows
<1>5. Count \in Nat /\ MaxRecords \in Nat
  BY CountTypes, SizesAssumption DEF SizesInv
<1>6. Count + Cardinality(G) + Cardinality(A) <= MaxRecords + Cardinality(Editors) - 1
  BY DEF SizesInv, SizesBounded
<1> HIDE DEF G, A
<1>7. Count' + Cardinality(G') + Cardinality(A') <= MaxRecords + Cardinality(Editors) - 1
  BY <1>2, <1>3, <1>4, <1>5, <1>6
<1> QED
  BY <1>7 DEF SizesBounded, G, A

(* Request e goes on as `now'; others keep what they hold.                 *)
LEMMA OneRequest ==
  ASSUME SizesTypes, NEW e \in Editors, NEW now \in EditType,
         edit' = [edit EXCEPT ![e] = now]
  PROVE  /\ edit' \in [Editors -> EditType]
         /\ edit'[e] = now
         /\ \A o \in Editors \ {e} : edit'[o] = edit[o]
BY DEF SizesTypes

(* Request e holds nothing that it did not hold.                           *)
LEMMA HoldsLess ==
  ASSUME SizesTypes, NEW e \in Editors, NEW now \in EditType,
         edit' = [edit EXCEPT ![e] = now], DOMAIN stored \subseteq DOMAIN stored',
         \/ ~(now.at \in Editing)
         \/ now.at # "checked" /\ now.id \in DOMAIN stored' \union {New}
         \/ edit[e].at \in Editing /\ now.id = edit[e].id /\ now.id # New
  PROVE  /\ GoneIds(edit, DOMAIN stored)' \subseteq GoneIds(edit, DOMAIN stored)
         /\ Adders(edit)' \subseteq Adders(edit)
<1>1. edit'[e] = now /\ \A o \in Editors \ {e} : edit'[o] = edit[o]
  BY OneRequest
<1>2. GoneIds(edit, DOMAIN stored)' \subseteq GoneIds(edit, DOMAIN stored)
  BY <1>1 DEF GoneIds, Holders
<1>3. Adders(edit)' \subseteq Adders(edit)
  BY <1>1 DEF Adders, Editing
<1> QED
  BY <1>2, <1>3

LEMMA IdleType == Idle \in EditType /\ Idle.at = "idle"
BY DEF Idle, EditType

-----------------------------------------------------------------------------
LEMMA ArriveInv ==
  ASSUME SizesInv, NEW e \in Editors, NEW doing \in EditType, Arrive(e, doing),
         doing.at \in {"found", "editing"}, doing.id \in DOMAIN stored \union {New}
  PROVE  SizesInv'
<1>1. /\ edit[e] = Idle /\ edit' = [edit EXCEPT ![e] = doing]
      /\ loose' = (loose \/ \E other \in Editors : edit[other] # Idle)
      /\ stored' = stored /\ Count' = Count
  BY DEF Arrive, Count
<1>2. /\ edit' \in [Editors -> EditType]
      /\ edit'[e] = doing
      /\ \A o \in Editors \ {e} : edit'[o] = edit[o]
  BY <1>1, OneRequest DEF SizesInv
<1>3. SizesTypes'
  BY <1>1, <1>2 DEF SizesInv, SizesTypes
<1>4. SizesBounded'
  <2>1. \/ ~(doing.at \in Editing)
        \/ doing.at # "checked" /\ doing.id \in DOMAIN stored' \union {New}
    BY <1>1
  <2> QED
    BY <1>1, <2>1, HoldsLess, NothingAdded DEF SizesInv
<1>5. SizesAlone'
  <2> SUFFICES ASSUME ~loose' PROVE SizesAlone'
    BY DEF SizesAlone
  <2>1. ~loose /\ \A o \in Editors : edit[o] = Idle
    BY <1>1
  <2>2. \A o \in Editors \ {e} : edit'[o] = Idle
    BY <1>2, <2>1
  <2>3. Kept'
    BY <1>1, <2>1 DEF SizesInv, SizesAlone, Kept
  <2> QED
    BY <1>1, <1>2, <2>2, <2>3, IdleType DEF SizesAlone, Editing
<1> QED
  BY <1>3, <1>4, <1>5 DEF SizesInv

(* A request proceeds; what it has seen is true.                           *)
LEMMA ProceedInv ==
  ASSUME SizesInv, NEW e \in Editors, NEW at \in {"counted", "checked"},
         Proceed(e, at), edit[e].at # "idle", SizesBounded',
         at = "counted" => Count >= 2,
         at = "checked" => edit[e].at \in Editing,
         at = "checked" /\ edit[e].id = New => Count < MaxRecords
  PROVE  SizesInv'
<1> DEFINE now == [edit[e] EXCEPT !.at = at]
<1>1. edit[e] \in EditType /\ now \in EditType /\ now.at = at /\ now.id = edit[e].id
  BY DEF SizesInv, SizesTypes, EditType
<1>2. edit' = [edit EXCEPT ![e] = now] /\ UNCHANGED <<stored, loose>> /\ Count' = Count
  BY DEF Proceed, Count
<1> HIDE DEF now
<1>3. /\ edit' \in [Editors -> EditType]
      /\ edit'[e] = now
      /\ \A o \in Editors \ {e} : edit'[o] = edit[o]
  BY <1>1, <1>2, OneRequest DEF SizesInv
<1>4. SizesTypes'
  BY <1>2, <1>3 DEF SizesInv, SizesTypes
<1>5. SizesAlone'
  <2> SUFFICES ASSUME ~loose' PROVE SizesAlone'
    BY DEF SizesAlone
  <2>1. SizesAlone /\ ~loose /\ edit[e] # Idle
    BY <1>2, IdleType DEF SizesInv
  <2>2. \A o, p \in Editors : edit'[o] # Idle /\ edit'[p] # Idle => o = p
    BY <1>3, <2>1 DEF SizesAlone
  <2>3. Kept'
    BY <1>2, <2>1 DEF SizesAlone, Kept
  <2>4. ASSUME NEW o \in Editors
        PROVE  /\ edit'[o].at = "counted" => Count' >= 2
               /\ edit'[o].at \in Editing => edit'[o].id \in DOMAIN stored' \union {New}
               /\ edit'[o].at = "checked" /\ edit'[o].id = New => Count' < MaxRecords
    <3>1. CASE o = e
      BY <1>1, <1>2, <1>3, <2>1, <3>1 DEF SizesAlone, Editing
    <3>2. CASE o # e
      BY <1>2, <1>3, <2>1, <3>2 DEF SizesAlone
    <3> QED
      BY <3>1, <3>2
  <2> QED
    BY <2>2, <2>3, <2>4 DEF SizesAlone
<1> QED
  BY <1>4, <1>5 DEF SizesInv

(* The last step of a request, which keeps the table right if it was alone. *)
LEMMA EditAnswerInv ==
  ASSUME SizesInv, NEW e \in Editors, Answer(e), edit[e].at # "idle",
         DOMAIN stored' \subseteq Ids, IsFiniteSet(DOMAIN stored'),
         SizesBounded', ~loose => Kept'
  PROVE  SizesInv'
<1>1. /\ edit' = [edit EXCEPT ![e] = Idle]
      /\ loose' = (loose /\ ~({o \in Editors \ {e} : edit[o] # Idle} = {} /\ Kept'))
  BY DEF Answer
<1>2. /\ edit' \in [Editors -> EditType]
      /\ edit'[e] = Idle
      /\ \A o \in Editors \ {e} : edit'[o] = edit[o]
  BY <1>1, IdleType, OneRequest DEF SizesInv
<1>3. SizesTypes'
  BY <1>1, <1>2 DEF SizesInv, SizesTypes
<1>4. SizesAlone'
  <2> SUFFICES ASSUME ~loose' PROVE SizesAlone'
    BY DEF SizesAlone
  <2>1. Kept'
    BY <1>1
  <2>2. \A o \in Editors : edit'[o] = Idle
    <3>1. \A o \in Editors \ {e} : edit[o] = Idle
      <4>1. CASE loose
        BY <1>1, <4>1
      <4>2. CASE ~loose
        BY <4>2, IdleType DEF SizesInv, SizesAlone
      <4> QED
        BY <4>1, <4>2
    <3> QED
      BY <1>2, <3>1
  <2> QED
    BY <2>1, <2>2, IdleType DEF SizesAlone, Editing
<1> QED
  BY <1>3, <1>4 DEF SizesInv

(* An answer without a write.                                              *)
LEMMA RefusedInv ==
  ASSUME SizesInv, NEW e \in Editors, Answer(e), edit[e].at # "idle", stored' = stored
  PROVE  SizesInv'
<1>1. edit' = [edit EXCEPT ![e] = Idle] /\ Count' = Count /\ ~(Idle.at \in Editing)
  BY IdleType DEF Answer, Count, Editing
<1>2. SizesBounded'
  BY <1>1, IdleType, HoldsLess, NothingAdded DEF SizesInv
<1>3. ~loose => Kept'
  BY <1>1 DEF SizesInv, SizesAlone, Kept
<1> QED
  BY <1>2, <1>3, EditAnswerInv DEF SizesInv, SizesTypes

-----------------------------------------------------------------------------
LEMMA CountSizesInv ==
  ASSUME SizesInv, NEW e \in Editors, CountSizes(e)
  PROVE  SizesInv'
<1>1. CASE ~MayDelete /\ UNCHANGED stored /\ Answer(e)
  BY <1>1, RefusedInv DEF CountSizes
<1>2. CASE MayDelete /\ Proceed(e, "counted")
  <2> DEFINE now == [edit[e] EXCEPT !.at = "counted"]
  <2>1. now \in EditType /\ now.at = "counted"
    BY DEF SizesInv, SizesTypes, EditType
  <2>2. edit' = [edit EXCEPT ![e] = now] /\ stored' = stored /\ Count' = Count
    BY <1>2 DEF Proceed, Count
  <2> HIDE DEF now
  <2>3. ~(now.at \in Editing)
    BY <2>1 DEF Editing
  <2>4. SizesBounded'
    BY <2>1, <2>2, <2>3, HoldsLess, NothingAdded DEF SizesInv
  <2>5. Count >= 2
    BY <1>2, CountTypes DEF MayDelete, SizesInv
  <2> QED
    BY <1>2, <2>4, <2>5, ProceedInv DEF CountSizes
<1> QED
  BY <1>1, <1>2 DEF CountSizes

LEMMA DeleteSizeInv ==
  ASSUME SizesInv, NEW e \in Editors, DeleteSize(e)
  PROVE  SizesInv'
<1> DEFINE ids == DOMAIN stored
           id == edit[e].id
           G == GoneIds(edit, ids)
           A == Adders(edit)
<1>1. /\ edit' = [edit EXCEPT ![e] = Idle] /\ edit[e].at = "counted" /\ Answer(e)
      /\ DOMAIN stored' = ids \ {id}
  BY DEF DeleteSize, Answer
<1>2. IsFiniteSet(ids) /\ ids \subseteq Ids
  BY DEF SizesInv, SizesTypes
<1>3. /\ IsFiniteSet(DOMAIN stored') /\ DOMAIN stored' \subseteq Ids
      /\ Count' = IF id \in ids THEN Count - 1 ELSE Count
  BY <1>1, <1>2, FS_RemoveElement DEF Count
<1>4. /\ edit'[e] = Idle
      /\ \A o \in Editors \ {e} : edit'[o] = edit[o]
  BY <1>1, IdleType, OneRequest DEF SizesInv
<1>5. A' \subseteq A /\ G' \subseteq G \union {id}
  BY <1>1, <1>4, IdleType DEF Adders, GoneIds, Holders, Editing
<1>6. SizesBounded'
  <2>1. CASE id \notin ids
    <3>1. G' \subseteq G
      BY <1>1, <1>4, <2>1, IdleType DEF GoneIds, Holders, Editing
    <3> QED
      BY <1>3, <1>5, <2>1, <3>1, NothingAdded
  <2>2. CASE id \in ids
    <3>1. /\ IsFiniteSet(G) /\ IsFiniteSet(A)
          /\ Cardinality(G) \in Nat /\ Cardinality(A) \in Nat
          /\ Cardinality(Editors) \in Nat
      BY PendingRows
    <3>2. Cardinality(G') \in Nat /\ Cardinality(A') \in Nat
      BY PendingRows
    <3>3. Cardinality(A') <= Cardinality(A)
      BY <1>5, <3>1, FS_Subset
    <3>4. /\ IsFiniteSet(G \union {id})
          /\ Cardinality(G \union {id}) <= Cardinality(G) + 1
      BY <3>1, FS_AddElement
    <3>5. Cardinality(G') <= Cardinality(G \union {id})
      BY <1>5, <3>4, FS_Subset
    <3>6. Cardinality(G \union {id}) \in Nat
      BY <3>4, FS_CardinalityType
    <3>7. Count \in Nat /\ MaxRecords \in Nat /\ Count' = Count - 1
      BY <1>3, <2>2, CountTypes, SizesAssumption DEF SizesInv
    <3>8. Count + Cardinality(G) + Cardinality(A)
            <= MaxRecords + Cardinality(Editors) - 1
      BY DEF SizesInv, SizesBounded
    <3> HIDE DEF G, A
    <3>9. Count' + Cardinality(G') + Cardinality(A')
            <= MaxRecords + Cardinality(Editors) - 1
      BY <3>1, <3>2, <3>3, <3>4, <3>5, <3>6, <3>7, <3>8
    <3> QED
      BY <3>9 DEF SizesBounded, G, A
  <2> QED
    BY <2>1, <2>2
<1>7. ~loose => Kept'
  <2> SUFFICES ASSUME ~loose PROVE Kept'
    OBVIOUS
  <2>1. Count >= 2 /\ Count \in 1..MaxRecords /\ MaxRecords \in Nat
    BY <1>1, SizesAssumption DEF SizesInv, SizesAlone, Kept
  <2> QED
    BY <1>3, <2>1 DEF Kept
<1> QED
  BY <1>1, <1>3, <1>6, <1>7, EditAnswerInv

LEMMA CheckSizeInv ==
  ASSUME SizesInv, NEW e \in Editors, CheckSize(e)
  PROVE  SizesInv'
<1>0. edit[e].at = "editing" /\ edit[e].at \in Editing
  BY DEF CheckSize, Editing
<1>1. CASE UNCHANGED stored /\ Answer(e)
  BY <1>0, <1>1, RefusedInv
<1>2. CASE /\ ~(edit[e].id = New /\ Count >= MaxRecords)
           /\ Proceed(e, "checked")
  <2> DEFINE now == [edit[e] EXCEPT !.at = "checked"]
  <2>1. now \in EditType /\ now.at = "checked" /\ now.id = edit[e].id
    BY DEF SizesInv, SizesTypes, EditType
  <2>2. edit' = [edit EXCEPT ![e] = now] /\ stored' = stored /\ Count' = Count
    BY <1>2 DEF Proceed, Count
  <2> HIDE DEF now
  <2>3. Count \in Nat /\ MaxRecords \in Nat
    BY CountTypes, SizesAssumption DEF SizesInv
  <2>4. edit[e].id = New => Count < MaxRecords
    BY <1>2, <2>3
  <2>5. SizesBounded'
    <3>1. CASE edit[e].id # New
      BY <1>0, <2>1, <2>2, <3>1, HoldsLess, NothingAdded DEF SizesInv
    <3>2. CASE edit[e].id = New
      <4> DEFINE G == Cardinality(GoneIds(edit, DOMAIN stored)')
                 A == Cardinality(Adders(edit)')
      <4>1. /\ G \in Nat /\ A \in Nat /\ Cardinality(Editors) \in Nat
            /\ G + A <= Cardinality(Editors)
        BY PendingRows
      <4> HIDE DEF G, A
      <4>2. Count' + G + A <= MaxRecords + Cardinality(Editors) - 1
        BY <2>2, <2>3, <2>4, <3>2, <4>1
      <4> QED
        BY <4>2 DEF SizesBounded, G, A
    <3> QED
      BY <3>1, <3>2
  <2> QED
    BY <1>0, <1>2, <2>4, <2>5, ProceedInv
<1> QED
  BY <1>1, <1>2 DEF CheckSize

LEMMA WriteSizeInv ==
  ASSUME SizesInv, NEW e \in Editors, WriteSize(e)
  PROVE  SizesInv'
<1> DEFINE ids == DOMAIN stored
           G == GoneIds(edit, ids)
           A == Adders(edit)
<1>1. /\ edit[e].at = "checked" /\ edit[e].at \in Editing /\ Answer(e)
      /\ edit' = [edit EXCEPT ![e] = Idle]
  BY DEF WriteSize, Answer, Editing
<1>2. CASE UNCHANGED stored
  BY <1>1, <1>2, RefusedInv
<1>3. ASSUME NEW id \in IF edit[e].id = New THEN Ids \ ids ELSE {edit[e].id},
             DOMAIN stored' = ids \union {id}
      PROVE  SizesInv'
  <2>1. /\ ids \subseteq Ids /\ IsFiniteSet(ids) /\ edit[e].id \in Ids \union {New}
        /\ Count \in Nat /\ MaxRecords \in Nat
    BY CountTypes, SizesAssumption DEF SizesInv, SizesTypes, EditType
  <2>2. /\ DOMAIN stored' \subseteq Ids /\ IsFiniteSet(DOMAIN stored')
        /\ Count' = IF id \in ids THEN Count ELSE Count + 1
    BY <1>3, <2>1, FS_AddElement DEF Count
  <2>3. /\ edit'[e] = Idle
        /\ \A o \in Editors \ {e} : edit'[o] = edit[o]
    BY <1>1, IdleType, OneRequest DEF SizesInv
  <2>4. G' \subseteq G /\ A' \subseteq A
    BY <1>1, <1>3, <2>3, IdleType DEF GoneIds, Holders, Adders, Editing
  <2>5. /\ IsFiniteSet(G) /\ IsFiniteSet(A)
        /\ Cardinality(G) \in Nat /\ Cardinality(A) \in Nat
        /\ Cardinality(Editors) \in Nat
    BY PendingRows
  <2>6. Cardinality(G') \in Nat /\ Cardinality(A') \in Nat
    BY PendingRows
  <2>7. Cardinality(G') <= Cardinality(G) /\ Cardinality(A') <= Cardinality(A)
    BY <2>4, <2>5, FS_Subset
  <2>8. SizesBounded'
    <3>1. CASE id \in ids
      BY <2>2, <2>4, <3>1, NothingAdded
    <3>2. CASE id \notin ids
      <4>1. \/ Cardinality(A') <= Cardinality(A) - 1
            \/ Cardinality(G') <= Cardinality(G) - 1
        <5>1. CASE edit[e].id = New
          <6>1. e \in A /\ A' \subseteq A \ {e}
            BY <1>1, <2>3, <2>4, <5>1, IdleType DEF Adders
          <6>2. IsFiniteSet(A \ {e}) /\ Cardinality(A \ {e}) = Cardinality(A) - 1
            BY <2>5, <6>1, FS_RemoveElement
          <6> QED
            BY <6>1, <6>2, FS_Subset
        <5>2. CASE edit[e].id # New
          <6>1. id = edit[e].id
            BY <1>3, <5>2
          <6>2. id \in G /\ G' \subseteq G \ {id}
            BY <1>1, <1>3, <2>4, <3>2, <5>2, <6>1 DEF GoneIds, Holders
          <6>3. IsFiniteSet(G \ {id}) /\ Cardinality(G \ {id}) = Cardinality(G) - 1
            BY <2>5, <6>2, FS_RemoveElement
          <6> QED
            BY <6>2, <6>3, FS_Subset
        <5> QED
          BY <5>1, <5>2
      <4>2. Count' = Count + 1
        BY <2>2, <3>2
      <4>3. Count + Cardinality(G) + Cardinality(A)
              <= MaxRecords + Cardinality(Editors) - 1
        BY DEF SizesInv, SizesBounded
      <4> HIDE DEF G, A
      <4>4. Count' + Cardinality(G') + Cardinality(A')
              <= MaxRecords + Cardinality(Editors) - 1
        BY <2>1, <2>5, <2>6, <2>7, <4>1, <4>2, <4>3
      <4> QED
        BY <4>4 DEF SizesBounded, G, A
    <3> QED
      BY <3>1, <3>2
  <2>9. ~loose => Kept'
    <3> SUFFICES ASSUME ~loose PROVE Kept'
      OBVIOUS
    <3>1. /\ Count \in 1..MaxRecords
          /\ edit[e].id \in ids \union {New}
          /\ edit[e].id = New => Count < MaxRecords
      BY <1>1 DEF SizesInv, SizesAlone, Kept
    <3>2. Count' = Count \/ (Count' = Count + 1 /\ Count < MaxRecords)
      BY <1>3, <2>2, <3>1
    <3> QED
      BY <2>1, <3>1, <3>2 DEF Kept
  <2> QED
    BY <1>1, <2>2, <2>8, <2>9, EditAnswerInv
<1>4. \/ UNCHANGED stored
      \/ \E id \in IF edit[e].id = New THEN Ids \ ids ELSE {edit[e].id} :
           DOMAIN stored' = ids \union {id}
  BY DEF WriteSize
<1> QED
  BY <1>2, <1>3, <1>4

LEMMA SizesInductive ==
  ASSUME SizesInv, [SizesNext]_sizesVars
  PROVE  SizesInv'
<1>1. ASSUME NEW e \in Editors, NEW id \in Ids, FindSize(e, id)
      PROVE  SizesInv'
  <2> DEFINE doing == [at |-> "found", id |-> id, size |-> 0]
  <2>1. doing \in EditType /\ doing.at = "found" /\ doing.id = id
    BY DEF EditType
  <2>2. Arrive(e, doing) /\ id \in DOMAIN stored
    BY <1>1 DEF FindSize
  <2> QED
    BY <2>1, <2>2, ArriveInv
<1>2. ASSUME NEW e \in Editors, NEW id \in Ids \union {New}, NEW size \in PageSizes,
             EditSize(e, id, size)
      PROVE  SizesInv'
  <2> DEFINE doing == [at |-> "editing", id |-> id, size |-> size]
  <2>1. doing \in EditType /\ doing.at = "editing" /\ doing.id = id
    BY DEF EditType
  <2>2. Arrive(e, doing) /\ id \in DOMAIN stored \union {New}
    BY <1>2 DEF EditSize
  <2> QED
    BY <2>1, <2>2, ArriveInv
<1>3. CASE UNCHANGED sizesVars
  BY <1>3 DEF sizesVars, SizesInv, SizesTypes, SizesBounded, SizesAlone, Count, Kept
<1> QED
  BY <1>1, <1>2, <1>3, CountSizesInv, DeleteSizeInv, CheckSizeInv, WriteSizeInv
     DEF SizesNext

LEMMA SizesStart == SizesInit => SizesInv
<1> SUFFICES ASSUME SizesInit PROVE SizesInv
  OBVIOUS
<1>1. /\ DOMAIN stored = {} /\ loose
      /\ edit = [e \in Editors |-> Idle]
  BY DEF SizesInit
<1>2. SizesTypes
  BY <1>1, IdleType, FS_EmptySet DEF SizesTypes
<1>3. GoneIds(edit, DOMAIN stored) = {} /\ Adders(edit) = {} /\ Count = 0
  BY <1>1, IdleType, FS_EmptySet DEF GoneIds, Holders, Adders, Editing, Count
<1>4. Cardinality(Editors) \in Nat /\ MaxRecords \in Nat /\ MaxRecords >= 1
  BY PendingRows, SizesAssumption
<1>5. SizesBounded
  BY <1>3, <1>4, FS_EmptySet DEF SizesBounded
<1> QED
  BY <1>1, <1>2, <1>5 DEF SizesInv, SizesAlone

(* As long as requests do not overlap, a page size stays and MaxRecords    *)
(* are not exceeded; if they do, by less than there are requests at once   *)
(* (pagination_settings, clean).  A row that is deleted while a request    *)
(* holds it is inserted again without a count, and counts as there.        *)
THEOREM SizesStay == SizesSpec => []SizesAreKept
<1>1. SizesInv => SizesAreKept
  <2> SUFFICES ASSUME SizesInv PROVE SizesAreKept
    OBVIOUS
  <2> DEFINE G == Cardinality(GoneIds(edit, DOMAIN stored))
             A == Cardinality(Adders(edit))
  <2>1. G \in Nat /\ A \in Nat /\ Cardinality(Editors) \in Nat
    BY PendingRows
  <2>2. Count \in Nat /\ MaxRecords \in Nat
    BY CountTypes, SizesAssumption DEF SizesInv
  <2>3. Count + G + A <= MaxRecords + Cardinality(Editors) - 1
    BY DEF SizesInv, SizesBounded
  <2> HIDE DEF G, A
  <2>4. Count <= MaxRecords + Cardinality(Editors) - 1
    BY <2>1, <2>2, <2>3
  <2> QED
    BY <2>4 DEF SizesInv, SizesAlone, SizesAreKept
<1> QED
  BY <1>1, SizesStart, SizesInductive, PTL DEF SizesSpec

(* A row has a size, which the request that wrote it had.                  *)
SizesOffered ==
  /\ \A id \in DOMAIN stored : stored[id] \in PageSizes
  /\ \A e \in Editors : edit[e].at \in Editing => edit[e].size \in PageSizes

LEMMA OfferedInductive ==
  ASSUME SizesTypes, SizesOffered, SizesNext
  PROVE  SizesOffered'
<1> USE DEF SizesTypes, SizesOffered
<1>1. ASSUME NEW e \in Editors, NEW doing \in EditType, Arrive(e, doing),
             doing.at \in Editing => doing.size \in PageSizes
      PROVE  SizesOffered'
  BY <1>1 DEF Arrive
<1>2. ASSUME NEW e \in Editors, NEW at \in {"counted", "checked"}, Proceed(e, at),
             at = "checked" => edit[e].at \in Editing
      PROVE  SizesOffered'
  BY <1>2 DEF Proceed, EditType, Editing
<1>3. ASSUME NEW e \in Editors, Answer(e),
             \A id \in DOMAIN stored' : stored'[id] \in PageSizes
      PROVE  SizesOffered'
  BY <1>3, IdleType DEF Answer, Editing
<1>4. ASSUME NEW e \in Editors, NEW id \in Ids, FindSize(e, id)
      PROVE  SizesOffered'
  <2> DEFINE doing == [at |-> "found", id |-> id, size |-> 0]
  <2>1. doing \in EditType /\ doing.at \notin Editing
    BY DEF EditType, Editing
  <2> QED
    BY <1>1, <1>4, <2>1 DEF FindSize
<1>5. ASSUME NEW e \in Editors, NEW id \in Ids \union {New}, NEW size \in PageSizes,
             EditSize(e, id, size)
      PROVE  SizesOffered'
  <2> DEFINE doing == [at |-> "editing", id |-> id, size |-> size]
  <2>1. doing \in EditType /\ doing.size \in PageSizes
    BY DEF EditType
  <2> QED
    BY <1>1, <1>5, <2>1 DEF EditSize
<1>6. ASSUME NEW e \in Editors, CountSizes(e) \/ CheckSize(e)
      PROVE  SizesOffered'
  BY <1>2, <1>3, <1>6 DEF CountSizes, CheckSize, Editing
<1>7. ASSUME NEW e \in Editors, DeleteSize(e)
      PROVE  SizesOffered'
  BY <1>3, <1>7 DEF DeleteSize
<1>8. ASSUME NEW e \in Editors, WriteSize(e)
      PROVE  SizesOffered'
  <2>1. edit[e].size \in PageSizes
    BY <1>8 DEF WriteSize, Editing
  <2>2. \A id \in DOMAIN stored' : stored'[id] \in PageSizes
    BY <1>8, <2>1 DEF WriteSize
  <2> QED
    BY <1>3, <1>8, <2>2 DEF WriteSize
<1> QED
  BY <1>4, <1>5, <1>6, <1>7, <1>8 DEF SizesNext

(* The rows have sizes that may be offered, and requests the values that   *)
(* the comments name, however they overlap (pagination_settings).          *)
THEOREM SizesTypeCorrect == SizesSpec => []SizesTypeOK
<1>1. SizesInit => SizesInv /\ SizesOffered
  BY SizesStart, IdleType DEF SizesInit, SizesOffered, Editing
<1>2. SizesInv /\ SizesOffered /\ [SizesNext]_sizesVars => SizesInv' /\ SizesOffered'
  BY SizesInductive, OfferedInductive DEF SizesInv, SizesOffered, sizesVars
<1>3. SizesInv /\ SizesOffered => SizesTypeOK
  BY DEF SizesInv, SizesTypes, SizesOffered, SizesTypeOK, EditType
<1> QED
  BY <1>1, <1>2, <1>3, PTL DEF SizesSpec

-----------------------------------------------------------------------------
(* Sidebar settings.                                                       *)

(* A list: its pairs are of its pages, each of which has a pair.           *)
LEMMA ListFacts ==
  ASSUME NEW list \in Lists
  PROVE  /\ TabsOf(list) \subseteq SidebarPages
         /\ list \subseteq TabsOf(list) \X TabsOf(list)
         /\ \A p \in TabsOf(list) : <<p, p>> \in list
         /\ list = EmptyList <=> TabsOf(list) = {}
  <1>1. IsList(list) /\ list \subseteq SidebarPages \X SidebarPages
    BY DEF Lists
  <1>2. TabsOf(list) \subseteq SidebarPages
    BY <1>1 DEF TabsOf
  <1>3. ASSUME NEW pair \in list
        PROVE  pair \in TabsOf(list) \X TabsOf(list)
    <2>1. pair = <<pair[1], pair[2]>>
      BY <1>1
    <2>2. <<pair[2], pair[2]>> \in list
      BY <1>1 DEF IsList
    <2>3. pair[1] \in TabsOf(list) /\ <<pair[2], pair[2]>>[1] \in TabsOf(list)
      BY <2>2 DEF TabsOf
    <2>4. QED
      BY <2>1, <2>3
  <1>4. \A p \in TabsOf(list) : <<p, p>> \in list
    BY <1>1 DEF IsList, TabsOf
  <1>5. list = EmptyList <=> TabsOf(list) = {}
    BY <1>4 DEF EmptyList, TabsOf
  <1>6. QED
    BY <1>2, <1>3, <1>4, <1>5

(* What makes a set of pairs of some pages a list of them.                 *)
LEMMA MakesList ==
  ASSUME NEW tabs \in SUBSET SidebarPages, NEW list \in SUBSET (tabs \X tabs),
         \A p \in tabs : <<p, p>> \in list,
         \A p, q \in tabs : <<p, q>> \in list \/ <<q, p>> \in list,
         \A p, q \in tabs : <<p, q>> \in list /\ <<q, p>> \in list => p = q,
         \A p, q, r \in tabs :
           <<p, q>> \in list /\ <<q, r>> \in list => <<p, r>> \in list
  PROVE  list \in Lists /\ TabsOf(list) = tabs
  <1>1. TabsOf(list) \subseteq tabs
    BY DEF TabsOf
  <1>2. ASSUME NEW p \in tabs
        PROVE  p \in TabsOf(list)
    <2>1. <<p, p>> \in list /\ <<p, p>>[1] = p
      OBVIOUS
    <2>2. QED
      BY <2>1 DEF TabsOf
  <1>3. TabsOf(list) = tabs
    BY <1>1, <1>2
  <1>4. \A pair \in list : <<pair[1], pair[1]>> \in list /\ <<pair[2], pair[2]>> \in list
    OBVIOUS
  <1>5. IsList(list)
    BY <1>3, <1>4 DEF IsList
  <1>6. list \in SUBSET (SidebarPages \X SidebarPages)
    OBVIOUS
  <1>7. QED
    BY <1>3, <1>5, <1>6 DEF Lists

(* The order of a list.                                                    *)
LEMMA ListOrder ==
  ASSUME NEW list \in Lists
  PROVE  /\ \A p, q \in TabsOf(list) : <<p, q>> \in list \/ <<q, p>> \in list
         /\ \A p, q : <<p, q>> \in list /\ <<q, p>> \in list => p = q
         /\ \A p, q, r : <<p, q>> \in list /\ <<q, r>> \in list => <<p, r>> \in list
  <1>1. IsList(list)
    BY DEF Lists
  <1>2. \A p, q : <<p, q>> \in list => p \in TabsOf(list) /\ q \in TabsOf(list)
    BY ListFacts
  <1>3. QED
    BY <1>1, <1>2 DEF IsList

(* Some pages of a list, in its order.                                     *)
LEMMA AmongIsList ==
  ASSUME NEW list \in Lists, NEW set
  PROVE  Among(list, set) \in Lists /\ TabsOf(Among(list, set)) = TabsOf(list) \intersect set
  <1> DEFINE tabs == TabsOf(list) \intersect set
  <1>1. tabs \in SUBSET SidebarPages
    BY ListFacts
  <1>2. \A p, q \in tabs : <<p, q>> \in Among(list, set) <=> <<p, q>> \in list
    BY DEF Among
  <1>3. Among(list, set) \in SUBSET (tabs \X tabs)
    BY ListFacts DEF Among
  <1>4. \A p \in tabs : <<p, p>> \in Among(list, set)
    BY <1>2, ListFacts
  <1>5. \A p, q \in tabs : <<p, q>> \in Among(list, set) \/ <<q, p>> \in Among(list, set)
    BY <1>2, ListOrder
  <1>6. \A p, q \in tabs :
          <<p, q>> \in Among(list, set) /\ <<q, p>> \in Among(list, set) => p = q
    BY <1>2, ListOrder
  <1>7. \A p, q, r \in tabs :
          <<p, q>> \in Among(list, set) /\ <<q, r>> \in Among(list, set)
            => <<p, r>> \in Among(list, set)
    BY <1>2, ListOrder
  <1>8. QED
    BY <1>1, <1>3, <1>4, <1>5, <1>6, <1>7, MakesList

LEMMA AmongAgain ==
  ASSUME NEW list, NEW some, NEW set
  PROVE  Among(Among(list, some), set) = Among(list, some \intersect set)
  BY DEF Among

(* Only the pages of the list count.                                       *)
LEMMA AmongSame ==
  ASSUME NEW list \in Lists, NEW some, NEW set,
         TabsOf(list) \intersect some = TabsOf(list) \intersect set
  PROVE  Among(list, some) = Among(list, set)
  BY ListFacts DEF Among

LEMMA AmongAll ==
  ASSUME NEW list \in Lists, NEW set, TabsOf(list) \subseteq set
  PROVE  Among(list, set) = list
  BY ListFacts DEF Among

(* Two lists without a common page, one after the other.                   *)
LEMMA ThenIsList ==
  ASSUME NEW first \in Lists, NEW second \in Lists,
         TabsOf(first) \intersect TabsOf(second) = {}
  PROVE  /\ Then(first, second) \in Lists
         /\ TabsOf(Then(first, second)) = TabsOf(first) \union TabsOf(second)
         /\ Among(Then(first, second), TabsOf(first)) = first
  <1> DEFINE tabs == TabsOf(first) \union TabsOf(second)
             both == Then(first, second)
  <1>1. \A p, q \in tabs : <<p, q>> \in both <=> \/ <<p, q>> \in first \/ <<p, q>> \in second
                                                 \/ p \in TabsOf(first) /\ q \in TabsOf(second)
    BY DEF Then
  <1>2. both \in SUBSET (tabs \X tabs)
    BY DEF Then
  <1>3. tabs \in SUBSET SidebarPages
    BY ListFacts
  <1>4. /\ \A p, q : <<p, q>> \in first => p \in TabsOf(first) /\ q \in TabsOf(first)
        /\ \A p, q : <<p, q>> \in second => p \in TabsOf(second) /\ q \in TabsOf(second)
    BY ListFacts
  <1> HIDE DEF both
  <1>5. \A p \in tabs : <<p, p>> \in both
    BY <1>1, ListFacts
  <1>6. \A p, q \in tabs : <<p, q>> \in both \/ <<q, p>> \in both
    BY <1>1, ListOrder
  <1>7. \A p, q \in tabs : <<p, q>> \in both /\ <<q, p>> \in both => p = q
    BY <1>1, <1>4, ListOrder
  <1>8. \A p, q, r \in tabs : <<p, q>> \in both /\ <<q, r>> \in both => <<p, r>> \in both
    BY <1>1, <1>4, ListOrder
  <1>9. both \in Lists /\ TabsOf(both) = tabs
    BY <1>2, <1>3, <1>5, <1>6, <1>7, <1>8, MakesList
  <1>10. ASSUME NEW p, NEW q
         PROVE  <<p, q>> \in Among(both, TabsOf(first)) <=> <<p, q>> \in first
    BY <1>1, <1>2, <1>4 DEF Among
  <1>11. /\ \A pair \in Among(both, TabsOf(first)) : pair = <<pair[1], pair[2]>>
         /\ \A pair \in first : pair = <<pair[1], pair[2]>>
    BY <1>2, ListFacts DEF Among
  <1>12. Among(both, TabsOf(first)) = first
    BY <1>10, <1>11
  <1>13. QED
    BY <1>9, <1>12 DEF both

LEMMA ThenNothing ==
  ASSUME NEW list \in Lists
  PROVE  Then(list, EmptyList) = list
  <1>1. TabsOf(EmptyList) = {}
    BY DEF TabsOf, EmptyList
  <1>2. list \subseteq TabsOf(list) \X TabsOf(list)
    BY ListFacts
  <1>3. QED
    BY <1>1, <1>2 DEF Then, EmptyList

(* The pages of the two versions.                                          *)
LEMMA TabIdsFacts ==
  ASSUME NEW newer \in BOOLEAN
  PROVE  /\ TabIds[newer] \in Lists
         /\ TabsOf(TabIds[FALSE]) \subseteq TabsOf(TabIds[newer])
         /\ TabsOf(TabIds[newer]) \subseteq TabsOf(TabIds[TRUE])
         /\ TabsOf(TabIds[TRUE]) = SidebarPages
         /\ FIXED_SIDEBAR_TAB_IDS \subseteq TabsOf(TabIds[newer])
         /\ TabsOf(TabIds[FALSE]) = SidebarPages \ SIDEBAR_TABS_ADDED_LATER
  <1> DEFINE Old == Without(SIDEBAR_TAB_IDS, SIDEBAR_TABS_ADDED_LATER)
  <1>1. TRUE \in BOOLEAN /\ FALSE \in BOOLEAN
    OBVIOUS
  <1>2. TabIds[TRUE] = SIDEBAR_TAB_IDS /\ TabIds[FALSE] = Old
    BY <1>1 DEF TabIds
  <1>3. SIDEBAR_TAB_IDS \in Lists
    BY SidebarAssumption
  <1>4. Old \in Lists /\ TabsOf(Old) = SidebarPages \ SIDEBAR_TABS_ADDED_LATER
    BY <1>3, AmongIsList DEF Without, SidebarPages
  <1>5. FIXED_SIDEBAR_TAB_IDS \subseteq TabsOf(TabIds[FALSE])
    BY SidebarAssumption
  <1> HIDE DEF Old
  <1>6. CASE newer = TRUE
    BY <1>2, <1>3, <1>4, <1>5, <1>6 DEF SidebarPages
  <1>7. CASE newer = FALSE
    BY <1>2, <1>3, <1>4, <1>5, <1>7 DEF SidebarPages
  <1>8. QED
    BY <1>6, <1>7

(* A choice as the tab saves it: the fixed pages are in it, and another.   *)
IsChoice(list) ==
  /\ list \in Lists
  /\ FIXED_SIDEBAR_TAB_IDS \subseteq TabsOf(list)
  /\ ~(TabsOf(list) \subseteq FIXED_SIDEBAR_TAB_IDS)

(* The server keeps such a choice of the pages it has, in its order; ...   *)
LEMMA NormalizeKeeps ==
  ASSUME NEW tabs, IsChoice(tabs), NEW all \in Lists, TabsOf(tabs) \subseteq TabsOf(all)
  PROVE  NormalizeTabs(tabs, all) = tabs
  <1>1. Among(tabs, TabsOf(all)) = tabs
    BY AmongAll DEF IsChoice
  <1> DEFINE fixed == Among(all, FIXED_SIDEBAR_TAB_IDS)
  <1>2. fixed \in Lists /\ TabsOf(fixed) \subseteq TabsOf(tabs)
    BY AmongIsList DEF IsChoice
  <1>3. Without(fixed, TabsOf(tabs)) \in Lists
    BY <1>2, AmongIsList DEF Without
  <1>4. TabsOf(Without(fixed, TabsOf(tabs))) = {}
    BY <1>2, AmongIsList DEF Without
  <1>5. Without(fixed, TabsOf(tabs)) = EmptyList
    BY <1>3, <1>4, ListFacts
  <1>6. Then(tabs, EmptyList) = tabs
    BY ThenNothing DEF IsChoice
  <1>7. QED
    BY <1>1, <1>5, <1>6 DEF NormalizeTabs, IsChoice

(* ... the tab keeps what it has of a list.                                *)
LEMMA NormalizePagesKeeps ==
  ASSUME NEW tabs \in Lists, NEW all \in Lists,
         TabsOf(tabs) \intersect TabsOf(all) # {}
  PROVE  NormalizeSidebarPages(tabs, all) = Among(tabs, TabsOf(all))
  <1>1. /\ Among(tabs, TabsOf(all)) \in Lists
        /\ TabsOf(Among(tabs, TabsOf(all))) # {}
    BY AmongIsList
  <1>2. Among(tabs, TabsOf(all)) # EmptyList
    BY <1>1, ListFacts
  <1>3. QED
    BY <1>2 DEF NormalizeSidebarPages

(* Two new pages stand after the same visible pages, or one stands after   *)
(* more of them.                                                           *)
LEMMA UpToFacts ==
  ASSUME NEW visible \in Lists, NEW all \in Lists
  PROVE  /\ \A n, v, w : v \in UpTo(n, visible, all) /\ <<w, v>> \in visible
                           => w \in UpTo(n, visible, all)
         /\ \A n : UpTo(n, visible, all) \subseteq TabsOf(visible)
         /\ \A n, m : \/ UpTo(n, visible, all) \subseteq UpTo(m, visible, all)
                      \/ UpTo(m, visible, all) \subseteq UpTo(n, visible, all)
  <1> DEFINE before(n) == {v \in TabsOf(visible) : <<v, n>> \in all}
             last(n) == {v \in before(n) : \A w \in before(n) : <<w, v>> \in all}
             upTo(n) == UpTo(n, visible, all)
  <1>1. \A n : upTo(n) = {v \in TabsOf(visible) : \E w \in last(n) : <<v, w>> \in visible}
    BY DEF UpTo
  <1>2. \A n : last(n) \subseteq TabsOf(visible)
    OBVIOUS
  <1> HIDE DEF before, last, upTo
  <1>3. ASSUME NEW n, NEW v \in upTo(n), NEW w, <<w, v>> \in visible
        PROVE  w \in upTo(n)
    <2>1. PICK l \in last(n) : <<v, l>> \in visible
      BY <1>1
    <2>2. <<w, l>> \in visible /\ w \in TabsOf(visible)
      BY <1>3, <2>1, ListOrder, ListFacts
    <2>3. QED
      BY <1>1, <2>2
  <1>4. \A n : upTo(n) \subseteq TabsOf(visible)
    BY <1>1
  <1>5. ASSUME NEW n, NEW m, ~(upTo(n) \subseteq upTo(m))
        PROVE  upTo(m) \subseteq upTo(n)
    <2>1. PICK v \in upTo(n) : v \notin upTo(m)
      BY <1>5
    <2>2. ASSUME NEW w \in upTo(m)
          PROVE  w \in upTo(n)
      <3>1. ~(<<v, w>> \in visible)
        BY <1>3, <2>1
      <3>2. <<w, v>> \in visible
        BY <1>4, <2>1, <3>1, ListOrder
      <3>3. QED
        BY <1>3, <2>1, <3>2
    <2>3. QED
      BY <2>2
  <1>6. QED
    BY <1>3, <1>4, <1>5 DEF upTo

(* The list with the new pages in it: what was there keeps its order.      *)
LEMMA AddIsList ==
  ASSUME NEW visible \in Lists, NEW all \in Lists, NEW known,
         TabsOf(visible) \subseteq TabsOf(all)
  PROVE  LET new == NewTabs(visible, known, all)
             result == AddNewTabs(visible, known, all)
         IN  /\ result \in Lists
             /\ TabsOf(result) = TabsOf(visible) \union new
             /\ \A set : set \intersect new = {} =>
                  Among(result, set) = Among(visible, set)
  <1> DEFINE new == NewTabs(visible, known, all)
             result == AddNewTabs(visible, known, all)
             tabs == TabsOf(visible) \union new
             upTo == [n \in new |-> UpTo(n, visible, all)]
  <1>1. new \intersect TabsOf(visible) = {} /\ new \subseteq TabsOf(all)
    BY DEF NewTabs
  <1>2. tabs \in SUBSET SidebarPages
    BY <1>1, ListFacts
  <1>3. /\ \A n \in new : upTo[n] \subseteq TabsOf(visible)
        /\ \A n \in new : \A v, w : v \in upTo[n] /\ <<w, v>> \in visible => w \in upTo[n]
        /\ \A n, m \in new : upTo[n] \subseteq upTo[m] \/ upTo[m] \subseteq upTo[n]
    BY UpToFacts
  <1>4. result \in SUBSET (tabs \X tabs)
    BY DEF AddNewTabs
  <1>5. \A p, q \in tabs :
          <<p, q>> \in result <=>
            \/ <<p, q>> \in visible
            \/ q \in new /\ p \in upTo[q]
            \/ p \in new /\ q \in TabsOf(visible) \ upTo[p]
            \/ /\ {p, q} \subseteq new /\ upTo[p] \subseteq upTo[q]
               /\ upTo[p] = upTo[q] => <<p, q>> \in all
    BY DEF AddNewTabs
  <1>6. \A p, q : <<p, q>> \in visible => p \in TabsOf(visible) /\ q \in TabsOf(visible)
    BY ListFacts
  <1> HIDE DEF new, result, upTo
  (* The order by where its two pages come from.                           *)
  <1>7. \A p, q \in TabsOf(visible) : <<p, q>> \in result <=> <<p, q>> \in visible
    BY <1>1, <1>3, <1>5
  <1>8. \A p \in TabsOf(visible), q \in new : <<p, q>> \in result <=> p \in upTo[q]
    BY <1>1, <1>5, <1>6
  <1>9. \A p \in new, q \in TabsOf(visible) : <<p, q>> \in result <=> q \notin upTo[p]
    BY <1>1, <1>5, <1>6
  <1>10. \A p, q \in new :
           <<p, q>> \in result <=> /\ upTo[p] \subseteq upTo[q]
                                   /\ upTo[p] = upTo[q] => <<p, q>> \in all
    <2>1. TAKE p, q \in new
    <2>2. p \in tabs /\ q \in tabs
      OBVIOUS
    <2>3. ~(<<p, q>> \in visible) /\ q \notin TabsOf(visible) /\ p \notin upTo[q]
      BY <1>1, <1>3, <1>6
    <2>4. QED
      BY <2>2, <2>3, <1>5
  <1>11. \A p \in tabs : <<p, p>> \in result
    BY <1>1, <1>7, <1>10, ListFacts
  <1>12. ASSUME NEW p \in tabs, NEW q \in tabs
         PROVE  /\ <<p, q>> \in result \/ <<q, p>> \in result
                /\ <<p, q>> \in result /\ <<q, p>> \in result => p = q
    <2>1. CASE p \in TabsOf(visible) /\ q \in TabsOf(visible)
      BY <2>1, <1>7, ListOrder
    <2>2. CASE p \in TabsOf(visible) /\ q \in new
      BY <2>2, <1>8, <1>9
    <2>3. CASE p \in new /\ q \in TabsOf(visible)
      BY <2>3, <1>8, <1>9
    <2>4. CASE p \in new /\ q \in new
      <3>1. <<p, q>> \in all \/ <<q, p>> \in all
        BY <2>4, <1>1, ListOrder
      <3>2. <<p, q>> \in all /\ <<q, p>> \in all => p = q
        BY ListOrder
      <3>3. upTo[p] \subseteq upTo[q] /\ upTo[q] \subseteq upTo[p] => upTo[p] = upTo[q]
        OBVIOUS
      <3>4. QED
        BY <2>4, <3>1, <3>2, <3>3, <1>3, <1>10
    <2>5. QED
      BY <2>1, <2>2, <2>3, <2>4
  <1>13. ASSUME NEW p \in tabs, NEW q \in tabs, NEW r \in tabs,
                <<p, q>> \in result, <<q, r>> \in result
         PROVE  <<p, r>> \in result
    <2>1. CASE p \in TabsOf(visible) /\ q \in TabsOf(visible) /\ r \in TabsOf(visible)
      BY <2>1, <1>7, <1>13, ListOrder
    <2>2. CASE p \in TabsOf(visible) /\ q \in TabsOf(visible) /\ r \in new
      BY <2>2, <1>3, <1>7, <1>8, <1>13
    <2>3. CASE p \in TabsOf(visible) /\ q \in new /\ r \in TabsOf(visible)
      <3>1. p \in upTo[q] /\ r \notin upTo[q]
        BY <2>3, <1>8, <1>9, <1>13
      <3>2. ~(<<r, p>> \in visible)
        BY <2>3, <3>1, <1>3
      <3>3. QED
        BY <2>3, <3>2, <1>7, ListOrder
    <2>4. CASE p \in TabsOf(visible) /\ q \in new /\ r \in new
      BY <2>4, <1>8, <1>10, <1>13
    <2>5. CASE p \in new /\ q \in TabsOf(visible) /\ r \in TabsOf(visible)
      <3>1. q \notin upTo[p] /\ <<q, r>> \in visible
        BY <2>5, <1>7, <1>9, <1>13
      <3>2. r \notin upTo[p]
        BY <2>5, <3>1, <1>3
      <3>3. QED
        BY <2>5, <3>2, <1>9
    <2>6. CASE p \in new /\ q \in TabsOf(visible) /\ r \in new
      <3>1. q \notin upTo[p] /\ q \in upTo[r]
        BY <2>6, <1>8, <1>9, <1>13
      <3>2. upTo[p] \subseteq upTo[r] /\ upTo[p] # upTo[r]
        BY <2>6, <3>1, <1>3
      <3>3. QED
        BY <2>6, <3>2, <1>10
    <2>7. CASE p \in new /\ q \in new /\ r \in TabsOf(visible)
      BY <2>7, <1>9, <1>10, <1>13
    <2>8. CASE p \in new /\ q \in new /\ r \in new
      <3>1. /\ upTo[p] \subseteq upTo[q] /\ upTo[q] \subseteq upTo[r]
            /\ upTo[p] = upTo[q] => <<p, q>> \in all
            /\ upTo[q] = upTo[r] => <<q, r>> \in all
        BY <2>8, <1>10, <1>13
      <3>2. upTo[p] \subseteq upTo[r]
        BY <3>1
      <3>3. ASSUME upTo[p] = upTo[r]
            PROVE  <<p, r>> \in all
        <4>1. upTo[p] = upTo[q] /\ upTo[q] = upTo[r]
          BY <3>1, <3>3
        <4>2. QED
          BY <3>1, <4>1, ListOrder
      <3>4. QED
        BY <2>8, <3>2, <3>3, <1>10
    <2>9. QED
      BY <2>1, <2>2, <2>3, <2>4, <2>5, <2>6, <2>7, <2>8
  <1>14. result \in Lists /\ TabsOf(result) = tabs
    <2>1. \A p, q \in tabs : <<p, q>> \in result \/ <<q, p>> \in result
      BY <1>12
    <2>2. \A p, q \in tabs : <<p, q>> \in result /\ <<q, p>> \in result => p = q
      BY <1>12
    <2>3. \A p, q, r \in tabs :
            <<p, q>> \in result /\ <<q, r>> \in result => <<p, r>> \in result
      BY <1>13
    <2>4. QED
      BY <1>2, <1>4, <1>11, <2>1, <2>2, <2>3, MakesList
  <1>15. ASSUME NEW set, set \intersect new = {}
         PROVE  Among(result, set) = Among(visible, set)
    <2>1. \A p, q : <<p, q>> \in Among(result, set) <=> <<p, q>> \in Among(visible, set)
      BY <1>4, <1>6, <1>7, <1>15 DEF Among
    <2>2. /\ \A pair \in Among(result, set) : pair = <<pair[1], pair[2]>>
          /\ \A pair \in Among(visible, set) : pair = <<pair[1], pair[2]>>
      BY <1>4, ListFacts DEF Among
    <2>3. QED
      BY <2>1, <2>2
  <1>16. QED
    BY <1>14, <1>15 DEF new, result

(* A row: a choice among the pages known to the user, which are those of   *)
(* one of the versions up to the server's.                                 *)
IsStored(kept) ==
  /\ IsChoice(kept.visible)
  /\ TabsOf(kept.visible) \subseteq kept.known
  /\ \E v \in BOOLEAN : (v => upgraded) /\ kept.known = TabsOf(TabIds[v])

RowIsRight ==
  /\ IsChoice(row.visible)
  /\ TabsOf(row.visible) \subseteq row.known
  /\ \E v \in BOOLEAN : (v => upgraded) /\ row.known = TabsOf(TabIds[v])

(* What is read is a row as well; when nothing of it is left to be written,*)
(* the row knows every page.                                               *)
ReadTypes ==
  read \in [Saves \union Visits ->
             [visible : Lists, known : SUBSET SidebarPages, pending : BOOLEAN]]

ReadIsRight(a) ==
  /\ IsStored(read[a])
  /\ ~read[a].pending => row.known = TabsOf(TabIds[upgraded])

ReadsAreRight == \A a \in Saves \union Visits : read[a] = NoRead \/ ReadIsRight(a)

(* A tab shows the pages chosen that it has, in the order chosen.          *)
PageIsRight(page) ==
  /\ page.visible \in Lists /\ TabsOf(page.visible) \subseteq TabsOf(page.tabs)
  /\ page.nav \in [Sections -> Lists]
  /\ \A s \in Sections :
       /\ TabsOf(page.nav[s]) = {tab \in TabsOf(page.tabs) : SectionOf[tab] = s}
       /\ Among(page.nav[s], TabsOf(page.visible))
            = Among(page.visible, TabsOf(page.nav[s]))

(* It is of one of those versions, and the row knows its pages.            *)
TabIsRight ==
  /\ PageIsRight(sidebar)
  /\ TabsOf(sidebar.tabs) \subseteq row.known
  /\ \E v \in BOOLEAN : (v => upgraded) /\ sidebar.tabs = TabIds[v]

(* A save is of a choice among the pages of the tab that awaits it, or of  *)
(* the tab as it was before it was loaded anew.                            *)
SaveIsRight(k) ==
  /\ IsChoice(save[k].visible)
  /\ TabsOf(save[k].visible) \subseteq save[k].tabs
  /\ save[k].tabs \subseteq TabsOf(TabIds[upgraded])
  /\ save[k].stage = "sent" \/ (save[k].stage = "answered" /\ save[k].waiting)
  /\ save[k].waiting => save[k].tabs = TabsOf(sidebar.tabs)

SavesAreRight == \A k \in Saves : save[k] = NoSave \/ SaveIsRight(k)

(* The pages known and not visible.                                        *)
HiddenIsRight ==
  ~overwritten => row.known \ TabsOf(row.visible) = hidden \union unseen

(* If no saves have overlapped or failed, and no row was written back too  *)
(* late: the tab shows the row, unless it awaits the one save, which is    *)
(* what the row has of the pages of the tab once the answer is there.      *)
SettledIsRight ==
  ~unsure =>
    /\ \A k, m \in UnderWay : k = m
    /\ \A k \in UnderWay :
         /\ save[k].waiting
         /\ save[k].stage = "answered" =>
              Among(row.visible, TabsOf(sidebar.tabs))
                = Among(save[k].visible, TabsOf(sidebar.tabs))
    /\ UnderWay = {} => sidebar.visible = Among(row.visible, TabsOf(sidebar.tabs))

SidebarIInv ==
  /\ SidebarTypeOK /\ RowIsRight /\ TabIsRight /\ SavesAreRight /\ HiddenIsRight
  /\ SettledIsRight /\ ReadsAreRight

(* The pages of a choice that the tab has are some.                        *)
LEMMA ChoiceMeets ==
  ASSUME NEW list, IsChoice(list), NEW newer \in BOOLEAN
  PROVE  TabsOf(list) \intersect TabsOf(TabIds[newer]) # {}
  BY TabIdsFacts, SidebarAssumption DEF IsChoice

(* What a request makes of a row.                                          *)
LEMMA SettingsFacts ==
  ASSUME NEW former, NEW newer \in BOOLEAN, IsChoice(former.visible),
         TabsOf(former.visible) \subseteq TabsOf(TabIds[newer])
  PROVE  LET values == SettingsForUser(former, newer)
             new == NewTabs(former.visible, former.known, TabIds[newer])
         IN  /\ values = [visible |-> values.visible, known |-> TabsOf(TabIds[newer])]
             /\ IsChoice(values.visible)
             /\ TabsOf(values.visible) = TabsOf(former.visible) \union new
             /\ TabsOf(values.visible) \subseteq TabsOf(TabIds[newer])
             /\ \A set : set \intersect new = {} =>
                  Among(values.visible, set) = Among(former.visible, set)
  <1> DEFINE values == SettingsForUser(former, newer)
             new == NewTabs(former.visible, former.known, TabIds[newer])
  <1>1. TabIds[newer] \in Lists
    BY TabIdsFacts
  <1>2. NormalizeTabs(former.visible, TabIds[newer]) = former.visible
    BY <1>1, NormalizeKeeps
  <1>3. values.visible = AddNewTabs(former.visible, former.known, TabIds[newer])
    BY <1>2 DEF SettingsForUser
  <1>4. former.visible \in Lists
    BY DEF IsChoice
  <1>5. /\ values.visible \in Lists
        /\ TabsOf(values.visible) = TabsOf(former.visible) \union new
        /\ \A set : set \intersect new = {} =>
             Among(values.visible, set) = Among(former.visible, set)
    BY <1>1, <1>3, <1>4, AddIsList
  <1>6. new \subseteq TabsOf(TabIds[newer]) \ TabsOf(former.visible)
    BY DEF NewTabs
  <1>7. values = [visible |-> values.visible, known |-> TabsOf(TabIds[newer])]
    BY DEF SettingsForUser
  <1> HIDE DEF values, new
  <1>8. IsChoice(values.visible)
    BY <1>5 DEF IsChoice
  <1>9. TabsOf(values.visible) \subseteq TabsOf(TabIds[newer])
    BY <1>5, <1>6
  <1>10. QED
    BY <1>5, <1>7, <1>8, <1>9 DEF values, new

(* What it makes of a row of the server: nothing known becomes visible or  *)
(* hidden, or changes its place.                                           *)
LEMMA StoredFacts ==
  ASSUME upgraded \in BOOLEAN, NEW kept, IsStored(kept)
  PROVE  LET values == SettingsForUser(kept, upgraded)
         IN  /\ values = [visible |-> values.visible, known |-> TabsOf(TabIds[upgraded])]
             /\ IsChoice(values.visible)
             /\ TabsOf(values.visible) \subseteq TabsOf(TabIds[upgraded])
             /\ kept.known \subseteq TabsOf(TabIds[upgraded])
             /\ TabsOf(TabIds[upgraded]) \ TabsOf(values.visible)
                  = kept.known \ TabsOf(kept.visible)
             /\ \A set \in SUBSET kept.known :
                  Among(values.visible, set) = Among(kept.visible, set)
  <1> DEFINE values == SettingsForUser(kept, upgraded)
             new == NewTabs(kept.visible, kept.known, TabIds[upgraded])
  <1>1. kept.known # Unset
    <2>1. PICK v \in BOOLEAN : kept.known = TabsOf(TabIds[v])
      BY DEF IsStored
    <2>2. kept.known \in SUBSET SidebarPages
      BY <2>1, TabIdsFacts
    <2>3. QED
      BY <2>2, SidebarAssumption
  <1>2. kept.known \subseteq TabsOf(TabIds[upgraded])
    <2>1. PICK v \in BOOLEAN : (v => upgraded) /\ kept.known = TabsOf(TabIds[v])
      BY DEF IsStored
    <2>2. TabsOf(TabIds[v]) \subseteq TabsOf(TabIds[TRUE])
      BY TabIdsFacts
    <2>3. QED
      BY <2>1, <2>2
  <1>3. IsChoice(kept.visible) /\ TabsOf(kept.visible) \subseteq kept.known
    BY DEF IsStored
  <1>4. new = TabsOf(TabIds[upgraded]) \ kept.known
    BY <1>1, <1>3 DEF NewTabs
  <1>5. TabsOf(kept.visible) \subseteq TabsOf(TabIds[upgraded])
    BY <1>2, <1>3
  <1>6. /\ values = [visible |-> values.visible, known |-> TabsOf(TabIds[upgraded])]
        /\ IsChoice(values.visible)
        /\ TabsOf(values.visible) = TabsOf(kept.visible) \union new
        /\ TabsOf(values.visible) \subseteq TabsOf(TabIds[upgraded])
        /\ \A set : set \intersect new = {} =>
             Among(values.visible, set) = Among(kept.visible, set)
    BY <1>3, <1>5, SettingsFacts
  <1> HIDE DEF values, new
  <1>7. \A set \in SUBSET kept.known :
          Among(values.visible, set) = Among(kept.visible, set)
    BY <1>4, <1>6
  <1>8. TabsOf(TabIds[upgraded]) \ TabsOf(values.visible)
          = kept.known \ TabsOf(kept.visible)
    BY <1>2, <1>3, <1>4, <1>6
  <1>9. QED
    BY <1>2, <1>6, <1>7, <1>8 DEF values

LEMMA RowFacts ==
  ASSUME upgraded \in BOOLEAN, RowIsRight
  PROVE  LET values == SettingsForUser(row, upgraded)
         IN  /\ values = [visible |-> values.visible, known |-> TabsOf(TabIds[upgraded])]
             /\ IsChoice(values.visible)
             /\ TabsOf(values.visible) \subseteq TabsOf(TabIds[upgraded])
             /\ row.known \subseteq TabsOf(TabIds[upgraded])
             /\ TabsOf(TabIds[upgraded]) \ TabsOf(values.visible)
                  = row.known \ TabsOf(row.visible)
             /\ \A set \in SUBSET row.known :
                  Among(values.visible, set) = Among(row.visible, set)
  <1>1. IsStored(row)
    BY DEF RowIsRight, IsStored
  <1>2. QED
    BY <1>1, StoredFacts

(* The navigation of a page just loaded has each section's pages.          *)
LEMMA NavigationFacts ==
  ASSUME NEW newer \in BOOLEAN
  PROVE  /\ Navigation[newer] \in [Sections -> Lists]
         /\ \A s \in Sections :
              TabsOf(Navigation[newer][s])
                = {tab \in TabsOf(TabIds[newer]) : SectionOf[tab] = s}
  <1> DEFINE all == TabIds[newer]
             of(s) == {tab \in TabsOf(all) : SectionOf[tab] = s}
  <1>1. Navigation[newer] = [s \in Sections |-> Among(all, of(s))]
    BY DEF Navigation
  <1>2. all \in Lists
    BY TabIdsFacts
  <1>3. \A s \in Sections :
          Among(all, of(s)) \in Lists /\ TabsOf(Among(all, of(s))) = TabsOf(all) \intersect of(s)
    BY <1>2, AmongIsList
  <1>4. \A s \in Sections : TabsOf(all) \intersect of(s) = of(s)
    OBVIOUS
  <1> HIDE DEF all, of
  <1>5. /\ Navigation[newer] \in [Sections -> Lists]
        /\ \A s \in Sections : TabsOf(Navigation[newer][s]) = of(s)
    BY <1>1, <1>3, <1>4
  <1>6. QED
    BY <1>5 DEF all, of

(* A tab that applies settings is right again, and shows of them what it   *)
(* has.                                                                    *)
LEMMA ApplyFacts ==
  ASSUME NEW tabs \in Lists, NEW nav \in [Sections -> Lists], NEW values,
         values.visible \in Lists, TabsOf(values.visible) \intersect TabsOf(tabs) # {},
         \A s \in Sections :
           TabsOf(nav[s]) = {tab \in TabsOf(tabs) : SectionOf[tab] = s}
  PROVE  LET page == ApplySidebar(tabs, nav, values)
         IN  /\ page.tabs = tabs
             /\ page.visible = Among(values.visible, TabsOf(tabs))
             /\ PageIsRight(page)
  <1> DEFINE page == ApplySidebar(tabs, nav, values)
             visible == Among(values.visible, TabsOf(tabs))
             first(s) == Among(visible, TabsOf(nav[s]))
             second(s) == Without(nav[s], TabsOf(visible))
  <1>1. NormalizeSidebarPages(values.visible, tabs) = visible
    BY NormalizePagesKeeps
  <1>2. visible \in Lists /\ TabsOf(visible) \subseteq TabsOf(tabs)
    BY AmongIsList
  <1>3. /\ page.tabs = tabs /\ page.visible = visible
        /\ page.nav = [s \in Sections |-> Then(first(s), second(s))]
    BY <1>1 DEF ApplySidebar, ApplyPageOrder
  <1> HIDE DEF page, visible
  <1>4. ASSUME NEW s \in Sections
        PROVE  /\ Then(first(s), second(s)) \in Lists
               /\ TabsOf(Then(first(s), second(s))) = TabsOf(nav[s])
               /\ Among(Then(first(s), second(s)), TabsOf(visible))
                    = Among(visible, TabsOf(nav[s]))
    <2> DEFINE both == Then(first(s), second(s))
    <2>1. nav[s] \in Lists
      OBVIOUS
    <2>2. first(s) \in Lists /\ TabsOf(first(s)) = TabsOf(visible) \intersect TabsOf(nav[s])
      BY <1>2, AmongIsList
    <2>3. second(s) \in Lists
          /\ TabsOf(second(s)) = TabsOf(nav[s]) \intersect (TabsOf(nav[s]) \ TabsOf(visible))
      BY <2>1, AmongIsList DEF Without
    <2> HIDE DEF first, second
    <2>4. TabsOf(first(s)) \intersect TabsOf(second(s)) = {}
      BY <2>2, <2>3
    <2>5. /\ both \in Lists
          /\ TabsOf(both) = TabsOf(first(s)) \union TabsOf(second(s))
          /\ Among(both, TabsOf(first(s))) = first(s)
      BY <2>2, <2>3, <2>4, ThenIsList
    <2> HIDE DEF both
    <2>6. TabsOf(both) = TabsOf(nav[s])
      BY <2>2, <2>3, <2>5
    <2>7. TabsOf(both) \intersect TabsOf(visible) = TabsOf(both) \intersect TabsOf(first(s))
      BY <2>2, <2>6
    <2>8. Among(both, TabsOf(visible)) = first(s)
      BY <2>5, <2>7, AmongSame
    <2>9. QED
      BY <2>5, <2>6, <2>8 DEF both, first
  <1> HIDE DEF first, second
  <1>5. page.nav \in [Sections -> Lists]
    BY <1>3, <1>4
  <1>6. \A s \in Sections :
          /\ TabsOf(page.nav[s]) = TabsOf(nav[s])
          /\ Among(page.nav[s], TabsOf(visible)) = Among(visible, TabsOf(nav[s]))
    BY <1>3, <1>4
  <1>7. PageIsRight(page)
    BY <1>2, <1>3, <1>5, <1>6 DEF PageIsRight
  <1>8. QED
    BY <1>3, <1>7 DEF page, visible

LEMMA LoadedFacts ==
  ASSUME NEW newer \in BOOLEAN, NEW values, IsChoice(values.visible)
  PROVE  LET page == LoadedSidebar(values, newer)
         IN  /\ page.tabs = TabIds[newer] /\ page.tabs \in Lists
             /\ page.visible = Among(values.visible, TabsOf(TabIds[newer]))
             /\ PageIsRight(page)
  <1>1. TabIds[newer] \in Lists
    BY TabIdsFacts
  <1>2. TabsOf(values.visible) \intersect TabsOf(TabIds[newer]) # {}
    BY ChoiceMeets
  <1>3. values.visible \in Lists
    BY DEF IsChoice
  <1> DEFINE tabs == TabIds[newer]
             nav == Navigation[newer]
  <1>4. /\ nav \in [Sections -> Lists]
        /\ \A s \in Sections :
             TabsOf(nav[s]) = {tab \in TabsOf(tabs) : SectionOf[tab] = s}
    BY NavigationFacts
  <1>5. LoadedSidebar(values, newer) = ApplySidebar(tabs, nav, values)
    BY DEF LoadedSidebar
  <1> HIDE DEF tabs, nav
  <1>6. tabs \in Lists /\ TabsOf(values.visible) \intersect TabsOf(tabs) # {}
    BY <1>1, <1>2 DEF tabs
  <1> DEFINE page == ApplySidebar(tabs, nav, values)
  <1>7. /\ page.tabs = tabs
        /\ page.visible = Among(values.visible, TabsOf(tabs))
        /\ PageIsRight(page)
    BY <1>3, <1>4, <1>6, ApplyFacts
  <1> HIDE DEF page
  <1>8. page = LoadedSidebar(values, newer) /\ tabs = TabIds[newer]
    BY <1>5 DEF page, tabs
  <1>9. QED
    BY <1>6, <1>7, <1>8

(* The types of what is not a part of the other conjuncts.                 *)
SaveTypes ==
  save \in [Saves -> [stage : {"none", "sent", "answered"}, waiting : BOOLEAN,
                      visible : Lists, tabs : SUBSET SidebarPages]]

LEMMA NoSaveType ==
  NoSave \in [stage : {"none", "sent", "answered"}, waiting : BOOLEAN,
              visible : Lists, tabs : SUBSET SidebarPages]
  <1>1. SIDEBAR_TAB_IDS \in Lists
    BY SidebarAssumption
  <1>2. Among(SIDEBAR_TAB_IDS, {}) = EmptyList
    BY DEF Among, EmptyList
  <1>3. EmptyList \in Lists
    BY <1>1, <1>2, AmongIsList
  <1>4. QED
    BY <1>3 DEF NoSave

LEMMA NoReadType ==
  NoRead \in [visible : Lists, known : SUBSET SidebarPages, pending : BOOLEAN]
  <1>1. EmptyList \in Lists
    BY NoSaveType DEF NoSave
  <1>2. QED
    BY <1>1 DEF NoRead

LEMMA SidebarInitRight ==
  SidebarInit => SidebarIInv
  <1> SUFFICES ASSUME SidebarInit
               PROVE  SidebarIInv
    OBVIOUS
  <1>1. upgraded \in BOOLEAN
    BY DEF SidebarInit
  <1> DEFINE all == TabIds[upgraded]
             old == TabIds[FALSE]
  <1>2. PICK visible \in Lists :
          /\ FIXED_SIDEBAR_TAB_IDS \subseteq TabsOf(visible)
          /\ ~(TabsOf(visible) \subseteq FIXED_SIDEBAR_TAB_IDS)
          /\ TabsOf(visible) \subseteq TabsOf(old)
          /\ row = SettingsForUser([visible |-> visible, known |-> Unset], upgraded)
          /\ hidden = TabsOf(old) \ TabsOf(visible)
    BY DEF SidebarInit
  <1> DEFINE former == [visible |-> visible, known |-> Unset]
             new == NewTabs(visible, Unset, all)
  <1>3. former.visible = visible /\ former.known = Unset
    OBVIOUS
  <1>4. /\ TabsOf(old) \subseteq TabsOf(all) /\ TabsOf(all) \subseteq SidebarPages
        /\ TabsOf(old) = SidebarPages \ SIDEBAR_TABS_ADDED_LATER
        /\ all \in Lists
    BY <1>1, TabIdsFacts
  <1>5. IsChoice(former.visible) /\ TabsOf(former.visible) \subseteq TabsOf(all)
    BY <1>2, <1>3, <1>4 DEF IsChoice
  <1>6. row = SettingsForUser(former, upgraded)
    BY <1>2
  <1> HIDE DEF former
  <1>7. /\ row = [visible |-> row.visible, known |-> TabsOf(all)]
        /\ IsChoice(row.visible)
        /\ TabsOf(row.visible) = TabsOf(visible) \union new
        /\ TabsOf(row.visible) \subseteq TabsOf(all)
    BY <1>1, <1>3, <1>5, <1>6, SettingsFacts
  <1>8. new = TabsOf(all) \ (TabsOf(visible) \union (TabsOf(all) \ SIDEBAR_TABS_ADDED_LATER))
    BY DEF NewTabs
  <1> HIDE DEF new, all, old
  <1>9. row.known = TabsOf(all) /\ row \in [visible : Lists, known : SUBSET SidebarPages]
    BY <1>4, <1>7 DEF IsChoice
  <1>10. RowIsRight
    BY <1>1, <1>7, <1>9 DEF RowIsRight, all
  <1>11. /\ unseen = {} /\ unsure = FALSE /\ overwritten = FALSE /\ sidebar = LoadedSidebar(row, upgraded)
         /\ save = [k \in Saves |-> NoSave]
    BY DEF SidebarInit
  <1>12. HiddenIsRight
    BY <1>2, <1>4, <1>7, <1>8, <1>9, <1>11 DEF HiddenIsRight
  <1>13. /\ sidebar.tabs = all /\ sidebar.tabs \in Lists
         /\ sidebar.visible = Among(row.visible, TabsOf(all))
         /\ PageIsRight(sidebar)
    BY <1>1, <1>7, <1>11, LoadedFacts DEF all
  <1>14. TabIsRight
    BY <1>1, <1>9, <1>13 DEF TabIsRight, all
  <1>15. SavesAreRight /\ UnderWay = {}
    BY <1>11 DEF SavesAreRight, UnderWay
  <1>16. SettledIsRight
    BY <1>13, <1>15 DEF SettledIsRight
  <1>17. SaveTypes
    BY <1>11, NoSaveType DEF SaveTypes
  <1>18. hidden \subseteq SidebarPages
    BY <1>2, <1>4
  <1>19. read = [a \in Saves \union Visits |-> NoRead]
    BY DEF SidebarInit
  <1>20. ReadTypes /\ ReadsAreRight
    BY <1>19, NoReadType DEF ReadTypes, ReadsAreRight
  <1>21. SidebarTypeOK
    BY <1>1, <1>9, <1>11, <1>13, <1>17, <1>18, <1>20
       DEF SidebarTypeOK, SaveTypes, ReadTypes, PageIsRight
  <1>22. QED
    BY <1>10, <1>12, <1>14, <1>15, <1>16, <1>20, <1>21 DEF SidebarIInv

LEMMA UpgradeKeeps ==
  ASSUME SidebarIInv, Upgrade
  PROVE  SidebarIInv'
  <1>1. /\ upgraded' = TRUE /\ \A a \in Saves \union Visits : read[a] = NoRead
        /\ UNCHANGED <<row, sidebar, save, read, hidden, unseen, unsure, overwritten>>
    BY DEF Upgrade, history
  <1>2. upgraded \in BOOLEAN /\ TabsOf(TabIds[upgraded]) \subseteq TabsOf(TabIds[TRUE])
    BY TabIdsFacts DEF SidebarIInv, SidebarTypeOK
  <1>3. SidebarTypeOK'
    BY <1>1 DEF SidebarIInv, SidebarTypeOK
  <1>4. RowIsRight' /\ TabIsRight'
    BY <1>1 DEF SidebarIInv, RowIsRight, TabIsRight, PageIsRight
  <1>5. ASSUME NEW k \in Saves
        PROVE  (save[k] = NoSave \/ SaveIsRight(k))'
    <2>1. save[k] = NoSave \/ SaveIsRight(k)
      BY DEF SidebarIInv, SavesAreRight
    <2>2. SaveIsRight(k) => SaveIsRight(k)'
      BY <1>1, <1>2 DEF SaveIsRight
    <2>3. QED
      BY <1>1, <2>1, <2>2
  <1>6. HiddenIsRight' /\ SettledIsRight'
    BY <1>1 DEF SidebarIInv, HiddenIsRight, SettledIsRight, UnderWay
  <1>7. ReadsAreRight'
    BY <1>1 DEF ReadsAreRight
  <1>8. QED
    BY <1>3, <1>4, <1>5, <1>6, <1>7 DEF SidebarIInv, SavesAreRight

(* The pages of the tab and of a save are the server's, and a save that is *)
(* sent is right.                                                          *)
LEMMA SaveFacts ==
  ASSUME SidebarIInv
  PROVE  /\ upgraded \in BOOLEAN /\ SaveTypes
         /\ sidebar.tabs \in Lists
         /\ TabsOf(sidebar.tabs) \subseteq TabsOf(TabIds[upgraded])
         /\ TabsOf(TabIds[upgraded]) \subseteq SidebarPages
         /\ TabIds[upgraded] \in Lists
         /\ \A k \in Saves : save[k].stage # "none" => SaveIsRight(k)
         /\ \A k \in Saves : save[k].waiting => SaveIsRight(k)
  <1>1. /\ upgraded \in BOOLEAN /\ SaveTypes /\ sidebar.tabs \in Lists /\ TabIsRight
        /\ SavesAreRight
    BY DEF SidebarIInv, SidebarTypeOK, SaveTypes
  <1>2. PICK v \in BOOLEAN : (v => upgraded) /\ sidebar.tabs = TabIds[v]
    BY <1>1 DEF TabIsRight
  <1>3. TabsOf(TabIds[v]) \subseteq TabsOf(TabIds[upgraded])
    <2>1. CASE v = TRUE
      BY <1>1, <1>2, <2>1
    <2>2. CASE v = FALSE
      BY <1>1, <2>2, TabIdsFacts
    <2>3. QED
      BY <2>1, <2>2
  <1>4. TabsOf(TabIds[upgraded]) \subseteq SidebarPages /\ TabIds[upgraded] \in Lists
    BY <1>1, TabIdsFacts
  <1>5. NoSave.stage = "none" /\ NoSave.waiting = FALSE
    BY DEF NoSave
  <1>6. QED
    BY <1>1, <1>2, <1>3, <1>4, <1>5 DEF SavesAreRight

(* Steps that change nothing but what is read, or not even that.           *)
LEMMA ReadsStay ==
  ASSUME ReadsAreRight, UNCHANGED <<upgraded, row, read>>
  PROVE  ReadsAreRight'
  BY DEF ReadsAreRight, ReadIsRight, IsStored

LEMMA ReadForgotten ==
  ASSUME ReadTypes, ReadsAreRight, UNCHANGED <<upgraded, row>>,
         NEW a \in Saves \union Visits, read' = [read EXCEPT ![a] = NoRead]
  PROVE  ReadTypes' /\ ReadsAreRight'
  <1>1. ReadTypes'
    BY NoReadType DEF ReadTypes
  <1>2. /\ read'[a] = NoRead
        /\ \A b \in (Saves \union Visits) \ {a} : read'[b] = read[b]
    BY DEF ReadTypes
  <1>3. QED
    BY <1>1, <1>2 DEF ReadsAreRight, ReadIsRight, IsStored

LEMMA RestStays ==
  ASSUME SidebarIInv, ReadTypes', ReadsAreRight',
         UNCHANGED <<upgraded, row, sidebar, save, hidden, unseen, unsure, overwritten>>
  PROVE  SidebarIInv'
  <1>1. SidebarTypeOK'
    BY DEF SidebarIInv, SidebarTypeOK, ReadTypes
  <1>2. RowIsRight' /\ TabIsRight' /\ HiddenIsRight'
    BY DEF SidebarIInv, RowIsRight, TabIsRight, PageIsRight, HiddenIsRight
  <1>3. SavesAreRight' /\ SettledIsRight'
    BY DEF SidebarIInv, SavesAreRight, SaveIsRight, SettledIsRight, UnderWay
  <1>4. QED
    BY <1>1, <1>2, <1>3 DEF SidebarIInv

LEMMA ReadKeeps ==
  ASSUME SidebarIInv, NEW a \in Saves \union Visits, ReadSettings(a)
  PROVE  SidebarIInv'
  <1> DEFINE found == [visible |-> row.visible, known |-> row.known,
                       pending |-> SettingsForUser(row, upgraded) # row]
  <1>1. /\ read' = [read EXCEPT ![a] = found]
        /\ UNCHANGED <<upgraded, row, sidebar, save, hidden, unseen, unsure, overwritten>>
    BY DEF ReadSettings, history
  <1>2. /\ upgraded \in BOOLEAN /\ row \in [visible : Lists, known : SUBSET SidebarPages]
        /\ RowIsRight /\ ReadTypes /\ ReadsAreRight
    BY DEF SidebarIInv, SidebarTypeOK, ReadTypes
  <1>3. /\ found.visible = row.visible /\ found.known = row.known
        /\ found.pending <=> SettingsForUser(row, upgraded) # row
        /\ found \in [visible : Lists, known : SUBSET SidebarPages, pending : BOOLEAN]
    BY <1>2
  <1>4. ~found.pending => row.known = TabsOf(TabIds[upgraded])
    BY <1>3 DEF SettingsForUser
  <1>5. IsStored(found)
    BY <1>2, <1>3 DEF RowIsRight, IsStored
  <1> HIDE DEF found
  <1>6. ReadTypes'
    BY <1>1, <1>2, <1>3 DEF ReadTypes
  <1>7. /\ read'[a] = found
        /\ \A b \in (Saves \union Visits) \ {a} : read'[b] = read[b]
    BY <1>1, <1>2 DEF ReadTypes
  <1>8. ReadIsRight(a)'
    BY <1>1, <1>4, <1>5, <1>7 DEF ReadIsRight, IsStored
  <1>9. ReadsAreRight'
    BY <1>1, <1>2, <1>7, <1>8 DEF ReadsAreRight, ReadIsRight, IsStored
  <1>10. QED
    BY <1>1, <1>6, <1>9, RestStays

LEMMA VisitLostKeeps ==
  ASSUME SidebarIInv, NEW v \in Visits, VisitLost(v)
  PROVE  SidebarIInv'
  <1>1. ReadTypes' /\ ReadsAreRight'
    BY ReadForgotten DEF VisitLost, SidebarIInv, SidebarTypeOK, ReadTypes
  <1>2. QED
    BY <1>1, RestStays DEF VisitLost, history

(* A row written back knows every page; unless it had been changed in      *)
(* between, nothing known has become visible or hidden or changed place.   *)
LEMMA StoreKeeps ==
  ASSUME SidebarIInv, NEW a \in Saves \union Visits, StoreNormalized(a)
  PROVE  SidebarIInv'
  <1> DEFINE all == TabIds[upgraded]
             values == SettingsForUser(read[a], upgraded)
             now == SettingsForUser(row, upgraded)
             left == IF a \in Saves THEN NoRead
                     ELSE [visible |-> values.visible, known |-> values.known,
                           pending |-> FALSE]
  <1>1. /\ read[a].pending /\ row' = values /\ read' = [read EXCEPT ![a] = left]
        /\ overwritten' = (overwritten \/ now # values)
        /\ unsure' = (unsure \/ now # values)
        /\ UNCHANGED <<upgraded, sidebar, save, hidden, unseen>>
    BY DEF StoreNormalized, Overtaken
  <1>2. /\ upgraded \in BOOLEAN /\ RowIsRight /\ ReadTypes /\ ReadsAreRight
        /\ HiddenIsRight /\ SettledIsRight /\ TabIsRight /\ SavesAreRight
        /\ TabsOf(all) \subseteq SidebarPages
        /\ TabsOf(sidebar.tabs) \subseteq TabsOf(all)
    BY SaveFacts DEF SidebarIInv, SidebarTypeOK, ReadTypes
  <1>3. IsStored(read[a])
    BY <1>1, <1>2 DEF ReadsAreRight, ReadIsRight, NoRead
  <1>4. /\ values = [visible |-> values.visible, known |-> TabsOf(all)]
        /\ IsChoice(values.visible)
        /\ TabsOf(values.visible) \subseteq TabsOf(all)
    BY <1>2, <1>3, StoredFacts
  <1>5. /\ TabsOf(all) \ TabsOf(now.visible) = row.known \ TabsOf(row.visible)
        /\ \A set \in SUBSET row.known :
             Among(now.visible, set) = Among(row.visible, set)
    BY <1>2, RowFacts
  <1>6. values.visible \in Lists /\ values.known = TabsOf(all)
    BY <1>4 DEF IsChoice
  <1>7. /\ left \in [visible : Lists, known : SUBSET SidebarPages, pending : BOOLEAN]
        /\ left = NoRead \/ (left.visible = values.visible /\ left.known = TabsOf(all))
    BY <1>2, <1>6, NoReadType
  <1> HIDE DEF all, values, now, left
  <1>8. row' \in [visible : Lists, known : SUBSET SidebarPages] /\ row'.known = TabsOf(all)
    BY <1>1, <1>2, <1>4, <1>6
  <1>9. ReadTypes'
    BY <1>1, <1>2, <1>7 DEF ReadTypes
  <1>10. SidebarTypeOK'
    BY <1>1, <1>8, <1>9 DEF SidebarIInv, SidebarTypeOK, ReadTypes
  <1>11. RowIsRight'
    BY <1>1, <1>2, <1>4, <1>8 DEF RowIsRight, all
  <1>12. TabIsRight'
    BY <1>1, <1>2, <1>8 DEF TabIsRight, PageIsRight
  <1>13. SavesAreRight'
    BY <1>1, <1>2 DEF SavesAreRight, SaveIsRight
  <1>14. HiddenIsRight'
    BY <1>1, <1>2, <1>5, <1>6 DEF HiddenIsRight
  <1>15. SettledIsRight'
    <2>1. SUFFICES ASSUME ~unsure, now = values
                   PROVE  SettledIsRight'
      BY <1>1 DEF SettledIsRight
    <2>2. TabsOf(sidebar.tabs) \in SUBSET row.known
      BY <1>2 DEF TabIsRight
    <2>3. Among(row'.visible, TabsOf(sidebar.tabs)) = Among(row.visible, TabsOf(sidebar.tabs))
      BY <1>1, <1>5, <2>1, <2>2
    <2>4. UnderWay' = UnderWay
      BY <1>1 DEF UnderWay
    <2>5. QED
      BY <1>1, <1>2, <2>1, <2>3, <2>4 DEF SettledIsRight
  <1>16. /\ read'[a] = left
         /\ \A b \in (Saves \union Visits) \ {a} : read'[b] = read[b]
    BY <1>1, <1>2 DEF ReadTypes
  <1>17. read'[a] = NoRead \/ ReadIsRight(a)'
    BY <1>1, <1>2, <1>4, <1>7, <1>8, <1>16 DEF ReadIsRight, IsStored, all
  <1>18. ASSUME NEW b \in (Saves \union Visits) \ {a}
         PROVE  read'[b] = NoRead \/ ReadIsRight(b)'
    BY <1>1, <1>2, <1>8, <1>16 DEF ReadsAreRight, ReadIsRight, IsStored, all
  <1>19. ReadsAreRight'
    BY <1>17, <1>18 DEF ReadsAreRight
  <1>20. QED
    BY <1>10, <1>11, <1>12, <1>13, <1>14, <1>15, <1>19 DEF SidebarIInv

LEMMA ReloadKeeps ==
  ASSUME SidebarIInv, NEW v \in Visits, ReloadSidebar(v)
  PROVE  SidebarIInv'
  <1> DEFINE all == TabIds[upgraded]
             values == SettingsForUser(read[v], upgraded)
             now == SettingsForUser(row, upgraded)
  <1>1. /\ read[v] # NoRead /\ ~read[v].pending
        /\ sidebar' = LoadedSidebar(values, upgraded)
        /\ read' = [read EXCEPT ![v] = NoRead]
        /\ save' = [k \in Saves |-> IF save[k].stage = "sent"
                                      THEN [save[k] EXCEPT !.waiting = FALSE] ELSE NoSave]
        /\ unsure' = ((\E k \in Saves : save[k].stage = "sent") \/ now # values)
        /\ UNCHANGED <<upgraded, row, hidden, unseen, overwritten>>
    BY DEF ReloadSidebar, Overtaken
  <1>2. /\ upgraded \in BOOLEAN /\ SaveTypes /\ RowIsRight /\ HiddenIsRight
        /\ ReadTypes /\ ReadsAreRight
    BY DEF SidebarIInv, SidebarTypeOK, SaveTypes, ReadTypes
  <1>3. IsStored(read[v]) /\ row.known = TabsOf(all)
    BY <1>1, <1>2 DEF ReadsAreRight, ReadIsRight
  <1>4. IsChoice(values.visible)
    BY <1>2, <1>3, StoredFacts
  <1>5. /\ IsChoice(now.visible) /\ TabsOf(now.visible) \subseteq TabsOf(all)
        /\ Among(now.visible, TabsOf(all)) = Among(row.visible, TabsOf(all))
    BY <1>2, <1>3, RowFacts
  <1>6. /\ sidebar'.tabs = all /\ sidebar'.tabs \in Lists
        /\ sidebar'.visible = Among(values.visible, TabsOf(all))
        /\ PageIsRight(sidebar')
    BY <1>1, <1>2, <1>4, LoadedFacts
  <1>7. SaveTypes'
    BY <1>1, <1>2, NoSaveType DEF SaveTypes
  <1>8. ReadTypes' /\ ReadsAreRight'
    BY <1>1, <1>2, ReadForgotten
  <1>9. SidebarTypeOK'
    BY <1>1, <1>6, <1>7, <1>8
       DEF SidebarTypeOK, SaveTypes, ReadTypes, PageIsRight, SidebarIInv
  <1>10. RowIsRight' /\ HiddenIsRight'
    BY <1>1, <1>2 DEF RowIsRight, HiddenIsRight
  <1>11. TabIsRight'
    BY <1>1, <1>2, <1>3, <1>6 DEF TabIsRight, PageIsRight
  <1>12. ASSUME NEW k \in Saves
         PROVE  (save[k] = NoSave \/ SaveIsRight(k))'
    <2>1. CASE save[k].stage = "sent"
      <3>1. SaveIsRight(k)
        BY <2>1 DEF SidebarIInv, SavesAreRight, NoSave
      <3>2. /\ save'[k].visible = save[k].visible /\ save'[k].tabs = save[k].tabs
            /\ save'[k].stage = "sent" /\ save'[k].waiting = FALSE
        BY <1>1, <1>2, <2>1 DEF SaveTypes
      <3>3. QED
        BY <1>1, <3>1, <3>2 DEF SaveIsRight
    <2>2. CASE save[k].stage # "sent"
      BY <1>1, <2>2
    <2>3. QED
      BY <2>1, <2>2
  <1> HIDE DEF values, now
  <1>13. SettledIsRight'
    <2>1. ASSUME ~unsure'
          PROVE  UnderWay' = {} /\ now = values
      BY <1>1, <2>1 DEF UnderWay
    <2>2. ~unsure' => sidebar'.visible = Among(row'.visible, TabsOf(sidebar'.tabs))
      BY <1>1, <1>5, <1>6, <2>1
    <2>3. QED
      BY <2>1, <2>2 DEF SettledIsRight
  <1>14. QED
    BY <1>8, <1>9, <1>10, <1>11, <1>12, <1>13 DEF SidebarIInv, SavesAreRight

LEMMA SaveKeeps ==
  ASSUME SidebarIInv, NEW k \in Saves, SaveSidebarSettings(k)
  PROVE  SidebarIInv'
  <1>1. PICK selected \in Selections :
          /\ TabsOf(selected) \subseteq TabsOf(sidebar.tabs)
          /\ FIXED_SIDEBAR_TAB_IDS \subseteq TabsOf(selected)
          /\ ~(TabsOf(selected) \subseteq FIXED_SIDEBAR_TAB_IDS)
          /\ save' = [save EXCEPT ![k] =
                       [stage |-> "sent", waiting |-> TRUE, tabs |-> TabsOf(sidebar.tabs),
                        visible |-> NormalizeSidebarPages(selected, sidebar.tabs)]]
    BY DEF SaveSidebarSettings
  <1>2. /\ save[k] = NoSave /\ unsure' = (unsure \/ UnderWay # {})
        /\ UNCHANGED <<upgraded, row, sidebar, read, hidden, unseen, overwritten>>
    BY DEF SaveSidebarSettings
  <1>3. selected \in Lists
    <2>1. PICK list \in Lists, checked \in SUBSET SidebarPages :
            selected = Among(list, checked \union FIXED_SIDEBAR_TAB_IDS)
      BY DEF Selections
    <2>2. QED
      BY <2>1, AmongIsList
  <1>4. IsChoice(selected)
    BY <1>1, <1>3 DEF IsChoice
  <1>5. NormalizeSidebarPages(selected, sidebar.tabs) = selected
    <2>1. TabsOf(selected) \intersect TabsOf(sidebar.tabs) # {}
      BY <1>1, SidebarAssumption
    <2>2. Among(selected, TabsOf(sidebar.tabs)) = selected
      BY <1>1, <1>3, AmongAll
    <2>3. QED
      BY <1>3, <2>1, <2>2, SaveFacts, NormalizePagesKeeps
  <1> DEFINE sent == [stage |-> "sent", waiting |-> TRUE, tabs |-> TabsOf(sidebar.tabs),
                      visible |-> selected]
  <1>6. save' = [save EXCEPT ![k] = sent]
    BY <1>1, <1>5
  <1>7. /\ sent.stage = "sent" /\ sent.waiting = TRUE /\ sent.tabs = TabsOf(sidebar.tabs)
        /\ sent.visible = selected
        /\ sent \in [stage : {"none", "sent", "answered"}, waiting : BOOLEAN,
                     visible : Lists, tabs : SUBSET SidebarPages]
    BY <1>3, SaveFacts
  <1> HIDE DEF sent
  <1>8. save'[k] = sent /\ \A m \in Saves \ {k} : save'[m] = save[m]
    BY <1>6, SaveFacts DEF SaveTypes
  <1>9. SaveTypes'
    BY <1>6, <1>7, SaveFacts DEF SaveTypes
  <1>10. SidebarTypeOK'
    BY <1>2, <1>9 DEF SidebarIInv, SidebarTypeOK, SaveTypes
  <1>11. RowIsRight' /\ TabIsRight' /\ HiddenIsRight'
    BY <1>2 DEF SidebarIInv, RowIsRight, TabIsRight, PageIsRight, HiddenIsRight
  <1>12. SaveIsRight(k)'
    BY <1>1, <1>2, <1>4, <1>7, <1>8, SaveFacts DEF SaveIsRight
  <1>13. ASSUME NEW m \in Saves \ {k}
         PROVE  (save[m] = NoSave \/ SaveIsRight(m))'
    BY <1>2, <1>8 DEF SidebarIInv, SavesAreRight, SaveIsRight
  <1>14. SavesAreRight'
    BY <1>12, <1>13 DEF SavesAreRight
  <1>15. SettledIsRight'
    <2>1. SUFFICES ASSUME ~unsure'
                   PROVE  SettledIsRight'
      BY DEF SettledIsRight
    <2>2. \A m \in Saves : save[m] = NoSave
      BY <1>2, <2>1 DEF UnderWay
    <2>3. UnderWay' = {k}
      <3>1. NoSave.stage = "none"
        BY DEF NoSave
      <3>2. save'[k] # NoSave
        BY <1>7, <1>8, <3>1
      <3>3. \A m \in Saves \ {k} : save'[m] = NoSave
        BY <1>8, <2>2
      <3>4. QED
        BY <3>2, <3>3 DEF UnderWay
    <2>4. UnderWay' # {} /\ save'[k].waiting /\ save'[k].stage = "sent"
      BY <1>7, <1>8, <2>3
    <2>5. QED
      BY <2>3, <2>4 DEF SettledIsRight
  <1>16. ReadsAreRight'
    BY <1>2, ReadsStay DEF SidebarIInv
  <1>17. QED
    BY <1>10, <1>11, <1>14, <1>15, <1>16 DEF SidebarIInv

LEMMA PostKeeps ==
  ASSUME SidebarIInv, NEW k \in Saves, PostSettings(k)
  PROVE  SidebarIInv'
  <1> DEFINE all == TabIds[upgraded]
             answered == [save[k] EXCEPT !.stage = "answered"]
             next == IF save[k].waiting THEN answered ELSE NoSave
  <1>1. save[k].stage = "sent" /\ SaveIsRight(k)
    BY SaveFacts DEF PostSettings
  <1>2. /\ upgraded \in BOOLEAN /\ SaveTypes /\ all \in Lists
        /\ TabsOf(all) \subseteq SidebarPages
        /\ TabsOf(sidebar.tabs) \subseteq TabsOf(all)
    BY SaveFacts
  <1>3. NormalizeTabs(save[k].visible, all) = save[k].visible
    BY <1>1, <1>2, NormalizeKeeps DEF SaveIsRight
  <1>4. [save[k] EXCEPT !.stage = "answered", !.visible = save[k].visible] = answered
    BY <1>2 DEF SaveTypes
  <1>5. /\ row' = [visible |-> save[k].visible, known |-> TabsOf(all)]
        /\ save' = [save EXCEPT ![k] = next]
        /\ hidden' = save[k].tabs \ TabsOf(save[k].visible)
        /\ unseen' = TabsOf(all) \ save[k].tabs
        /\ overwritten' = FALSE /\ UNCHANGED <<upgraded, sidebar, read, unsure>>
    BY <1>3, <1>4 DEF PostSettings
  <1>6. row'.visible = save[k].visible /\ row'.known = TabsOf(all)
    BY <1>5
  <1>7. /\ IsChoice(save[k].visible) /\ save[k].visible \in Lists
        /\ TabsOf(save[k].visible) \subseteq save[k].tabs /\ save[k].tabs \subseteq TabsOf(all)
    BY <1>1 DEF SaveIsRight, IsChoice
  <1>8. /\ answered.stage = "answered" /\ answered.waiting = save[k].waiting
        /\ answered.visible = save[k].visible /\ answered.tabs = save[k].tabs
        /\ answered \in [stage : {"none", "sent", "answered"}, waiting : BOOLEAN,
                         visible : Lists, tabs : SUBSET SidebarPages]
    BY <1>2 DEF SaveTypes
  <1> HIDE DEF answered, all
  <1>9. save'[k] = next /\ \A m \in Saves \ {k} : save'[m] = save[m]
    BY <1>2, <1>5 DEF SaveTypes
  <1>10. SaveTypes'
    BY <1>2, <1>5, <1>8, NoSaveType DEF SaveTypes
  <1>11. row' \in [visible : Lists, known : SUBSET SidebarPages]
    BY <1>2, <1>5, <1>7
  <1>12. hidden' \subseteq SidebarPages /\ unseen' \subseteq SidebarPages
    BY <1>2, <1>5, <1>7
  <1>13. SidebarTypeOK'
    BY <1>5, <1>10, <1>11, <1>12 DEF SidebarIInv, SidebarTypeOK, SaveTypes
  <1>14. RowIsRight'
    BY <1>2, <1>5, <1>6, <1>7 DEF RowIsRight, all
  <1>15. TabIsRight'
    BY <1>2, <1>5, <1>6 DEF SidebarIInv, TabIsRight, PageIsRight
  <1>16. HiddenIsRight'
    BY <1>5, <1>6, <1>7 DEF HiddenIsRight
  <1>17. (save[k] = NoSave \/ SaveIsRight(k))'
    <2>1. CASE save[k].waiting
      <3>1. save'[k] = answered
        BY <1>9, <2>1
      <3>2. QED
        BY <1>1, <1>5, <1>8, <2>1, <3>1 DEF SaveIsRight, all
    <2>2. CASE ~save[k].waiting
      BY <1>9, <2>2
    <2>3. QED
      BY <2>1, <2>2
  <1>18. ASSUME NEW m \in Saves \ {k}
         PROVE  (save[m] = NoSave \/ SaveIsRight(m))'
    BY <1>5, <1>9 DEF SidebarIInv, SavesAreRight, SaveIsRight
  <1>19. SavesAreRight'
    BY <1>17, <1>18 DEF SavesAreRight
  <1>20. SettledIsRight'
    <2>1. SUFFICES ASSUME ~unsure
                   PROVE  SettledIsRight'
      BY <1>5 DEF SettledIsRight
    <2>2. k \in UnderWay
      BY <1>1 DEF UnderWay, NoSave
    <2>3. save[k].waiting /\ \A m \in UnderWay : m = k
      BY <2>1, <2>2 DEF SidebarIInv, SettledIsRight
    <2>4. save'[k] = answered /\ \A m \in Saves \ {k} : save'[m] = NoSave
      BY <1>9, <2>3 DEF UnderWay
    <2>5. answered # NoSave
      BY <1>8 DEF NoSave
    <2>6. UnderWay' = {k}
      BY <2>4, <2>5 DEF UnderWay
    <2>7. k \in UnderWay' /\ save'[k].waiting /\ row'.visible = save'[k].visible
      BY <1>6, <1>8, <2>3, <2>4, <2>6
    <2>8. UnderWay' # {}
      BY <2>6
    <2>9. QED
      BY <2>6, <2>7, <2>8 DEF SettledIsRight
  <1>21. ReadsAreRight'
    BY <1>5, <1>6 DEF SidebarIInv, ReadsAreRight, ReadIsRight, IsStored, all
  <1>22. QED
    BY <1>13, <1>14, <1>15, <1>16, <1>19, <1>20, <1>21 DEF SidebarIInv

LEMMA SettingsSavedKeeps ==
  ASSUME SidebarIInv, NEW k \in Saves, SettingsSaved(k)
  PROVE  SidebarIInv'
  <1>1. /\ save[k].stage = "answered"
        /\ sidebar' = ApplySidebar(sidebar.tabs, sidebar.nav, save[k])
        /\ save' = [save EXCEPT ![k] = NoSave]
        /\ UNCHANGED <<upgraded, row, read, hidden, unseen, unsure, overwritten>>
    BY DEF SettingsSaved, history
  <1>2. SaveIsRight(k) /\ SaveTypes /\ sidebar.tabs \in Lists /\ TabIsRight /\ upgraded \in BOOLEAN
    BY <1>1, SaveFacts DEF SidebarIInv
  <1>3. TabsOf(save[k].visible) \intersect TabsOf(sidebar.tabs) # {}
    <2>1. TabsOf(save[k].visible) \subseteq TabsOf(sidebar.tabs)
      BY <1>1, <1>2 DEF SaveIsRight
    <2>2. QED
      BY <1>2, <2>1, SidebarAssumption DEF SaveIsRight, IsChoice
  <1>4. /\ sidebar'.tabs = sidebar.tabs
        /\ sidebar'.visible = Among(save[k].visible, TabsOf(sidebar.tabs))
        /\ PageIsRight(sidebar')
    <2>1. /\ sidebar.nav \in [Sections -> Lists]
          /\ \A s \in Sections :
               TabsOf(sidebar.nav[s]) = {tab \in TabsOf(sidebar.tabs) : SectionOf[tab] = s}
      BY <1>2 DEF TabIsRight, PageIsRight
    <2>2. save[k].visible \in Lists
      BY <1>2 DEF SaveIsRight, IsChoice
    <2>3. QED
      BY <1>1, <1>2, <1>3, <2>1, <2>2, ApplyFacts
  <1>5. save'[k] = NoSave /\ \A m \in Saves \ {k} : save'[m] = save[m]
    BY <1>1, <1>2 DEF SaveTypes
  <1>6. SaveTypes'
    BY <1>1, <1>2, NoSaveType DEF SaveTypes
  <1>7. SidebarTypeOK'
    BY <1>1, <1>2, <1>4, <1>6 DEF SidebarIInv, SidebarTypeOK, SaveTypes, PageIsRight
  <1>8. RowIsRight' /\ HiddenIsRight'
    BY <1>1 DEF SidebarIInv, RowIsRight, HiddenIsRight
  <1>9. TabIsRight'
    BY <1>1, <1>2, <1>4 DEF TabIsRight, PageIsRight
  <1>10. SavesAreRight'
    <2>1. ASSUME NEW m \in Saves \ {k}
          PROVE  (save[m] = NoSave \/ SaveIsRight(m))'
      BY <1>1, <1>4, <1>5 DEF SidebarIInv, SavesAreRight, SaveIsRight
    <2>2. QED
      BY <1>5, <2>1 DEF SavesAreRight
  <1>11. SettledIsRight'
    <2>1. SUFFICES ASSUME ~unsure
                   PROVE  SettledIsRight'
      BY <1>1 DEF SettledIsRight
    <2>2. k \in UnderWay
      BY <1>1 DEF UnderWay, NoSave
    <2>3. /\ Among(row.visible, TabsOf(sidebar.tabs))
               = Among(save[k].visible, TabsOf(sidebar.tabs))
          /\ \A m \in UnderWay : m = k
      BY <1>1, <2>1, <2>2 DEF SidebarIInv, SettledIsRight
    <2>4. UnderWay' = {}
      BY <1>5, <2>3 DEF UnderWay
    <2>5. QED
      BY <1>1, <1>4, <2>3, <2>4 DEF SettledIsRight
  <1>12. ReadsAreRight'
    BY <1>1, ReadsStay DEF SidebarIInv
  <1>13. QED
    BY <1>7, <1>8, <1>9, <1>10, <1>11, <1>12 DEF SidebarIInv

(* A save that is given up, here or on its way: the rest is as it was.     *)
LEMMA GivenUpKeeps ==
  ASSUME SidebarIInv, NEW k \in Saves, NEW next,
         save' = [save EXCEPT ![k] = next],
         \/ next = NoSave
         \/ save[k].stage = "sent" /\ next = [save[k] EXCEPT !.waiting = FALSE],
         read' = read \/ read' = [read EXCEPT ![k] = NoRead],
         UNCHANGED <<upgraded, row, sidebar, hidden, unseen, overwritten>>,
         unsure' \in BOOLEAN, unsure'
  PROVE  SidebarIInv'
  <1>0. ReadTypes' /\ ReadsAreRight'
    <2>1. ReadTypes /\ ReadsAreRight
      BY DEF SidebarIInv, SidebarTypeOK, ReadTypes
    <2>2. QED
      BY <2>1, ReadsStay, ReadForgotten DEF ReadTypes
  <1>1. SaveTypes
    BY SaveFacts
  <1>2. save'[k] = next /\ \A m \in Saves \ {k} : save'[m] = save[m]
    BY <1>1 DEF SaveTypes
  <1>3. CASE next = NoSave
    <2>1. SaveTypes'
      BY <1>1, <1>3, NoSaveType DEF SaveTypes
    <2>2. SavesAreRight'
      BY <1>2, <1>3 DEF SidebarIInv, SavesAreRight, SaveIsRight
    <2>3. QED
      BY <1>0, <2>1, <2>2 DEF SidebarIInv, SidebarTypeOK, SaveTypes, ReadTypes, RowIsRight,
                              TabIsRight, PageIsRight, HiddenIsRight, SettledIsRight
  <1>4. CASE save[k].stage = "sent" /\ next = [save[k] EXCEPT !.waiting = FALSE]
    <2>1. SaveIsRight(k)
      BY <1>4, SaveFacts
    <2>2. /\ next.visible = save[k].visible /\ next.tabs = save[k].tabs
          /\ next.stage = "sent" /\ next.waiting = FALSE
      BY <1>1, <1>4 DEF SaveTypes
    <2>3. SaveTypes'
      BY <1>1, <1>4 DEF SaveTypes
    <2>4. SaveIsRight(k)'
      BY <1>2, <2>1, <2>2 DEF SaveIsRight
    <2>5. SavesAreRight'
      BY <1>2, <2>4 DEF SidebarIInv, SavesAreRight, SaveIsRight
    <2>6. QED
      BY <1>0, <2>3, <2>5 DEF SidebarIInv, SidebarTypeOK, SaveTypes, ReadTypes, RowIsRight,
                              TabIsRight, PageIsRight, HiddenIsRight, SettledIsRight
  <1>5. QED
    BY <1>3, <1>4

LEMMA SidebarNextKeeps ==
  SidebarIInv /\ [SidebarNext]_sidebarVars => SidebarIInv'
  <1> SUFFICES ASSUME SidebarIInv, [SidebarNext]_sidebarVars
               PROVE  SidebarIInv'
    OBVIOUS
  <1>1. CASE Upgrade
    BY <1>1, UpgradeKeeps
  <1>2. ASSUME NEW a \in Saves \union Visits, ReadSettings(a) \/ StoreNormalized(a)
        PROVE  SidebarIInv'
    BY <1>2, ReadKeeps, StoreKeeps
  <1>3. ASSUME NEW k \in Saves, SaveSidebarSettings(k)
        PROVE  SidebarIInv'
    BY <1>3, SaveKeeps
  <1>4. ASSUME NEW k \in Saves, PostSettings(k)
        PROVE  SidebarIInv'
    BY <1>4, PostKeeps
  <1>5. ASSUME NEW k \in Saves, SettingsSaved(k)
        PROVE  SidebarIInv'
    BY <1>5, SettingsSavedKeeps
  <1>6. ASSUME NEW k \in Saves, SaveFails(k)
        PROVE  SidebarIInv'
    <2>1. SaveIsRight(k) /\ save[k].stage \in {"sent", "answered"}
      BY <1>6, SaveFacts DEF SaveFails, SaveIsRight
    <2>2. CASE save[k].stage = "answered"
      <3>1. save' = [save EXCEPT ![k] = NoSave]
        BY <1>6, <2>2 DEF SaveFails
      <3>2. QED
        BY <1>6, <3>1, GivenUpKeeps DEF SaveFails
    <2>3. CASE save[k].stage = "sent"
      <3>1. save' = [save EXCEPT ![k] = [save[k] EXCEPT !.waiting = FALSE]]
        BY <1>6, <2>3 DEF SaveFails
      <3>2. QED
        BY <1>6, <2>3, <3>1, GivenUpKeeps DEF SaveFails
    <2>4. QED
      BY <2>1, <2>2, <2>3
  <1>7. ASSUME NEW k \in Saves, RequestLost(k)
        PROVE  SidebarIInv'
    <2>1. save' = [save EXCEPT ![k] = NoSave] /\ UNCHANGED unsure
      BY <1>7 DEF RequestLost, history
    <2>2. unsure = TRUE
      <3>1. k \in UnderWay /\ ~save[k].waiting
        BY <1>7 DEF RequestLost, UnderWay, NoSave
      <3>2. QED
        BY <3>1 DEF SidebarIInv, SettledIsRight, SidebarTypeOK
    <2>3. QED
      BY <1>7, <2>1, <2>2, GivenUpKeeps DEF RequestLost, history
  <1>8. ASSUME NEW v \in Visits, ReloadSidebar(v) \/ VisitLost(v)
        PROVE  SidebarIInv'
    BY <1>8, ReloadKeeps, VisitLostKeeps
  <1>9. CASE UNCHANGED sidebarVars
    <2>1. ReadTypes' /\ ReadsAreRight'
      BY <1>9, ReadsStay DEF sidebarVars, SidebarIInv, SidebarTypeOK, ReadTypes
    <2>2. QED
      BY <1>9, <2>1, RestStays DEF sidebarVars, history
  <1>10. QED
    BY <1>1, <1>2, <1>3, <1>4, <1>5, <1>6, <1>7, <1>8, <1>9 DEF SidebarNext

(* What is seen of a page that is right.                                   *)
LEMMA ShownFacts ==
  ASSUME NEW page, PageIsRight(page)
  PROVE  ShownSidebar(page) =
           [s \in Sections |->
              Among(page.visible, {tab \in TabsOf(page.tabs) : SectionOf[tab] = s})]
  BY DEF ShownSidebar, PageIsRight

LEMMA SidebarIInvSaved ==
  SidebarIInv => SidebarIsSaved
  <1> SUFFICES ASSUME SidebarIInv, UnderWay = {}, ~unsure
               PROVE  LET values == SettingsForUser(row, upgraded)
                          reloaded == ShownSidebar(LoadedSidebar(values, upgraded))
                      IN  ShownSidebar(sidebar) =
                            [s \in Sections |-> Among(reloaded[s], TabsOf(sidebar.tabs))]
    BY DEF SidebarIsSaved
  <1> DEFINE values == SettingsForUser(row, upgraded)
             page == LoadedSidebar(values, upgraded)
             all == TabIds[upgraded]
             has == TabsOf(sidebar.tabs)
             of(s) == {tab \in TabsOf(all) : SectionOf[tab] = s}
             its(s) == {tab \in has : SectionOf[tab] = s}
  <1>1. /\ upgraded \in BOOLEAN /\ row \in [visible : Lists, known : SUBSET SidebarPages]
        /\ RowIsRight /\ TabIsRight /\ has \subseteq TabsOf(all)
    BY SaveFacts DEF SidebarIInv, SidebarTypeOK
  <1>2. /\ IsChoice(values.visible)
        /\ TabsOf(values.visible) \subseteq TabsOf(all)
        /\ \A set \in SUBSET row.known :
             Among(values.visible, set) = Among(row.visible, set)
    BY <1>1, RowFacts
  <1>3. PageIsRight(page) /\ page.tabs = all /\ page.visible = Among(values.visible, TabsOf(all))
    BY <1>1, <1>2, LoadedFacts
  <1>4. page.visible = values.visible
    BY <1>2, <1>3, AmongAll DEF IsChoice
  <1> HIDE DEF values, page, all
  <1>5. ShownSidebar(page) = [s \in Sections |-> Among(values.visible, of(s))]
    BY <1>3, <1>4, ShownFacts
  <1>6. sidebar.visible = Among(row.visible, has) /\ PageIsRight(sidebar) /\ has \subseteq row.known
    BY <1>1 DEF SidebarIInv, SettledIsRight, TabIsRight
  <1>7. ShownSidebar(sidebar) = [s \in Sections |-> Among(sidebar.visible, its(s))]
    BY <1>6, ShownFacts
  <1> HIDE DEF has
  <1>8. ASSUME NEW s \in Sections
        PROVE  Among(Among(values.visible, of(s)), has) = Among(sidebar.visible, its(s))
    <2>1. of(s) \intersect has = its(s) /\ has \intersect its(s) = its(s)
      BY <1>1
    <2>2. its(s) \in SUBSET row.known
      BY <1>6
    <2> HIDE DEF of, its
    <2>3. Among(Among(values.visible, of(s)), has) = Among(values.visible, its(s))
      BY <2>1, AmongAgain
    <2>4. Among(sidebar.visible, its(s)) = Among(row.visible, its(s))
      BY <1>6, <2>1, AmongAgain
    <2>5. QED
      BY <1>2, <2>2, <2>3, <2>4
  <1> HIDE DEF of, its
  <1>9. ShownSidebar(sidebar) = [s \in Sections |-> Among(ShownSidebar(page)[s], has)]
    BY <1>5, <1>7, <1>8
  <1>10. QED
    BY <1>9 DEF values, page, has

LEMMA SidebarIInvHidden ==
  SidebarIInv => HiddenIsChosen
  <1> SUFFICES ASSUME SidebarIInv
               PROVE  HiddenIsChosen
    OBVIOUS
  <1>1. /\ upgraded \in BOOLEAN /\ row \in [visible : Lists, known : SUBSET SidebarPages]
        /\ RowIsRight /\ HiddenIsRight
    BY DEF SidebarIInv, SidebarTypeOK
  <1>2. TabsOf(TabIds[upgraded]) \ TabsOf(SettingsForUser(row, upgraded).visible)
          = row.known \ TabsOf(row.visible)
    BY <1>1, RowFacts
  <1>3. QED
    BY <1>1, <1>2 DEF HiddenIsRight, HiddenIsChosen

LEMMA SidebarInvariant ==
  SidebarSpec => []SidebarIInv
  <1>1. SidebarInit => SidebarIInv
    BY SidebarInitRight
  <1>2. SidebarIInv /\ [SidebarNext]_sidebarVars => SidebarIInv'
    BY SidebarNextKeeps
  <1>3. QED
    BY <1>1, <1>2, PTL DEF SidebarSpec

(* With no save under way, the tab shows the pages of the row in the order *)
(* of the row, for any pages, new pages and sections, unless saves have    *)
(* overlapped or failed, or a row changed in between was written back      *)
(* (applySidebarPageOrder, _sidebar_settings_values).                      *)
THEOREM SidebarStaysSaved ==
  SidebarSpec => []SidebarIsSaved
  <1>1. SidebarIInv => SidebarIsSaved
    BY SidebarIInvSaved
  <1>2. QED
    BY <1>1, SidebarInvariant, PTL

(* The pages that a user does not get are those that the last save hid or  *)
(* did not list, whatever versions have come (_add_new_sidebar_tabs) and   *)
(* whoever normalises the row meanwhile, until a request writes back a row *)
(* that it has read before that save (_sidebar_settings_for_user).         *)
THEOREM HiddenStaysChosen ==
  SidebarSpec => []HiddenIsChosen
  <1>1. SidebarIInv => HiddenIsChosen
    BY SidebarIInvHidden
  <1>2. QED
    BY <1>1, SidebarInvariant, PTL

(* The lists of the row, of the tab and of the saves name no page twice    *)
(* and only pages there are.                                               *)
THEOREM SidebarTypeCorrect ==
  SidebarSpec => []SidebarTypeOK
  <1>1. SidebarIInv => SidebarTypeOK
    BY DEF SidebarIInv
  <1>2. QED
    BY <1>1, SidebarInvariant, PTL
=============================================================================
