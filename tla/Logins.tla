------------------------------- MODULE Logins -------------------------------
(***************************************************************************)
(* The failed logins of one user and the lockout that follows them:        *)
(* auth_backends.py, called by the login of the application                *)
(* (views/additional.py) and by that of Django's admin, and the form with  *)
(* which an administrator changes a user (admin.py).                       *)
(*                                                                         *)
(* Every request reads the row of the user and writes what it has computed *)
(* from its copy, without a lock.  History variables: `failures', `due'    *)
(* and `overlap', see LockoutIsKept.                                       *)
(***************************************************************************)
EXTENDS Naturals

CONSTANTS
  Logins,         \* logins under way at once
  Edits,          \* forms of the admin under way at once
  MaxFailed,      \* LOGIN_MAX_FAILED_ATTEMPTS
  Nobody          \* no copy of the row

VARIABLES
  user,           \* the row: failed_login_attempts, lockout_until
  copy,           \* copy[r]: the row as request r has read it
  failures, due, overlap

Requesters == Logins \union Edits

loginVars == <<user, copy, failures, due, overlap>>

(* A lockout is in the future, has passed, or there is none.               *)
User == [attempts : 0..(MaxFailed - 1), lockout : {"none", "future", "past"}]

ASSUME LoginsAssumption == MaxFailed \in Nat \ {0} /\ Nobody \notin User

LoginsTypeOK ==
  /\ user \in User
  /\ copy \in [Requesters -> User \union {Nobody}]
  /\ failures \in 0..(MaxFailed - 1)
  /\ due \in BOOLEAN
  /\ overlap \in BOOLEAN

LoginsInit ==
  /\ user = [attempts |-> 0, lockout |-> "none"]
  /\ copy = [r \in Requesters |-> Nobody]
  /\ failures = 0 /\ due = FALSE /\ overlap = FALSE

-----------------------------------------------------------------------------
Cleared == [attempts |-> 0, lockout |-> "none"]

AtWork == {r \in Requesters : copy[r] # Nobody}

Read(r) ==
  /\ copy[r] = Nobody
  /\ copy' = [copy EXCEPT ![r] = user]
  /\ overlap' = (overlap \/ AtWork # {})
  /\ UNCHANGED <<user, failures, due>>

(* The user is found; during a lockout the login is refused at once.       *)
ReadUser(l) == user.lockout # "future" /\ Read(l)

(* The request writes the row.  Counting starts anew with a row that is    *)
(* cleared while no other request has a copy.                              *)
Write(r) ==
  /\ copy[r] # Nobody
  /\ copy' = [copy EXCEPT ![r] = Nobody]
  /\ overlap' = (overlap /\ ~(AtWork = {r} /\ user' = Cleared /\ failures' = 0 /\ ~due'))

(* clear_login_failures: nothing is written if the copy has nothing.       *)
LoginSucceeds(l) ==
  /\ user' = IF copy[l] = Cleared THEN user ELSE Cleared
  /\ failures' = 0 /\ due' = FALSE
  /\ Write(l)

(* Mutant of FailedLogin: one failure more is let pass.                    *)
FailedLoginMutant(seen) ==
  IF seen.attempts >= MaxFailed
    THEN [attempts |-> 0, lockout |-> "future"]
    ELSE [attempts |-> seen.attempts + 1, lockout |-> seen.lockout]

(* register_failed_login: both fields are written.                         *)
FailedLogin(seen) ==
  IF seen.attempts + 1 >= MaxFailed
    THEN [attempts |-> 0, lockout |-> "future"]
    ELSE [attempts |-> seen.attempts + 1, lockout |-> seen.lockout]

LoginFails(l) ==
  /\ copy[l] # Nobody
  /\ user' = FailedLogin(copy[l])
  /\ failures' = (failures + 1) % MaxFailed
  /\ due' = (due \/ failures + 1 = MaxFailed)
  /\ Write(l)

(* The form of the admin writes the whole row; a new password clears it.   *)
SaveUser(e) ==
  /\ copy[e] # Nobody
  /\ \/ user' = Cleared /\ failures' = 0 /\ due' = FALSE
     \/ user' = copy[e] /\ UNCHANGED <<failures, due>>
  /\ Write(e)

(* Five minutes have passed.                                               *)
LockoutEnds ==
  LET later(seen) == IF seen # Nobody /\ seen.lockout = "future"
                       THEN [seen EXCEPT !.lockout = "past"] ELSE seen
  IN  /\ user.lockout = "future"
      /\ user' = later(user)
      /\ copy' = [r \in Requesters |-> later(copy[r])]
      /\ due' = FALSE
      /\ UNCHANGED <<failures, overlap>>

LoginsNext ==
  \/ LockoutEnds
  \/ \E l \in Logins : ReadUser(l) \/ LoginSucceeds(l) \/ LoginFails(l)
  \/ \E e \in Edits : Read(e) \/ SaveUser(e)

LoginsSpec == LoginsInit /\ [][LoginsNext]_loginVars

-----------------------------------------------------------------------------
(* As long as the requests for a user do not overlap, no failed login is   *)
(* lost: the row has as many as there were since the last success, lockout *)
(* or new password, and MaxFailed of them lock the user out until the time *)
(* is over, whichever of the two logins counted them                       *)
(* (register_failed_login, clear_login_failures).  Requests that overlap   *)
(* write what they read before: failures and lockouts may then be lost.    *)
LockoutIsKept ==
  ~overlap =>
    /\ user.attempts = failures
    /\ due => user.lockout = "future"
=============================================================================
