-------------------------------- MODULE AccountState --------------------------------
(***************************************************************************)
(* One staff account and the requests about it, and what is promised of    *)
(* them: the state that AccountAccess moves.                               *)
(***************************************************************************)
EXTENDS Naturals, FiniteSets

CONSTANTS
    Workers,        \* requests in flight at once
    ResetTokens,
    NoResetToken,
    MaxAttempts,    \* AUTH_LOCKOUT_MAX_ATTEMPTS
    MaxPasswords    \* bound: passwords chosen

ASSUME AccountAssumption ==
    /\ IsFiniteSet(Workers)
    /\ NoResetToken \notin ResetTokens
    /\ MaxAttempts \in Nat \ {0}
    /\ MaxPasswords \in Nat

VARIABLES
    row,            \* the users row: password, its version, the format of its hash
    last,           \* history: the password last committed by a change or a reset
    sessions,       \* the versions of the sessions issued
    fails, lock,    \* the keys auth:login:fails and auth:login:lock
    resets, mailed, \* reset tokens in Redis, and in the person's mail
    pc, job,        \* each request's next call, and its local variables
    misses,         \* wrong passwords since a key expired or a success opened
    streak,         \* the same, not counting the lock's expiry
    chosen, served, \* passwords chosen, requests begun
    broken          \* calls that failed, handlers that died

(* Between two openings of the account no more wrong passwords are judged  *)
(* than each request in flight can bring up to the limit: the counter is   *)
(* deleted before the lock is set, and a request that dies in between      *)
(* gives another round.                                                    *)
MissesBounded == misses <= (Cardinality(Workers) + broken) * MaxAttempts

(* An account is locked for wrong passwords in a row: those before a       *)
(* success or outside the window do not count, whatever overlaps.          *)
LockEarned == \A w \in Workers : pc[w] = "lock" => job[w].streak >= MaxAttempts

(* A password stays until the next change, except that the login of an     *)
(* old-format account may write back what it was offered before the        *)
(* change.                                                                 *)
PasswordStands == row.password # last => row.password = 0 /\ row.format = "upgraded"

(* A change or a reset ends every session issued before it, also when two  *)
(* of them overlap: none was issued with the version it sets.              *)
CommitEndsSessions ==
    [][\A w \in Workers : pc[w] = "commit" /\ pc'[w] # "commit"
          => \A v \in sessions : v < row'.version]_row
====
