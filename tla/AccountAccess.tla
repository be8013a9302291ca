-------------------------------- MODULE AccountAccess --------------------------------
(***************************************************************************)
(* One staff account: its password, the failed logins counted in Redis and *)
(* the lockout they lead to, and the password reset by a mailed token.      *)
(* LoginAttemptService, AuthService.issueLoginTokens, changePassword,      *)
(* requestPasswordReset and completePasswordReset, one step per call to    *)
(* Redis or Postgres.                                                      *)
(*                                                                         *)
(* A password is the number of the choice that made it: 0 is the first,    *)
(* those not chosen yet are wrong guesses.  Keys expire at any time after  *)
(* their expiry is set.  A refused request changes nothing and is left out *)
(* unless it counts.  What a session is good for is StaffSession's matter: *)
(* here it is the password version it was issued with.                     *)
(***************************************************************************)
EXTENDS AccountState

CONSTANTS
    MaxRequests,    \* bound: requests served
    MaxFaults       \* bound: calls that fail, handlers that die

ASSUME AccessAssumption == MaxRequests \in Nat /\ MaxFaults \in Nat

account  == <<row, last, sessions>>
lockout  == <<fails, lock, misses, streak>>
tokens   == <<resets, mailed>>
bounds   == <<chosen, served>>
vars     == <<account, lockout, tokens, pc, job, bounds, broken>>

Passwords == 0 .. MaxPasswords
Formats   == {"scrypt", "bcrypt", "upgraded"}    \* upgraded: bcrypt, written by a login
Fails     == [count : Nat, expires : BOOLEAN]
NoFails   == [count |-> 0, expires |-> FALSE]
Job       == [kind : {"login", "change", "reset"}, password : Passwords,
              version : Nat, token : ResetTokens \cup {NoResetToken}, count : Nat, streak : Nat]
NoJob     == [kind |-> "login", password |-> 0, version |-> 0, token |-> NoResetToken,
              count |-> 0, streak |-> 0]

TypeOK ==
    /\ row \in [password : Passwords, version : Nat, format : Formats]
    /\ last \in Passwords
    /\ sessions \subseteq Nat
    /\ fails \in Fails /\ lock \in BOOLEAN
    /\ resets \subseteq ResetTokens /\ mailed \subseteq ResetTokens
    /\ pc \in [Workers -> {"idle", "find", "miss", "expire", "drop", "lock", "upgrade",
                           "clear", "unlock", "issue", "commit", "persist", "mail", "take"}]
    /\ job \in [Workers -> Job]
    /\ misses \in Nat /\ streak \in Nat
    /\ chosen \in Passwords /\ served \in Nat /\ broken \in Nat

Init ==
    /\ row \in [password : {0}, version : {0}, format : Formats]
    /\ last = 0
    /\ sessions = {}
    /\ fails = NoFails /\ lock = FALSE
    /\ resets = {} /\ mailed = {}
    /\ pc = [w \in Workers |-> "idle"]
    /\ job = [w \in Workers |-> NoJob]
    /\ misses = 0 /\ streak = 0
    /\ chosen = 0 /\ served = 0 /\ broken = 0

-----------------------------------------------------------------------------
At(w, step) == pc[w] = step

Goto(w, step) == pc' = [pc EXCEPT ![w] = step]

Begin(w, step, j) ==
    /\ At(w, "idle")
    /\ served < MaxRequests
    /\ served' = served + 1
    /\ Goto(w, step)
    /\ job' = [job EXCEPT ![w] = j]

Done(w) == Goto(w, "idle") /\ job' = [job EXCEPT ![w] = NoJob]

(* issueLoginTokens: ensureEmailNotLockedAsync, then the row.              *)
Login(w, p) ==
    /\ ~lock
    /\ Begin(w, "find", [NoJob EXCEPT !.password = p])
    /\ UNCHANGED <<account, lockout, tokens, chosen, broken>>

(* (Variant first: every login writes the hash anew.)                      *)
FindUserRehash(w) ==
    /\ At(w, "find")
    /\ Goto(w, IF job[w].password # row.password THEN "miss" ELSE "upgrade")
    /\ job' = [job EXCEPT ![w].version = row.version]
    /\ UNCHANGED <<account, lockout, tokens, bounds, broken>>

FindUser(w) ==
    /\ At(w, "find")
    /\ Goto(w, CASE job[w].password # row.password -> "miss"
                 [] job[w].password = row.password /\ row.format = "scrypt" -> "upgrade"
                 [] OTHER -> "clear")
    /\ job' = [job EXCEPT ![w].version = row.version]
    /\ UNCHANGED <<account, lockout, tokens, bounds, broken>>

(* updatePasswordHash: the offered password, in the new format.            *)
UpgradeHash(w) ==
    /\ At(w, "upgrade")
    /\ row' = [row EXCEPT !.password = job[w].password, !.format = "upgraded"]
    /\ Goto(w, "clear")
    /\ UNCHANGED <<last, sessions, lockout, tokens, job, bounds, broken>>

Issue(w) ==
    /\ At(w, "issue")
    /\ sessions' = sessions \cup {job[w].version}
    /\ Done(w)
    /\ UNCHANGED <<row, last, lockout, tokens, bounds, broken>>

-----------------------------------------------------------------------------
(* recordFailedAttempt and clearFailures.                                  *)

(* INCR makes the key, or counts on.                                       *)
Miss(w) ==
    /\ At(w, "miss")
    /\ fails' = [fails EXCEPT !.count = fails.count + 1]
    /\ misses' = misses + 1 /\ streak' = streak + 1
    /\ job' = [job EXCEPT ![w].count = fails.count + 1, ![w].streak = streak + 1]
    /\ Goto(w, "expire")
    /\ UNCHANGED <<account, lock, tokens, bounds, broken>>

(* After PEXPIRE, which the first miss alone calls.  (Variants first: the   *)
(* limit must be passed; the first miss does not set the expiry.)          *)
JudgePast(w) ==
    /\ At(w, "expire")
    /\ fails' = [fails EXCEPT !.expires = fails.expires \/ (job[w].count = 1 /\ fails.count > 0)]
    /\ IF job[w].count > MaxAttempts THEN Goto(w, "drop") /\ UNCHANGED job ELSE Done(w)
    /\ UNCHANGED <<account, lock, misses, streak, tokens, bounds, broken>>

JudgeUnexpiring(w) ==
    /\ At(w, "expire")
    /\ IF job[w].count >= MaxAttempts THEN Goto(w, "drop") /\ UNCHANGED job ELSE Done(w)
    /\ UNCHANGED <<account, lockout, tokens, bounds, broken>>

Judge(w) ==
    /\ At(w, "expire")
    /\ fails' = [fails EXCEPT !.expires = fails.expires \/ (job[w].count = 1 /\ fails.count > 0)]
    /\ IF job[w].count >= MaxAttempts THEN Goto(w, "drop") /\ UNCHANGED job ELSE Done(w)
    /\ UNCHANGED <<account, lock, misses, streak, tokens, bounds, broken>>

Drop(w) ==
    /\ At(w, "drop")
    /\ fails' = NoFails
    /\ Goto(w, "lock")
    /\ UNCHANGED <<account, lock, misses, streak, tokens, job, bounds, broken>>

SetLock(w) ==
    /\ At(w, "lock")
    /\ lock' = TRUE
    /\ Done(w)
    /\ UNCHANGED <<account, fails, misses, streak, tokens, bounds, broken>>

(* (Variant first: the counter is left to expire.)                         *)
ClearLockOnly(w) ==
    /\ At(w, "clear")
    /\ misses' = 0 /\ streak' = 0
    /\ Goto(w, "unlock")
    /\ UNCHANGED <<account, fails, lock, tokens, job, bounds, broken>>

ClearFails(w) ==
    /\ At(w, "clear")
    /\ fails' = NoFails
    /\ misses' = 0 /\ streak' = 0
    /\ Goto(w, "unlock")
    /\ UNCHANGED <<account, lock, tokens, job, bounds, broken>>

Unlock(w) ==
    /\ At(w, "unlock")
    /\ lock' = FALSE
    /\ IF job[w].kind = "login" THEN Goto(w, "issue") /\ UNCHANGED job ELSE Done(w)
    /\ misses' = 0
    /\ UNCHANGED <<account, fails, streak, tokens, bounds, broken>>

ExpireFails ==
    /\ fails.expires
    /\ fails' = NoFails
    /\ misses' = 0 /\ streak' = 0
    /\ UNCHANGED <<account, lock, tokens, pc, job, bounds, broken>>

ExpireLock ==
    /\ lock
    /\ lock' = FALSE
    /\ misses' = 0
    /\ UNCHANGED <<account, fails, streak, tokens, pc, job, bounds, broken>>

-----------------------------------------------------------------------------
(* changePassword and the reset.                                           *)

Choose(w, step, j) ==
    /\ chosen < MaxPasswords
    /\ chosen' = chosen + 1
    /\ Begin(w, step, [j EXCEPT !.password = chosen + 1, !.version = row.version])
    /\ UNCHANGED <<account, lockout, tokens, broken>>

(* The current password is verified against the row as it is read here.     *)
ChangePassword(w) == Choose(w, "commit", [NoJob EXCEPT !.kind = "change"])

RequestReset(w, t) ==
    /\ t \notin resets \cup mailed /\ \A v \in Workers : job[v].token # t
    /\ Begin(w, "persist", [NoJob EXCEPT !.kind = "reset", !.token = t])
    /\ UNCHANGED <<account, lockout, tokens, chosen, broken>>

PersistToken(w) ==
    /\ At(w, "persist")
    /\ resets' = resets \cup {job[w].token}
    /\ Goto(w, "mail")
    /\ UNCHANGED <<account, lockout, mailed, job, bounds, broken>>

(* A mail that cannot be queued is logged; the answer is the same.         *)
MailToken(w) ==
    /\ At(w, "mail")
    /\ mailed' = mailed \cup {job[w].token}
    /\ Done(w)
    /\ UNCHANGED <<account, lockout, resets, bounds, broken>>

(* takePasswordResetToken: GET, then DEL.                                  *)
Reset(w, t) ==
    /\ t \in mailed \cap resets
    /\ Choose(w, "take", [NoJob EXCEPT !.kind = "reset", !.token = t])

TakeToken(w) ==
    /\ At(w, "take")
    /\ resets' = resets \ {job[w].token}
    /\ Goto(w, "commit")
    /\ UNCHANGED <<account, lockout, mailed, job, bounds, broken>>

ExpireToken(t) ==
    /\ t \in resets
    /\ resets' = resets \ {t}
    /\ UNCHANGED <<account, lockout, mailed, pc, job, bounds, broken>>

(* changePasswordWithVersionBump, resetPasswordWithVersionBump: the database *)
(* increments.  A reset goes on to clear the failures.  (Variant first: the *)
(* version read earlier, plus one.)                                        *)
CommitFromRead(w) ==
    /\ At(w, "commit")
    /\ row' = [password |-> job[w].password, version |-> job[w].version + 1, format |-> "bcrypt"]
    /\ last' = job[w].password
    /\ IF job[w].kind = "reset" THEN Goto(w, "clear") /\ UNCHANGED job ELSE Done(w)
    /\ UNCHANGED <<sessions, lockout, tokens, bounds, broken>>

Commit(w) ==
    /\ At(w, "commit")
    /\ row' = [password |-> job[w].password, version |-> row.version + 1, format |-> "bcrypt"]
    /\ last' = job[w].password
    /\ IF job[w].kind = "reset" THEN Goto(w, "clear") /\ UNCHANGED job ELSE Done(w)
    /\ UNCHANGED <<sessions, lockout, tokens, bounds, broken>>

(* A call throws, or the process dies under the request.                   *)
Abort(w) ==
    /\ ~At(w, "idle")
    /\ broken < MaxFaults
    /\ broken' = broken + 1
    /\ Done(w)
    /\ UNCHANGED <<account, lockout, tokens, bounds>>

-----------------------------------------------------------------------------
Step(w) ==
    \/ FindUser(w) \/ UpgradeHash(w) \/ Issue(w)
    \/ Miss(w) \/ Judge(w) \/ Drop(w) \/ SetLock(w) \/ ClearFails(w) \/ Unlock(w)
    \/ PersistToken(w) \/ MailToken(w) \/ TakeToken(w) \/ Commit(w)

Next ==
    \/ \E w \in Workers :
          \/ \E p \in Passwords : Login(w, p)
          \/ ChangePassword(w)
          \/ \E t \in ResetTokens : RequestReset(w, t) \/ Reset(w, t)
          \/ Step(w)
          \/ Abort(w)
    \/ ExpireFails \/ ExpireLock
    \/ \E t \in ResetTokens : ExpireToken(t)

Spec == Init /\ [][Next]_vars

(* A request that was started goes on; Redis expires what has an expiry.    *)
Fairness ==
    /\ \A w \in Workers : WF_vars(Step(w))
    /\ WF_vars(ExpireFails) /\ WF_vars(ExpireLock)

FairSpec == Spec /\ Fairness

-----------------------------------------------------------------------------
(* A counter without an expiry that nobody is about to set: the request     *)
(* that made the key died before it.                                       *)
Unexpiring ==
    /\ broken > 0 /\ ~fails.expires
    /\ \A w \in Workers : At(w, "expire") => job[w].count # 1

(* Wrong passwords are forgotten in the end, whatever else fails, unless    *)
(* the first of them died before it set the expiry.                        *)
MissesForgotten == fails.count > 0 ~> fails.count = 0 \/ Unexpiring
====
