------------------------------ MODULE ReferenceRecovery ------------------------------
(***************************************************************************)
(* A member of the public who lost a reference number has a code mailed and *)
(* enters it: ComplaintRecoveryService for one contact that has complaints, *)
(* one step per call to Redis or to the mail queue.                        *)
(*                                                                         *)
(* The stored code carries the number of wrong entries, which are counted   *)
(* on a copy that is written back.  A code is the number of the request     *)
(* that made it; an entry is one of the codes mailed, or 0 for any other.   *)
(* The audit log, which never fails a request, is left out, and so is the   *)
(* SMS channel, which has no sender.                                       *)
(***************************************************************************)
EXTENDS RecoveryState

CONSTANTS
    RequestLimit,   \* CONTACT_REQUEST_LIMIT
    MaxEntries,     \* bound: entries
    MaxFaults       \* bound: calls that fail, handlers that die

ASSUME RecoveryAssumption == {RequestLimit, MaxEntries, MaxFaults} \subseteq Nat

store   == <<otp, lock, asked>>
history == <<wrong, used, expired>>
bounds  == <<begun, entries, overlaps>>
vars    == <<store, mailed, pc, job, codes, history, bounds, broken>>

Codes  == 1 .. MaxCodes
NoOtp  == [code |-> 0, attempts |-> 0]
Otp    == [code : Codes \cup {0}, attempts : Nat]
Job    == [entry : Codes \cup {0}, otp : Otp, count : Nat]
NoJob  == [entry |-> 0, otp |-> NoOtp, count |-> 0]

TypeOK ==
    /\ otp \in [code : Codes, attempts : 0 .. MaxAttempts - 1] \cup {NoOtp}
    /\ lock \in BOOLEAN
    /\ asked \in [count : Nat, expires : BOOLEAN]
    /\ mailed \subseteq 1 .. codes
    /\ pc \in [Workers -> {"idle", "limit", "expire", "persist", "mail",
                           "get", "put", "clear", "lock", "use", "answer"}]
    /\ job \in [Workers -> Job]
    /\ codes \in 0 .. MaxCodes
    /\ wrong \in [Codes -> Nat] /\ used \in [Codes -> Nat]
    /\ expired \subseteq Codes
    /\ {overlaps, begun, entries, broken} \subseteq Nat

Init ==
    /\ otp = NoOtp /\ lock = FALSE
    /\ asked = [count |-> 0, expires |-> FALSE]
    /\ mailed = {}
    /\ pc = [w \in Workers |-> "idle"]
    /\ job = [w \in Workers |-> NoJob]
    /\ codes = 0
    /\ wrong = [c \in Codes |-> 0] /\ used = [c \in Codes |-> 0]
    /\ expired = {}
    /\ overlaps = 0 /\ begun = 0 /\ entries = 0 /\ broken = 0

-----------------------------------------------------------------------------
At(w, step) == pc[w] = step

Goto(w, step) == pc' = [pc EXCEPT ![w] = step]

Done(w) == Goto(w, "idle") /\ job' = [job EXCEPT ![w] = NoJob]

AtRest == \A w \in Workers : At(w, "idle")

(* ensureNotLocked: a locked contact is refused.                           *)
Begin(w, step, j) ==
    /\ At(w, "idle")
    /\ ~lock
    /\ Goto(w, step)
    /\ job' = [job EXCEPT ![w] = j]
    /\ overlaps' = IF AtRest THEN overlaps ELSE overlaps + 1

-----------------------------------------------------------------------------
(* requestRecovery.                                                        *)

Request(w) ==
    /\ begun < MaxCodes
    /\ begun' = begun + 1
    /\ Begin(w, "limit", NoJob)
    /\ UNCHANGED <<store, mailed, codes, history, entries, broken>>

CountRequest(w) ==
    /\ At(w, "limit")
    /\ asked' = [asked EXCEPT !.count = asked.count + 1]
    /\ job' = [job EXCEPT ![w].count = asked.count + 1]
    /\ Goto(w, "expire")
    /\ UNCHANGED <<otp, lock, mailed, codes, history, bounds, broken>>

(* PEXPIRE by the first, then the limit.                                   *)
JudgeRequest(w) ==
    /\ At(w, "expire")
    /\ asked' = [asked EXCEPT !.expires = asked.expires \/ (job[w].count = 1 /\ asked.count > 0)]
    /\ IF job[w].count > RequestLimit THEN Done(w) ELSE Goto(w, "persist") /\ UNCHANGED job
    /\ UNCHANGED <<otp, lock, mailed, codes, history, bounds, broken>>

PersistOtp(w) ==
    /\ At(w, "persist")
    /\ codes' = codes + 1
    /\ otp' = [code |-> codes + 1, attempts |-> 0]
    /\ job' = [job EXCEPT ![w].otp = otp']
    /\ Goto(w, "mail")
    /\ UNCHANGED <<lock, asked, mailed, history, bounds, broken>>

MailCode(w) ==
    /\ At(w, "mail")
    /\ mailed' = mailed \cup {job[w].otp.code}
    /\ Done(w)
    /\ UNCHANGED <<store, codes, history, bounds, broken>>

-----------------------------------------------------------------------------
(* verifyRecovery.                                                         *)

Verify(w, entry) ==
    /\ entries < MaxEntries
    /\ entries' = entries + 1
    /\ Begin(w, "get", [NoJob EXCEPT !.entry = entry])
    /\ UNCHANGED <<store, mailed, codes, history, begun, broken>>

NoneStored(w) ==
    /\ At(w, "get")
    /\ otp.code = 0
    /\ Done(w)
    /\ UNCHANGED <<store, mailed, codes, history, bounds, broken>>

(* (Variant first: the limit must be passed.)                              *)
WrongPast(w) ==
    /\ At(w, "get")
    /\ otp.code \notin {0, job[w].entry}
    /\ wrong' = [wrong EXCEPT ![otp.code] = @ + 1]
    /\ job' = [job EXCEPT ![w].otp = [otp EXCEPT !.attempts = @ + 1]]
    /\ Goto(w, IF otp.attempts + 1 > MaxAttempts THEN "clear" ELSE "put")
    /\ UNCHANGED <<store, mailed, codes, used, expired, bounds, broken>>

WrongEntry(w) ==
    /\ At(w, "get")
    /\ otp.code \notin {0, job[w].entry}
    /\ wrong' = [wrong EXCEPT ![otp.code] = @ + 1]
    /\ job' = [job EXCEPT ![w].otp = [otp EXCEPT !.attempts = @ + 1]]
    /\ Goto(w, IF otp.attempts + 1 >= MaxAttempts THEN "clear" ELSE "put")
    /\ UNCHANGED <<store, mailed, codes, used, expired, bounds, broken>>

(* persistOtp with the copy.  (Variant first: one wrong entry spends it.)   *)
PutNothing(w) ==
    /\ At(w, "put")
    /\ otp' = NoOtp
    /\ Done(w)
    /\ UNCHANGED <<lock, asked, mailed, codes, history, bounds, broken>>

PutOtp(w) ==
    /\ At(w, "put")
    /\ otp' = job[w].otp
    /\ Done(w)
    /\ UNCHANGED <<lock, asked, mailed, codes, history, bounds, broken>>

ClearOtp(w) ==
    /\ At(w, "clear")
    /\ otp' = NoOtp
    /\ Goto(w, "lock")
    /\ UNCHANGED <<lock, asked, mailed, job, codes, history, bounds, broken>>

SetLockout(w) ==
    /\ At(w, "lock")
    /\ lock' = TRUE
    /\ Done(w)
    /\ UNCHANGED <<otp, asked, mailed, codes, history, bounds, broken>>

RightEntry(w) ==
    /\ At(w, "get")
    /\ otp.code # 0 /\ otp.code = job[w].entry
    /\ Goto(w, "use")
    /\ UNCHANGED <<store, mailed, job, codes, history, bounds, broken>>

(* The code is deleted, then the complaints are looked up and their          *)
(* references answered.  (Variant first: the code is left to run out.)       *)
UseKeeping(w) ==
    /\ At(w, "use")
    /\ Goto(w, "answer")
    /\ UNCHANGED <<store, mailed, job, codes, history, bounds, broken>>

Use(w) ==
    /\ At(w, "use")
    /\ otp' = NoOtp
    /\ Goto(w, "answer")
    /\ UNCHANGED <<lock, asked, mailed, job, codes, history, bounds, broken>>

Answer(w) ==
    /\ At(w, "answer")
    /\ used' = [used EXCEPT ![job[w].entry] = @ + 1]
    /\ Done(w)
    /\ UNCHANGED <<store, mailed, codes, wrong, expired, bounds, broken>>

-----------------------------------------------------------------------------
(* Expiry and faults.                                                      *)

ExpireOtp ==
    /\ otp.code # 0
    /\ otp' = NoOtp
    /\ expired' = expired \cup {otp.code}
    /\ UNCHANGED <<lock, asked, mailed, pc, job, codes, wrong, used, bounds, broken>>

ExpireAsked ==
    /\ asked.expires
    /\ asked' = [count |-> 0, expires |-> FALSE]
    /\ UNCHANGED <<otp, lock, mailed, pc, job, codes, history, bounds, broken>>

(* LOCKOUT_MS exceeds OTP_TTL_MS by five minutes: what was in flight when    *)
(* the lock was set is over, and what it stored has run out.                *)
ExpireLock ==
    /\ lock
    /\ AtRest /\ otp.code = 0
    /\ lock' = FALSE
    /\ UNCHANGED <<otp, asked, mailed, pc, job, codes, history, bounds, broken>>

(* A call throws, or the process dies; a mail that cannot be queued is       *)
(* logged.                                                                 *)
Abort(w) ==
    /\ ~At(w, "idle")
    /\ broken < MaxFaults
    /\ broken' = broken + 1
    /\ Done(w)
    /\ UNCHANGED <<store, mailed, codes, history, bounds>>

-----------------------------------------------------------------------------
Step(w) ==
    \/ CountRequest(w) \/ JudgeRequest(w) \/ PersistOtp(w) \/ MailCode(w)
    \/ NoneStored(w) \/ WrongEntry(w) \/ PutOtp(w) \/ ClearOtp(w) \/ SetLockout(w)
    \/ RightEntry(w) \/ Use(w) \/ Answer(w)

Next ==
    \/ \E w \in Workers :
          \/ Request(w)
          \/ \E entry \in mailed \cup {0} : Verify(w, entry)
          \/ Step(w)
          \/ Abort(w)
    \/ ExpireOtp \/ ExpireAsked \/ ExpireLock

Spec == Init /\ [][Next]_vars
====
