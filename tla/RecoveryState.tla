------------------------------ MODULE RecoveryState ------------------------------
(***************************************************************************)
(* The codes mailed to one contact and the requests about them, and what   *)
(* is promised of them: the state that ReferenceRecovery moves.            *)
(***************************************************************************)
EXTENDS Naturals

CONSTANTS
    Workers,        \* requests in flight at once
    MaxAttempts,    \* MAX_VERIFY_ATTEMPTS
    MaxCodes        \* bound: requests for a code

ASSUME CodesAssumption == MaxAttempts \in Nat \ {0} /\ MaxCodes \in Nat

VARIABLES
    otp,            \* the key recovery:otp: code and wrong entries, code 0 if absent
    lock,           \* the key recovery:lock
    asked,          \* the key recovery:req: its count, and whether it expires
    mailed,         \* the codes queued for mailing
    pc, job,        \* each request's next call, and its local variables
    codes,          \* history: the codes made so far
    wrong, used,    \* history: of each code, its wrong entries and its uses
    expired,        \* history: the codes that ran out
    overlaps,       \* history: requests that began while another was in flight
    begun, entries, \* requests for a code, entries of one
    broken          \* calls that failed, handlers that died

(* A code takes no more wrong entries than the limit, and one more for     *)
(* each request that overlapped another, as the count lives on copies, or  *)
(* that failed before it wrote its copy.                                   *)
EntriesBounded == \A c \in 1 .. MaxCodes : wrong[c] <= MaxAttempts + overlaps + broken

(* A code is used once, unless requests overlapped: an entry that was being *)
(* judged writes its copy back, or two right ones read the code together.  *)
UsedOnce == \A c \in 1 .. MaxCodes : used[c] <= 1 + overlaps

(* One request at a time, the code made last is the one that works until it *)
(* is used, runs out or has met the limit: no earlier entry replaces it.   *)
LastCodeWorks ==
    codes > 0 /\ (\A w \in Workers : pc[w] = "idle") /\ overlaps = 0 /\ broken = 0 =>
        \/ otp.code = codes /\ codes \in mailed
        \/ codes \in expired \/ used[codes] > 0 \/ wrong[codes] >= MaxAttempts
====
