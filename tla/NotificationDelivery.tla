---------------------------- MODULE NotificationDelivery ----------------------------
(***************************************************************************)
(* An e-mail on its way out: queueEmail writes a NotificationDelivery row  *)
(* and then adds a job to the notification-dispatch queue; a worker takes  *)
(* the job, renders, sends and records the result; BullMQ retries what     *)
(* throws, and hands out again the job of a worker that lost its lock,     *)
(* dead or not: two attempts can be in one delivery, and they write its    *)
(* row by id.  The queue and the mail server are modelled from how the     *)
(* code uses them.                                                         *)
(***************************************************************************)
EXTENDS Naturals, FiniteSets

CONSTANTS
    Deliveries,
    Resends,        \* bound: the deliveries that can only come up as resends
    Workers,        \* workers of the notification-dispatch queue
    None,           \* neither a delivery nor a worker
    MaxAttempts,    \* the job's "attempts", and the limit processDelivery has of its own
    MaxStalls,      \* how often BullMQ hands out a stalled job again
    MaxFaults       \* bound: lost locks, crashes, errors of the database or of Redis

ASSUME NoneAssumption    == None \notin Deliveries \cup Workers
ASSUME WorkersAssumption == IsFiniteSet(Workers)
ASSUME LimitsAssumption  == MaxAttempts \in Nat \ {0} /\ MaxStalls \in Nat /\ MaxFaults \in Nat

VARIABLES
    row,        \* status and retries of each NotificationDelivery
    origin,     \* the delivery a resend was cloned from
    queuing,    \* where queueEmail is
    job,        \* the BullMQ job: state, owner, failed attempts, stalls
    worker,     \* where each worker is, in which delivery, the retries it read
    mails,      \* messages the mail server took
    unsure,     \* for the properties: the deliveries of which a worker went on without
                \* its lock, or the answer to the write of a verdict was lost
    faults

vars == <<row, origin, queuing, job, worker, mails, unsure, faults>>

Row    == [status : {"none", "queued", "sent", "failed"}, retries : Nat]
Job    == [state : {"none", "waiting", "active", "completed", "failed"},
           owner : Workers \cup {None}, made : Nat, stalls : Nat]
Step   == {"read", "send", "markSent", "markFailed", "catch", "return", "throw"}
Idle   == [pc |-> "idle", of |-> None, seen |-> 0]
Worker == [pc : Step, of : Deliveries, seen : Nat] \cup {Idle}

TypeOK ==
    /\ row \in [Deliveries -> Row]
    /\ origin \in [Deliveries -> Deliveries \cup {None}]
    /\ queuing \in [Deliveries -> {"none", "created", "ended"}]
    /\ job \in [Deliveries -> Job]
    /\ worker \in [Workers -> Worker]
    /\ mails \in [Deliveries -> Nat]
    /\ unsure \subseteq Deliveries
    /\ faults \in Nat

Init ==
    /\ row = [d \in Deliveries |-> [status |-> "none", retries |-> 0]]
    /\ origin = [d \in Deliveries |-> None]
    /\ queuing = [d \in Deliveries |-> "none"]
    /\ job = [d \in Deliveries |-> [state |-> "none", owner |-> None, made |-> 0, stalls |-> 0]]
    /\ worker = [w \in Workers |-> Idle]
    /\ mails = [d \in Deliveries |-> 0]
    /\ unsure = {}
    /\ faults = 0

-----------------------------------------------------------------------------
(* queueEmail and resendDelivery.                                          *)

CreateRow(d, from) ==
    /\ row[d].status = "none"
    /\ row' = [row EXCEPT ![d].status = "queued"]
    /\ origin' = [origin EXCEPT ![d] = from]
    /\ queuing' = [queuing EXCEPT ![d] = "created"]
    /\ UNCHANGED <<job, worker, mails, unsure, faults>>

QueueEmail(d) == d \notin Resends /\ CreateRow(d, None)

Resend(o, d) == row[o].status \in {"sent", "failed"} /\ CreateRow(d, o)

AddJob(d) ==
    /\ queuing[d] = "created"
    /\ job' = [job EXCEPT ![d].state = "waiting"]
    /\ queuing' = [queuing EXCEPT ![d] = "ended"]
    /\ UNCHANGED <<row, origin, worker, mails, unsure, faults>>

-----------------------------------------------------------------------------
(* processDelivery, one attempt of the job.                                *)

At(w, step) == worker[w].pc = step

Of(w) == worker[w].of

GoTo(w, step) == worker' = [worker EXCEPT ![w].pc = step]

Take(w, d) ==
    /\ worker[w] = Idle
    /\ job[d].state = "waiting"
    /\ job' = [job EXCEPT ![d].state = "active", ![d].owner = w]
    /\ worker' = [worker EXCEPT ![w] = [pc |-> "read", of |-> d, seen |-> 0]]
    /\ UNCHANGED <<row, origin, queuing, mails, unsure, faults>>

(* The row, then the templates: a missing one, or an error while they are   *)
(* read, ends in markFailed.  (Variant first: what is sent is sent again.) *)
ReadAnyStatus(w) ==
    /\ At(w, "read")
    /\ \E step \in {"send", "markFailed"} :
          worker' = [worker EXCEPT ![w].seen = row[Of(w)].retries, ![w].pc = step]
    /\ UNCHANGED <<row, origin, queuing, job, mails, unsure, faults>>

Read(w) ==
    /\ At(w, "read")
    /\ \E step \in IF row[Of(w)].status = "sent" THEN {"return"} ELSE {"send", "markFailed"} :
          worker' = [worker EXCEPT ![w].seen = row[Of(w)].retries, ![w].pc = step]
    /\ UNCHANGED <<row, origin, queuing, job, mails, unsure, faults>>

(* The server takes the mail, refuses it, or takes it and the answer is lost. *)
Accepted(d) == mails' = [mails EXCEPT ![d] = mails[d] + 1]

(* (Variant first: the provider's refusal goes unnoticed.)                 *)
SendUnnoticed(w) ==
    /\ At(w, "send")
    /\ Accepted(Of(w)) \/ UNCHANGED mails
    /\ GoTo(w, "markSent")
    /\ UNCHANGED <<row, origin, queuing, job, unsure, faults>>

Send(w) ==
    /\ At(w, "send")
    /\ \/ Accepted(Of(w))  /\ GoTo(w, "markSent")
       \/ Accepted(Of(w))  /\ GoTo(w, "catch")
       \/ UNCHANGED mails  /\ GoTo(w, "catch")
    /\ UNCHANGED <<row, origin, queuing, job, unsure, faults>>

(* The three updates by id; what the row says by then is not looked at.    *)
SetStatus(d, status) == row' = [row EXCEPT ![d].status = status]

MarkFailed(w) ==
    /\ At(w, "markFailed")
    /\ SetStatus(Of(w), "failed")
    /\ GoTo(w, "return")
    /\ UNCHANGED <<origin, queuing, job, mails, unsure, faults>>

MarkSent(w) ==
    /\ At(w, "markSent")
    /\ SetStatus(Of(w), "sent")
    /\ GoTo(w, "return")
    /\ UNCHANGED <<origin, queuing, job, mails, unsure, faults>>

Recorded(retries, last) ==
    [status |-> IF retries >= last THEN "failed" ELSE "queued", retries |-> retries]

(* (Variant first: one retry more than the job has.)                       *)
CatchLate(w) ==
    /\ At(w, "catch")
    /\ row' = [row EXCEPT ![Of(w)] = Recorded(worker[w].seen + 1, MaxAttempts + 1)]
    /\ GoTo(w, "throw")
    /\ UNCHANGED <<origin, queuing, job, mails, unsure, faults>>

Catch(w) ==
    /\ At(w, "catch")
    /\ row' = [row EXCEPT ![Of(w)] = Recorded(worker[w].seen + 1, MaxAttempts)]
    /\ GoTo(w, "throw")
    /\ UNCHANGED <<origin, queuing, job, mails, unsure, faults>>

(* The end of an attempt counts for the job only if the worker still has    *)
(* its lock.                                                               *)
Owns(w) == job[Of(w)].state = "active" /\ job[Of(w)].owner = w

Return(w) ==
    /\ At(w, "return")
    /\ job' = IF Owns(w)
              THEN [job EXCEPT ![Of(w)].state = "completed", ![Of(w)].owner = None]
              ELSE job
    /\ worker' = [worker EXCEPT ![w] = Idle]
    /\ UNCHANGED <<row, origin, queuing, mails, unsure, faults>>

(* (Variant first: the error is swallowed after it was recorded.)          *)
ThrowSwallowed(w) ==
    /\ At(w, "throw")
    /\ job' = IF Owns(w)
              THEN [job EXCEPT ![Of(w)].state = "completed", ![Of(w)].owner = None]
              ELSE job
    /\ worker' = [worker EXCEPT ![w] = Idle]
    /\ UNCHANGED <<row, origin, queuing, mails, unsure, faults>>

Throw(w) ==
    /\ At(w, "throw")
    /\ job' = IF Owns(w)
              THEN [job EXCEPT ![Of(w)].made = job[Of(w)].made + 1,
                               ![Of(w)].owner = None,
                               ![Of(w)].state = IF job[Of(w)].made + 1 < MaxAttempts
                                                THEN "waiting" ELSE "failed"]
              ELSE job
    /\ worker' = [worker EXCEPT ![w] = Idle]
    /\ UNCHANGED <<row, origin, queuing, mails, unsure, faults>>

-----------------------------------------------------------------------------
(* Faults.                                                                 *)

Fault == faults < MaxFaults /\ faults' = faults + 1

(* queueEmail fails between the row and the job.                           *)
LoseJob(d) ==
    /\ Fault
    /\ queuing[d] = "created"
    /\ queuing' = [queuing EXCEPT ![d] = "ended"]
    /\ UNCHANGED <<row, origin, job, worker, mails, unsure>>

(* A database call of the attempt fails: inside the try the catch block is  *)
(* next, everywhere else the attempt throws.                               *)
DatabaseError(w) ==
    /\ Fault
    /\ \/ At(w, "markSent") /\ GoTo(w, "catch")
       \/ worker[w].pc \in {"read", "markFailed", "catch"} /\ GoTo(w, "throw")
    /\ UNCHANGED <<row, origin, queuing, job, mails, unsure>>

(* ... or it commits and its answer is lost.  (After the update of the      *)
(* catch block the attempt throws anyway.)                                 *)
AnswerLost(w) ==
    /\ Fault
    /\ \/ At(w, "markSent")   /\ SetStatus(Of(w), "sent")   /\ GoTo(w, "catch")
       \/ At(w, "markFailed") /\ SetStatus(Of(w), "failed") /\ GoTo(w, "throw")
    /\ unsure' = unsure \cup {Of(w)}
    /\ UNCHANGED <<origin, queuing, job, mails>>

(* The lock of an active job runs out: it is handed out again MaxStalls     *)
(* times and given up after that.  Its worker may have died or may go on.  *)
HandOutAgain(d) ==
    job' = [job EXCEPT ![d].owner = None, ![d].stalls = job[d].stalls + 1,
                       ![d].state = IF job[d].stalls < MaxStalls THEN "waiting" ELSE "failed"]

LoseLock(d) ==
    /\ Fault
    /\ job[d].state = "active"
    /\ HandOutAgain(d)
    /\ unsure' = unsure \cup {d}
    /\ UNCHANGED <<row, origin, queuing, worker, mails>>

Die(w) ==
    /\ Fault
    /\ worker[w] # Idle
    /\ IF Owns(w) THEN HandOutAgain(Of(w)) ELSE UNCHANGED job
    /\ worker' = [worker EXCEPT ![w] = Idle]
    /\ UNCHANGED <<row, origin, queuing, mails, unsure>>

-----------------------------------------------------------------------------
Attempt(w) ==
    \/ Read(w)
    \/ MarkFailed(w)
    \/ Send(w)
    \/ MarkSent(w)
    \/ Catch(w)
    \/ Return(w)
    \/ Throw(w)

Next ==
    \/ \E d \in Deliveries :
        \/ QueueEmail(d)
        \/ \E o \in Deliveries : Resend(o, d)
        \/ AddJob(d)
        \/ LoseJob(d)
        \/ LoseLock(d)
        \/ \E w \in Workers : Take(w, d)
    \/ \E w \in Workers : Attempt(w) \/ DatabaseError(w) \/ AnswerLost(w) \/ Die(w)

Spec == Init /\ [][Next]_vars

(* Handlers go on, the queue gives every waiting job to a worker, and what  *)
(* a worker took it works on.                                              *)
Fairness ==
    /\ \A d \in Deliveries : WF_vars(AddJob(d)) /\ WF_vars(\E w \in Workers : Take(w, d))
    /\ \A w \in Workers : WF_vars(Attempt(w))

FairSpec == Spec /\ Fairness

-----------------------------------------------------------------------------
(* The promise this implements.  A row that says failed comes into doubt    *)
(* when a worker of its job has died, any verdict when a worker went on    *)
(* without its lock or the answer to its write was lost, and none          *)
(* otherwise.                                                              *)

Outcome(d) == IF row[d].status = "queued" THEN "pending" ELSE row[d].status

InDoubt(d) ==
    IF d \in unsure THEN {"sent", "failed"}
    ELSE IF job[d].stalls > 0 THEN {"failed"} ELSE {}

Outbox == INSTANCE MailOutbox WITH
    Budget   <- MaxAttempts + MaxStalls,
    outcome  <- [d \in Deliveries |-> Outcome(d)],
    accepted <- mails,
    doubt    <- [d \in Deliveries |-> InDoubt(d)]

(* Rows, retries, clones, stalled jobs, overlapping workers and lost        *)
(* answers implement the outbox.                                           *)
ImplementsOutbox == Outbox!Spec

-----------------------------------------------------------------------------
(* Properties.                                                             *)

(* A row that says sent is about a mail some server took.                  *)
SentMeansMailed == \A d \in Deliveries : row[d].status = "sent" => mails[d] > 0

(* Sent is final: no retry, no second attempt after a death at any step and *)
(* no failed call sends the mail once more or changes the row.  Only a     *)
(* worker that goes on without its lock can, and a lost answer of the      *)
(* update to sent, after which the catch block writes over it.             *)
SentStep ==
    \A d \in Deliveries :
        row[d].status = "sent" /\ d \notin unsure =>
            row'[d] = row[d] /\ mails'[d] = mails[d]

SentIsFinal == [][SentStep]_vars

(* The two limits agree: when the queue gives a job up, the row says failed *)
(* (and can be resent), unless a fault kept it from being written.         *)
GivenUpIsFailed ==
    \A d \in Deliveries : job[d].state = "failed" /\ faults = 0 => row[d].status = "failed"

(* A queued row nobody looks for any more: its job was never added, the     *)
(* queue gave it up and the row was not told, or a worker without its lock *)
(* wrote queued over what its successor had written.                       *)
Forgotten(d) ==
    \/ queuing[d] = "ended" /\ job[d].state = "none"
    \/ job[d].state = "failed" /\ faults > 0
    \/ job[d].state = "completed" /\ d \in unsure

(* Each queued mail is sent or failed in the end, in spite of faults, unless*)
(* it is forgotten in one of those three ways.                             *)
Settles ==
    \A d \in Deliveries :
        row[d].status = "queued" ~> row[d].status \in {"sent", "failed"} \/ Forgotten(d)
====
