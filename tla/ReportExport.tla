-------------------------------- MODULE ReportExport --------------------------------
(***************************************************************************)
(* A report export, from the request to the inbox of who asked for it: the *)
(* request writes a row and adds a job; each attempt of the job marks the  *)
(* row, builds the file, stores it, writes READY and tells the requester,  *)
(* or writes FAILED, tells the requester and throws, so that the queue     *)
(* tries again.  Meanwhile the exports page polls the row, and stops at    *)
(* the first answer that says READY or FAILED.                             *)
(*                                                                         *)
(* A step is one call to Postgres, MinIO or the queue.  Each export has a   *)
(* requester of its own.  The audit entries are left out: logEvent catches *)
(* its errors.  BullMQ, as in DocumentScan, hands a stalled job out again.  *)
(***************************************************************************)
EXTENDS Naturals

CONSTANTS
    Exports,
    Workers,        \* workers of the report-export queue
    NoOne,          \* neither a worker nor an export
    Attempts,       \* the job's "attempts"
    MaxStalls,      \* how often BullMQ hands out a stalled job again
    Polls,          \* bound: status requests of the page in flight at once
    MaxFaults       \* bound: failed calls, lost locks, crashes

ASSUME NoOneAssumption  == NoOne \notin Workers \cup Exports
ASSUME LimitsAssumption == Attempts \in Nat \ {0} /\ MaxStalls \in Nat /\ MaxFaults \in Nat

VARIABLES
    row,            \* the report_exports row: its status, whether storageKey is set
    files,          \* the exports whose file is in the bucket
    oversized,      \* the exports whose filters match more than maxRows complaints
    inactive,       \* the exports whose requester was deactivated
    inbox,          \* the kinds of notice the requester has of the export
    job,            \* the generate job: state, owner, attempts that threw, stalls
    worker,         \* where each worker is, in which export
    page,           \* the status the exports page shows
    polls,          \* the answers on their way to the page
    faults

vars   == <<row, files, oversized, inactive, inbox, job, worker, page, polls, faults>>
web    == <<page, polls>>
world  == <<oversized, inactive>>

Ended    == {"READY", "FAILED"}
Status   == {"PENDING", "PROCESSING"} \cup Ended
Row      == [status : {"NONE"} \cup Status, storageKey : BOOLEAN]
Notice   == {"ready", "failed"}
Job      == [state : {"none", "waiting", "active", "completed", "failed"},
             owner : Workers \cup {NoOne}, threw : Nat, stalls : Nat]
Step     == {"mark", "build", "put", "writeReady", "askReady", "tellReady",
             "markFailed", "askFailed", "tellFailed", "return", "throw"}
Idle     == [pc |-> "idle", of |-> NoOne]
Worker   == [pc : Step, of : Exports] \cup {Idle}

TypeOK ==
    /\ row \in [Exports -> Row]
    /\ files \subseteq Exports
    /\ oversized \subseteq Exports
    /\ inactive \subseteq Exports
    /\ inbox \in [Exports -> SUBSET Notice]
    /\ job \in [Exports -> Job]
    /\ worker \in [Workers -> Worker]
    /\ page \in [Exports -> {"none", "closed"} \cup Status]
    /\ polls \in [Exports -> [Polls -> {"none"} \cup Status]]
    /\ faults \in Nat

Init ==
    /\ row = [e \in Exports |-> [status |-> "NONE", storageKey |-> FALSE]]
    /\ files = {}
    /\ oversized = {}
    /\ inactive = {}
    /\ inbox = [e \in Exports |-> {}]
    /\ job = [e \in Exports |-> [state |-> "none", owner |-> NoOne, threw |-> 0, stalls |-> 0]]
    /\ worker = [w \in Workers |-> Idle]
    /\ page = [e \in Exports |-> "none"]
    /\ polls = [e \in Exports |-> [p \in Polls |-> "none"]]
    /\ faults = 0

-----------------------------------------------------------------------------
(* createExport, and the page that called it: the page shows the job once   *)
(* the request returns.                                                    *)

CreateExport(e) ==
    /\ row[e].status = "NONE"
    /\ row' = [row EXCEPT ![e].status = "PENDING"]
    /\ UNCHANGED <<files, world, inbox, job, worker, web, faults>>

AddJob(e) ==
    /\ row[e].status = "PENDING"
    /\ job[e].state = "none"
    /\ page[e] = "none"
    /\ job' = [job EXCEPT ![e].state = "waiting"]
    /\ page' = [page EXCEPT ![e] = "PENDING"]
    /\ UNCHANGED <<row, files, world, inbox, worker, polls, faults>>

-----------------------------------------------------------------------------
(* processExport, one attempt of the job.                                  *)

At(w, step) == worker[w].pc = step

Of(w) == worker[w].of

GoTo(w, step) == worker' = [worker EXCEPT ![w].pc = step]

Take(w, e) ==
    /\ worker[w] = Idle
    /\ job[e].state = "waiting"
    /\ job' = [job EXCEPT ![e].state = "active", ![e].owner = w]
    /\ worker' = [worker EXCEPT ![w] = [pc |-> "mark", of |-> e]]
    /\ UNCHANGED <<row, files, world, inbox, web, faults>>

(* Whatever the status was.  The row is there: nothing deletes exports.     *)
MarkProcessing(w) ==
    /\ At(w, "mark")
    /\ row' = [row EXCEPT ![Of(w)].status = "PROCESSING"]
    /\ GoTo(w, "build")
    /\ UNCHANGED <<files, world, inbox, job, web, faults>>

(* The rows are fetched and counted, the file is made.                     *)
Build(w) ==
    /\ At(w, "build")
    /\ GoTo(w, IF Of(w) \in oversized THEN "markFailed" ELSE "put")
    /\ UNCHANGED <<row, files, world, inbox, job, web, faults>>

Put(w) ==
    /\ At(w, "put")
    /\ files' = files \cup {Of(w)}
    /\ GoTo(w, "writeReady")
    /\ UNCHANGED <<row, world, inbox, job, web, faults>>

WriteReady(w) ==
    /\ At(w, "writeReady")
    /\ row' = [row EXCEPT ![Of(w)] = [status |-> "READY", storageKey |-> TRUE]]
    /\ GoTo(w, "askReady")
    /\ UNCHANGED <<files, world, inbox, job, web, faults>>

-----------------------------------------------------------------------------
(* notify: the user is read first; the upsert keeps one notice of a kind.   *)

Ask(w, from, tell, after) ==
    /\ At(w, from)
    /\ GoTo(w, IF Of(w) \in inactive THEN after ELSE tell)
    /\ UNCHANGED <<row, files, world, inbox, job, web, faults>>

AskReady(w) == Ask(w, "askReady", "tellReady", "return")

TellReady(w) ==
    /\ At(w, "tellReady")
    /\ inbox' = [inbox EXCEPT ![Of(w)] = inbox[Of(w)] \cup {"ready"}]
    /\ GoTo(w, "return")
    /\ UNCHANGED <<row, files, world, job, web, faults>>

(* The catch block.  (Variant first: it writes FAILED and tells nobody.)   *)
MarkFailedOnly(w) ==
    /\ At(w, "markFailed")
    /\ row' = [row EXCEPT ![Of(w)].status = "FAILED"]
    /\ GoTo(w, "throw")
    /\ UNCHANGED <<files, world, inbox, job, web, faults>>

MarkFailed(w) ==
    /\ At(w, "markFailed")
    /\ row' = [row EXCEPT ![Of(w)].status = "FAILED"]
    /\ GoTo(w, "askFailed")
    /\ UNCHANGED <<files, world, inbox, job, web, faults>>

AskFailed(w) == Ask(w, "askFailed", "tellFailed", "throw")

Tell(w, next) ==
    /\ At(w, "tellFailed")
    /\ inbox' = [inbox EXCEPT ![Of(w)] = inbox[Of(w)] \cup {"failed"}]
    /\ GoTo(w, next)
    /\ UNCHANGED <<row, files, world, job, web, faults>>

(* (Variant first: the error is swallowed, the attempt returns.)           *)
TellFailedAndReturn(w) == Tell(w, "return")

TellFailed(w) == Tell(w, "throw")

-----------------------------------------------------------------------------
(* The end of an attempt: it counts for the job if the worker has its lock. *)

Owns(w) == job[Of(w)].state = "active" /\ job[Of(w)].owner = w

Return(w) ==
    /\ At(w, "return")
    /\ job' = IF Owns(w)
              THEN [job EXCEPT ![Of(w)].state = "completed", ![Of(w)].owner = NoOne]
              ELSE job
    /\ worker' = [worker EXCEPT ![w] = Idle]
    /\ UNCHANGED <<row, files, world, inbox, web, faults>>

Throw(w) ==
    /\ At(w, "throw")
    /\ job' = IF Owns(w)
              THEN [job EXCEPT ![Of(w)].threw = job[Of(w)].threw + 1,
                               ![Of(w)].owner = NoOne,
                               ![Of(w)].state = IF job[Of(w)].threw + 1 < Attempts
                                                THEN "waiting" ELSE "failed"]
              ELSE job
    /\ worker' = [worker EXCEPT ![w] = Idle]
    /\ UNCHANGED <<row, files, world, inbox, web, faults>>

-----------------------------------------------------------------------------
(* The exports page: every three seconds it asks for the rows it shows as   *)
(* unfinished; answers arrive in any order, and each replaces what is shown. *)
(* A page that is left forgets its jobs.                                   *)

(* (Variant first: the page asks once.)                                    *)
PollOnce(e, p) ==
    /\ page[e] = "PENDING"
    /\ polls[e][p] = "none"
    /\ polls' = [polls EXCEPT ![e] = [polls[e] EXCEPT ![p] = row[e].status]]
    /\ page' = [page EXCEPT ![e] = "PROCESSING"]
    /\ UNCHANGED <<row, files, world, inbox, job, worker, faults>>

Poll(e, p) ==
    /\ page[e] \in {"PENDING", "PROCESSING"}
    /\ polls[e][p] = "none"
    /\ polls' = [polls EXCEPT ![e] = [polls[e] EXCEPT ![p] = row[e].status]]
    /\ UNCHANGED <<row, files, world, inbox, job, worker, page, faults>>

Arrive(e, p) ==
    /\ polls[e][p] # "none"
    /\ page' = IF page[e] = "closed" THEN page ELSE [page EXCEPT ![e] = polls[e][p]]
    /\ polls' = [polls EXCEPT ![e] = [polls[e] EXCEPT ![p] = "none"]]
    /\ UNCHANGED <<row, files, world, inbox, job, worker, faults>>

ClosePage(e) ==
    /\ page[e] \in Status
    /\ page' = [page EXCEPT ![e] = "closed"]
    /\ UNCHANGED <<row, files, world, inbox, job, worker, polls, faults>>

(* deactivateUser; nothing activates a user again.                         *)
DeactivateUser(e) ==
    /\ inactive' = inactive \cup {e}
    /\ UNCHANGED <<row, files, oversized, inbox, job, worker, web, faults>>

(* Complaints come in until the filters match too many.                    *)
Outgrow(e) ==
    /\ oversized' = oversized \cup {e}
    /\ UNCHANGED <<row, files, inactive, inbox, job, worker, web, faults>>

-----------------------------------------------------------------------------
(* Faults.                                                                 *)

Fault == faults < MaxFaults /\ faults' = faults + 1

(* The queue refuses the job: the row stays, the request fails.            *)
AddJobFails(e) ==
    /\ Fault
    /\ row[e].status = "PENDING"
    /\ job[e].state = "none"
    /\ page[e] = "none"
    /\ page' = [page EXCEPT ![e] = "closed"]
    /\ UNCHANGED <<row, files, world, inbox, job, worker, polls>>

(* A call of an attempt fails: inside the try block the catch block is next. *)
CallFails(w) ==
    /\ Fault
    /\ \/ /\ worker[w].pc \in {"build", "put", "writeReady", "askReady", "tellReady"}
          /\ GoTo(w, "markFailed")
       \/ /\ worker[w].pc \in {"mark", "markFailed", "askFailed", "tellFailed"}
          /\ GoTo(w, "throw")
    /\ UNCHANGED <<row, files, world, inbox, job, web>>

PollFails(e, p) ==
    /\ Fault
    /\ polls[e][p] # "none"
    /\ polls' = [polls EXCEPT ![e] = [polls[e] EXCEPT ![p] = "none"]]
    /\ UNCHANGED <<row, files, world, inbox, job, worker, page>>

HandOutAgain(e) ==
    job' = [job EXCEPT ![e].owner = NoOne, ![e].stalls = job[e].stalls + 1,
                       ![e].state = IF job[e].stalls < MaxStalls THEN "waiting" ELSE "failed"]

LoseLock(e) ==
    /\ Fault
    /\ job[e].state = "active"
    /\ HandOutAgain(e)
    /\ UNCHANGED <<row, files, world, inbox, worker, web>>

Die(w) ==
    /\ Fault
    /\ worker[w] # Idle
    /\ IF Owns(w) THEN HandOutAgain(Of(w)) ELSE UNCHANGED job
    /\ worker' = [worker EXCEPT ![w] = Idle]
    /\ UNCHANGED <<row, files, world, inbox, web>>

-----------------------------------------------------------------------------
Attempt(w) ==
    \/ MarkProcessing(w)
    \/ Build(w)
    \/ Put(w)
    \/ WriteReady(w)
    \/ AskReady(w)
    \/ TellReady(w)
    \/ MarkFailed(w)
    \/ AskFailed(w)
    \/ TellFailed(w)
    \/ Return(w)
    \/ Throw(w)

Polling(e, p) == Poll(e, p) \/ Arrive(e, p) \/ PollFails(e, p)

People(e) == ClosePage(e) \/ DeactivateUser(e) \/ Outgrow(e)

Next ==
    \/ \E e \in Exports :
          \/ CreateExport(e) \/ AddJob(e) \/ AddJobFails(e) \/ LoseLock(e) \/ People(e)
          \/ \E p \in Polls : Polling(e, p)
    \/ \E w \in Workers :
          Attempt(w) \/ CallFails(w) \/ Die(w) \/ \E e \in Exports : Take(w, e)

Spec == Init /\ [][Next]_vars

(* A started request goes on, a waiting job is taken, a taken one is worked *)
(* on; an open page polls and its answers arrive.                          *)
Fairness ==
    /\ \A e \in Exports : /\ WF_vars(AddJob(e))
                          /\ WF_vars(\E w \in Workers : Take(w, e))
                          /\ \A p \in Polls : WF_vars(Poll(e, p)) /\ WF_vars(Arrive(e, p))
    /\ \A w \in Workers : WF_vars(Attempt(w))

FairSpec == Spec /\ Fairness

-----------------------------------------------------------------------------
(* Properties.                                                             *)

(* Nothing says that a file is ready before it is in the bucket: not the    *)
(* row, on which getExportDownload signs a URL, and not the inbox, whose    *)
(* notice outlives the row's status.                                       *)
AnnouncedIsThere ==
    \A e \in Exports :
        row[e].status = "READY" \/ "ready" \in inbox[e]
            => e \in files /\ row[e].storageKey

(* A job that ended well has a READY row and an active requester who was    *)
(* told: no failure of an attempt is lost.  (A second worker in the export  *)
(* takes a lost lock.)                                                     *)
CompletedIsDelivered ==
    \A e \in Exports :
        job[e].state = "completed" /\ job[e].stalls = 0 =>
            /\ row[e].status = "READY"
            /\ "ready" \in inbox[e] \/ e \in inactive

(* A requester whose job is given up was told, unless a call failed in      *)
(* every attempt: one whole attempt is enough.                             *)
GivenUpIsTold ==
    \A e \in Exports :
        job[e].state = "failed" /\ job[e].stalls = 0 /\ faults < Attempts =>
            "failed" \in inbox[e] \/ e \in inactive

(* Without a failed call or a lost lock a READY export stays READY: neither *)
(* an inactive requester nor a later attempt takes it back.                *)
ReadyStep ==
    \A e \in Exports :
        row[e].status = "READY" /\ faults = 0 => row'[e].status = "READY"

ReadyStands == [][ReadyStep]_vars

(* The page does not go on polling an export that has ended, whatever the   *)
(* order of the answers; and if no call failed it shows the outcome.  (If   *)
(* one did, it can stay at the FAILED of an attempt that was tried again.)  *)
PageSettles ==
    \A e \in Exports :
        (page[e] \in Status /\ <>[](row[e].status \in Ended)) ~>
            [](\/ page[e] = "closed"
               \/ /\ page[e] \in Ended
                  /\ faults = 0 /\ e \notin oversized => page[e] = row[e].status)
====
