-------------------------------- MODULE DocumentScan --------------------------------
(***************************************************************************)
(* An evidence file between two stores and a queue: upload puts it into    *)
(* the quarantine bucket, writes its row and adds a scan job; processScan  *)
(* moves a clean file to the live bucket and removes an infected one;      *)
(* delete removes the objects its row named, then the row.                 *)
(*                                                                         *)
(* A step is one call to MinIO, Postgres or the queue.  Two workers can be *)
(* in the same document: BullMQ hands the job of a worker that is slow to  *)
(* renew its lock to another one while the first goes on.  The queue and   *)
(* the bucket store are modelled from how the code uses them.              *)
(***************************************************************************)
EXTENDS Naturals

CONSTANTS
    Documents,
    Workers,        \* workers of the document-scan queue
    NoOne,          \* neither a worker nor a document
    Attempts,       \* the job's "attempts"
    MaxStalls,      \* how often BullMQ hands out a stalled job again
    MaxFaults       \* bound: failed calls, lost locks, crashes

ASSUME NoOneAssumption    == NoOne \notin Workers \cup Documents
ASSUME LimitsAssumption   == Attempts \in Nat \ {0} /\ MaxStalls \in Nat /\ MaxFaults \in Nat

VARIABLES
    row,            \* the documents row: status, and whether its two keys are set
    infected,       \* the files the scanner finds a signature in
    quarantine,     \* the files in the quarantine bucket
    live,           \* the files in the live bucket
    upload,         \* the step each upload is at
    deletion,       \* the step each delete is at, and what it read
    job,            \* the scan job: state, owner, failed attempts, stalls; and, for the
                    \* properties, whether a worker went on without its lock
    worker,         \* where each worker is, in which document
    faults

stores == <<infected, quarantine, live>>
vars   == <<row, infected, quarantine, live, upload, deletion, job, worker, faults>>

Verdicts == {"CLEAN", "INFECTED"}
Settled  == Verdicts \cup {"FAILED"}
Row      == [status : {"NONE", "PENDING", "SCANNING", "DELETED"} \cup Settled,
             quarantineKey : BOOLEAN, liveKey : BOOLEAN]
Deletion == [pc : {"none", "quarantine", "live", "row", "ended"},
             quarantineKey : BOOLEAN, liveKey : BOOLEAN, settled : BOOLEAN]
Job      == [state : {"none", "waiting", "active", "completed", "failed"},
             owner : Workers \cup {NoOne}, made : Nat, stalls : Nat,
             overlapped : BOOLEAN]
ScanStep == {"read", "mark", "scan", "copy", "removeClean", "writeClean",
             "removeInfected", "writeInfected", "markFailed", "return", "throw"}
Worker   == [pc : ScanStep, of : Documents] \cup {[pc |-> "idle", of |-> NoOne]}

Idle == [pc |-> "idle", of |-> NoOne]

TypeOK ==
    /\ row \in [Documents -> Row]
    /\ infected \subseteq Documents
    /\ quarantine \subseteq Documents
    /\ live \subseteq Documents
    /\ upload \in [Documents -> {"none", "create", "enqueue", "ended"}]
    /\ deletion \in [Documents -> Deletion]
    /\ job \in [Documents -> Job]
    /\ worker \in [Workers -> Worker]
    /\ faults \in Nat

Init ==
    /\ row = [d \in Documents |->
                [status |-> "NONE", quarantineKey |-> FALSE, liveKey |-> FALSE]]
    /\ infected = {}
    /\ quarantine = {}
    /\ live = {}
    /\ upload = [d \in Documents |-> "none"]
    /\ deletion = [d \in Documents |-> [pc |-> "none", quarantineKey |-> FALSE,
                                        liveKey |-> FALSE, settled |-> FALSE]]
    /\ job = [d \in Documents |-> [state |-> "none", owner |-> NoOne,
                                   made |-> 0, stalls |-> 0, overlapped |-> FALSE]]
    /\ worker = [w \in Workers |-> Idle]
    /\ faults = 0

Exists(d) == row[d].status \notin {"NONE", "DELETED"}

-----------------------------------------------------------------------------
(* upload, after its checks.                                               *)

PutObject(d) ==
    /\ upload[d] = "none"
    /\ infected' \in {infected, infected \cup {d}}
    /\ quarantine' = quarantine \cup {d}
    /\ upload' = [upload EXCEPT ![d] = "create"]
    /\ UNCHANGED <<row, live, deletion, job, worker, faults>>

CreateRow(d) ==
    /\ upload[d] = "create"
    /\ row' = [row EXCEPT ![d].status = "PENDING", ![d].quarantineKey = TRUE]
    /\ upload' = [upload EXCEPT ![d] = "enqueue"]
    /\ UNCHANGED <<stores, deletion, job, worker, faults>>

AddJob(d) ==
    /\ upload[d] = "enqueue"
    /\ job' = [job EXCEPT ![d].state = "waiting"]
    /\ upload' = [upload EXCEPT ![d] = "ended"]
    /\ UNCHANGED <<row, stores, deletion, worker, faults>>

-----------------------------------------------------------------------------
(* processScan, one attempt of the job.                                    *)

At(w, step) == worker[w].pc = step

Of(w) == worker[w].of

GoTo(w, step) == worker' = [worker EXCEPT ![w].pc = step]

Take(w, d) ==
    /\ worker[w] = Idle
    /\ job[d].state = "waiting"
    /\ job' = [job EXCEPT ![d].state = "active", ![d].owner = w]
    /\ worker' = [worker EXCEPT ![w] = [pc |-> "read", of |-> d]]
    /\ UNCHANGED <<row, stores, upload, deletion, faults>>

(* (Variant first: any document that is still there is scanned.)           *)
ReadAny(w) ==
    /\ At(w, "read")
    /\ GoTo(w, IF Exists(Of(w)) THEN "mark" ELSE "return")
    /\ UNCHANGED <<row, stores, upload, deletion, job, faults>>

Read(w) ==
    /\ At(w, "read")
    /\ GoTo(w, IF row[Of(w)].status = "PENDING" THEN "mark" ELSE "return")
    /\ UNCHANGED <<row, stores, upload, deletion, job, faults>>

(* The update names the id only; without a row it throws.  A PENDING row    *)
(* has its quarantineKey, so the branch for a missing one is never taken.   *)
MarkScanning(w) ==
    /\ At(w, "mark")
    /\ IF Exists(Of(w))
       THEN /\ row' = [row EXCEPT ![Of(w)].status = "SCANNING"]
            /\ GoTo(w, "scan")
       ELSE GoTo(w, "throw") /\ UNCHANGED row
    /\ UNCHANGED <<stores, upload, deletion, job, faults>>

(* getObject and the scanner's answer.  (Variant first: nobody reads it.)   *)
ScanIgnored(w) ==
    /\ At(w, "scan")
    /\ GoTo(w, IF Of(w) \in quarantine THEN "copy" ELSE "markFailed")
    /\ UNCHANGED <<row, stores, upload, deletion, job, faults>>

Scan(w) ==
    /\ At(w, "scan")
    /\ GoTo(w, IF Of(w) \notin quarantine THEN "markFailed"
               ELSE IF Of(w) \in infected THEN "removeInfected" ELSE "copy")
    /\ UNCHANGED <<row, stores, upload, deletion, job, faults>>

RemoveFromQuarantine(w, from, to) ==
    /\ At(w, from)
    /\ quarantine' = quarantine \ {Of(w)}
    /\ GoTo(w, to)
    /\ UNCHANGED <<row, infected, live, upload, deletion, job, faults>>

RemoveInfected(w) == RemoveFromQuarantine(w, "removeInfected", "writeInfected")

RemoveClean(w) == RemoveFromQuarantine(w, "removeClean", "writeClean")

(* (Variant first: the file is moved by removing it before the copy.)      *)
CopyAfterRemove(w) ==
    /\ At(w, "copy")
    /\ quarantine' = quarantine \ {Of(w)}
    /\ GoTo(w, "writeClean")
    /\ UNCHANGED <<row, infected, live, upload, deletion, job, faults>>

Copy(w) ==
    /\ At(w, "copy")
    /\ IF Of(w) \in quarantine
       THEN live' = live \cup {Of(w)} /\ GoTo(w, "removeClean")
       ELSE GoTo(w, "markFailed") /\ UNCHANGED live
    /\ UNCHANGED <<row, infected, quarantine, upload, deletion, job, faults>>

(* An update inside the try: a missing row is an error like any other.     *)
(* (Variant first: the update asks for the status the attempt read.)       *)
WriteVerdictIfPending(w, from, verdict, liveKey) ==
    /\ At(w, from)
    /\ row' = IF row[Of(w)].status = "PENDING"
              THEN [row EXCEPT ![Of(w)] = [status |-> verdict, quarantineKey |-> FALSE,
                                           liveKey |-> liveKey]]
              ELSE row
    /\ GoTo(w, "return")
    /\ UNCHANGED <<stores, upload, deletion, job, faults>>

WriteVerdict(w, from, verdict, liveKey) ==
    /\ At(w, from)
    /\ IF Exists(Of(w))
       THEN /\ row' = [row EXCEPT ![Of(w)] = [status |-> verdict, quarantineKey |-> FALSE,
                                             liveKey |-> liveKey]]
            /\ GoTo(w, "return")
       ELSE GoTo(w, "markFailed") /\ UNCHANGED row
    /\ UNCHANGED <<stores, upload, deletion, job, faults>>

(* The update to INFECTED does not mention liveKey.                        *)
WriteInfected(w) == WriteVerdict(w, "writeInfected", "INFECTED", row[Of(w)].liveKey)

WriteClean(w) == WriteVerdict(w, "writeClean", "CLEAN", TRUE)

(* The catch block; whether markFailed finds the row or not, the attempt    *)
(* throws.                                                                 *)
MarkFailed(w) ==
    /\ At(w, "markFailed")
    /\ row' = IF Exists(Of(w)) THEN [row EXCEPT ![Of(w)].status = "FAILED"] ELSE row
    /\ GoTo(w, "throw")
    /\ UNCHANGED <<stores, upload, deletion, job, faults>>

Owns(w) == job[Of(w)].state = "active" /\ job[Of(w)].owner = w

(* The end of an attempt counts for the job only if the worker still has    *)
(* its lock.                                                               *)
Return(w) ==
    /\ At(w, "return")
    /\ job' = IF Owns(w)
              THEN [job EXCEPT ![Of(w)].state = "completed", ![Of(w)].owner = NoOne]
              ELSE job
    /\ worker' = [worker EXCEPT ![w] = Idle]
    /\ UNCHANGED <<row, stores, upload, deletion, faults>>

Throw(w) ==
    /\ At(w, "throw")
    /\ job' = IF Owns(w)
              THEN [job EXCEPT ![Of(w)].made = job[Of(w)].made + 1,
                               ![Of(w)].owner = NoOne,
                               ![Of(w)].state = IF job[Of(w)].made + 1 < Attempts
                                                THEN "waiting" ELSE "failed"]
              ELSE job
    /\ worker' = [worker EXCEPT ![w] = Idle]
    /\ UNCHANGED <<row, stores, upload, deletion, faults>>

-----------------------------------------------------------------------------
(* delete: one read, then the objects it named, then the row.              *)

ReadForDelete(d) ==
    /\ Exists(d)
    /\ deletion[d].pc \in {"none", "ended"}
    /\ deletion' = [deletion EXCEPT ![d] =
                      [pc |-> "quarantine", quarantineKey |-> row[d].quarantineKey,
                       liveKey |-> row[d].liveKey, settled |-> row[d].status \in Settled]]
    /\ UNCHANGED <<row, stores, upload, job, worker, faults>>

DeleteQuarantined(d) ==
    /\ deletion[d].pc = "quarantine"
    /\ quarantine' = IF deletion[d].quarantineKey THEN quarantine \ {d} ELSE quarantine
    /\ deletion' = [deletion EXCEPT ![d].pc = "live"]
    /\ UNCHANGED <<row, infected, live, upload, job, worker, faults>>

(* (Variant first: only the quarantined object is looked after.)           *)
DeleteLiveForgotten(d) ==
    /\ deletion[d].pc = "live"
    /\ deletion' = [deletion EXCEPT ![d].pc = "row"]
    /\ UNCHANGED <<row, stores, upload, job, worker, faults>>

DeleteLive(d) ==
    /\ deletion[d].pc = "live"
    /\ live' = IF deletion[d].liveKey THEN live \ {d} ELSE live
    /\ deletion' = [deletion EXCEPT ![d].pc = "row"]
    /\ UNCHANGED <<row, infected, quarantine, upload, job, worker, faults>>

DeleteRow(d) ==
    /\ deletion[d].pc = "row"
    /\ row' = [row EXCEPT ![d] = [status |-> "DELETED", quarantineKey |-> FALSE,
                                 liveKey |-> FALSE]]
    /\ deletion' = [deletion EXCEPT ![d].pc = "ended"]
    /\ UNCHANGED <<stores, upload, job, worker, faults>>

-----------------------------------------------------------------------------
(* Faults.                                                                 *)

Fault == faults < MaxFaults /\ faults' = faults + 1

(* MinIO, the scanner, Postgres or Redis refuses a call of an upload.      *)
UploadFails(d) ==
    /\ Fault
    /\ upload[d] \in {"create", "enqueue"}
    /\ upload' = [upload EXCEPT ![d] = "ended"]
    /\ UNCHANGED <<row, stores, deletion, job, worker>>

(* ... of an attempt: inside the try block the catch block is next.        *)
CallFails(w) ==
    /\ Fault
    /\ \/ /\ worker[w].pc \in {"scan", "copy", "removeClean", "writeClean",
                               "removeInfected", "writeInfected"}
          /\ GoTo(w, "markFailed")
       \/ /\ worker[w].pc \in {"read", "mark", "markFailed"}
          /\ GoTo(w, "throw")
    /\ UNCHANGED <<row, stores, upload, deletion, job>>

(* ... of a delete: an object that cannot be removed is passed over; the    *)
(* handler may end at every step.                                          *)
DeleteFails(d) ==
    /\ Fault
    /\ \/ /\ deletion[d].pc = "quarantine"
          /\ deletion' = [deletion EXCEPT ![d].pc = "live"]
       \/ /\ deletion[d].pc = "live"
          /\ deletion' = [deletion EXCEPT ![d].pc = "row"]
       \/ /\ deletion[d].pc \in {"quarantine", "live", "row"}
          /\ deletion' = [deletion EXCEPT ![d].pc = "ended"]
    /\ UNCHANGED <<row, stores, upload, job, worker>>

(* The lock of an active job runs out: it is handed out again MaxStalls     *)
(* times and given up after that.  Its worker may have died or may go on.  *)
HandOutAgain(d, goesOn) ==
    job' = [job EXCEPT ![d].owner = NoOne, ![d].stalls = job[d].stalls + 1,
                       ![d].state = IF job[d].stalls < MaxStalls THEN "waiting" ELSE "failed",
                       ![d].overlapped = job[d].overlapped \/ goesOn]

LoseLock(d) ==
    /\ Fault
    /\ job[d].state = "active"
    /\ HandOutAgain(d, TRUE)
    /\ UNCHANGED <<row, stores, upload, deletion, worker>>

Die(w) ==
    /\ Fault
    /\ worker[w] # Idle
    /\ IF Owns(w) THEN HandOutAgain(Of(w), FALSE) ELSE UNCHANGED job
    /\ worker' = [worker EXCEPT ![w] = Idle]
    /\ UNCHANGED <<row, stores, upload, deletion>>

-----------------------------------------------------------------------------
Uploading(d) == PutObject(d) \/ CreateRow(d) \/ AddJob(d)

Deleting(d) == ReadForDelete(d) \/ DeleteQuarantined(d) \/ DeleteLive(d) \/ DeleteRow(d)

ScanStepOf(w) ==
    \/ Read(w)
    \/ MarkScanning(w)
    \/ Scan(w)
    \/ RemoveInfected(w)
    \/ WriteInfected(w)
    \/ Copy(w)
    \/ RemoveClean(w)
    \/ WriteClean(w)
    \/ MarkFailed(w)
    \/ Return(w)
    \/ Throw(w)

Next ==
    \/ \E d \in Documents :
          Uploading(d) \/ Deleting(d) \/ UploadFails(d) \/ DeleteFails(d) \/ LoseLock(d)
    \/ \E w \in Workers :
          ScanStepOf(w) \/ CallFails(w) \/ Die(w) \/ \E d \in Documents : Take(w, d)

Spec == Init /\ [][Next]_vars

(* A started handler goes on, a waiting job is taken by some worker and a  *)
(* taken one is worked on.  Nobody is obliged to upload or to delete.      *)
Fairness ==
    /\ \A d \in Documents : /\ WF_vars(CreateRow(d) \/ AddJob(d))
                            /\ WF_vars(\E w \in Workers : Take(w, d))
    /\ \A w \in Workers : WF_vars(ScanStepOf(w))

FairSpec == Spec /\ Fairness

-----------------------------------------------------------------------------
(* Properties.                                                             *)

(* getDownloadUrl signs a URL for this document.                           *)
Downloadable(d) == row[d].status = "CLEAN" /\ row[d].liveKey

DeleteBegun(d) == deletion[d].pc # "none"

(* Whatever overlaps, retries or dies, no infected file reaches the live   *)
(* bucket, and a URL is signed only for a file that is there, unless a     *)
(* delete is at work on it.                                                *)
ServedIsClean ==
    /\ live \cap infected = {}
    /\ \A d \in Documents :
          Downloadable(d) => d \notin infected /\ (d \in live \/ DeleteBegun(d))

(* A citizen's evidence is never lost on its way between the buckets: a    *)
(* clean file with a row and no delete is in one of the two.               *)
EvidenceKept ==
    \A d \in Documents \ infected :
        Exists(d) /\ ~DeleteBegun(d) => d \in quarantine \cup live

(* What was deleted once its scan had ended leaves no object behind; the   *)
(* delete of a document under scan can.                                    *)
DeletedIsGone ==
    \A d \in Documents :
        row[d].status = "DELETED" /\ deletion[d].settled /\ faults = 0
            => d \notin quarantine \cup live

(* The scanner's word stands: no retry, no second attempt after a death at  *)
(* any step and no failed call takes CLEAN or INFECTED back.  Only a second *)
(* worker can, beside one that lost its lock and went on.  (FAILED is no    *)
(* verdict: it says that there is none.)                                   *)
VerdictStep ==
    \A d \in Documents :
        row[d].status \in Verdicts /\ ~job[d].overlapped =>
            row'[d].status \in {row[d].status, "DELETED"}

VerdictIsFinal == [][VerdictStep]_vars

Right(d) == IF d \in infected THEN "INFECTED" ELSE "CLEAN"

(* The job is over, or was never added, and the file was not scanned: the   *)
(* queue was down, every attempt failed before it could mark the row, or    *)
(* one died or lost the database after it had, which no later attempt       *)
(* repairs.                                                                *)
LeftUnscanned(d) ==
    \/ upload[d] = "ended" /\ job[d].state = "none"
    \/ job[d].state = "failed"
    \/ /\ row[d].status = "SCANNING" /\ job[d].state = "completed"
       /\ job[d].made + job[d].stalls > 0

(* Each file whose row was written gets its right verdict or is shown as    *)
(* FAILED, in spite of failed calls, lost locks and workers that overlap.  *)
ScanSettles ==
    \A d \in Documents :
        row[d].status = "PENDING" ~> \/ row[d].status \in {Right(d), "FAILED"}
                                     \/ DeleteBegun(d)
                                     \/ LeftUnscanned(d)
====
