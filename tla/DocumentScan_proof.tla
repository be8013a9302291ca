----------------------------- MODULE DocumentScan_proof -----------------------------
(***************************************************************************)
(* What holds of the evidence files for any number of documents, of        *)
(* workers in the same document, of retries and of faults.                 *)
(*                                                                         *)
(* The scanner's answer is the place an attempt is at, so the invariant    *)
(* says what each place knows of its file, and that no attempt is in a     *)
(* file whose upload has not ended.                                        *)
(***************************************************************************)
EXTENDS DocumentScan, TLAPS

UploadInv(d) ==
    /\ upload[d] \in {"none", "create"} => row[d].status = "NONE"
    /\ upload[d] = "create" => d \in quarantine
    /\ job[d].state # "none" => upload[d] = "ended"
    /\ d \in live => upload[d] = "ended"
    /\ DeleteBegun(d) => upload[d] \notin {"none", "create"}

AttemptInv(w) ==
    worker[w].pc # "idle" =>
        /\ upload[Of(w)] = "ended"
        /\ worker[w].pc \in {"copy", "removeClean", "writeClean"} => Of(w) \notin infected
        /\ worker[w].pc \in {"removeInfected", "writeInfected"} => Of(w) \in infected
        /\ worker[w].pc \in {"removeClean", "writeClean"} => Of(w) \in live \/ DeleteBegun(Of(w))

RowInv(d) == row[d].status = "CLEAN" => d \notin infected /\ (d \in live \/ DeleteBegun(d))

IInv ==
    /\ TypeOK
    /\ \A d \in Documents : UploadInv(d) /\ RowInv(d)
    /\ \A w \in Workers : AttemptInv(w)
    /\ live \cap infected = {}
    /\ EvidenceKept

-----------------------------------------------------------------------------
(* Types.                                                                  *)

LEMMA WorkerType ==
    ASSUME TypeOK, NEW w \in Workers
    PROVE  /\ worker[w].pc # "idle" => Of(w) \in Documents /\ worker[w].pc \in ScanStep
           /\ worker[w].pc = "idle" => worker[w] = Idle
           /\ worker[w] # Idle => worker[w].pc # "idle"
<1>1. worker[w] \in Worker
  BY DEF TypeOK
<1>2. "idle" \notin ScanStep
  BY DEF ScanStep
<1>3. CASE worker[w] = Idle
  BY <1>3 DEF Idle
<1>4. CASE worker[w] \in [pc : ScanStep, of : Documents]
  BY <1>2, <1>4 DEF Of
<1> QED
  BY <1>1, <1>3, <1>4 DEF Worker, Idle

(* A worker that goes on to its next step stays in its document.           *)
LEMMA Goes ==
    ASSUME TypeOK, NEW w \in Workers, worker[w].pc # "idle", NEW step \in ScanStep,
           GoTo(w, step)
    PROVE  /\ worker' \in [Workers -> Worker]
           /\ worker'[w].pc = step /\ worker'[w].of = Of(w)
           /\ \A v \in Workers : v # w => worker'[v] = worker[v]
<1>1. Of(w) \in Documents /\ worker[w] \in Worker
  BY WorkerType DEF TypeOK
<1>2. worker[w] \in [pc : ScanStep, of : Documents]
  BY <1>1 DEF Worker, Idle
<1>3. [worker[w] EXCEPT !.pc = step] \in [pc : ScanStep, of : Documents]
  BY <1>2
<1>4. worker' = [worker EXCEPT ![w] = [worker[w] EXCEPT !.pc = step]]
  BY DEF GoTo, TypeOK
<1>5. worker' \in [Workers -> Worker]
  BY <1>3, <1>4 DEF Worker, TypeOK
<1> QED
  BY <1>2, <1>4, <1>5 DEF Of, TypeOK

LEMMA Leaves ==
    ASSUME TypeOK, NEW w \in Workers, worker' = [worker EXCEPT ![w] = Idle]
    PROVE  /\ worker' \in [Workers -> Worker]
           /\ worker'[w].pc = "idle"
           /\ \A v \in Workers : v # w => worker'[v] = worker[v]
BY DEF TypeOK, Worker, Idle

LEMMA InitType == Init => TypeOK
BY NoOneAssumption DEF Init, TypeOK, Row, Deletion, Job, Worker, Idle, Verdicts

LEMMA JobType ==
    ASSUME TypeOK, NEW d \in Documents
    PROVE  /\ job[d] \in Job
           /\ job[d].state \in {"none", "waiting", "active", "completed", "failed"}
           /\ job[d].made \in Nat /\ job[d].stalls \in Nat
           /\ job[d].owner \in Workers \cup {NoOne}
BY DEF TypeOK, Job

LEMMA HandedOut ==
    ASSUME TypeOK, NEW d \in Documents, NEW b \in BOOLEAN, HandOutAgain(d, b)
    PROVE  /\ job' \in [Documents -> Job]
           /\ job'[d].state # "none"
           /\ job'[d].overlapped = (job[d].overlapped \/ b)
           /\ \A e \in Documents : e # d => job'[e] = job[e]
<1> DEFINE s == IF job[d].stalls < MaxStalls THEN "waiting" ELSE "failed"
           t == job[d].stalls + 1
           o == job[d].overlapped \/ b
           j == [job[d] EXCEPT !.owner = NoOne, !.stalls = t, !.state = s, !.overlapped = o]
<1>1. s \in {"waiting", "failed"} /\ t \in Nat /\ o \in BOOLEAN
  BY JobType
<1>2. job' = [job EXCEPT ![d] = j]
  BY DEF HandOutAgain, TypeOK
<1> HIDE DEF s, t
<1>4. j \in Job /\ j.state = s /\ j.overlapped = o
  <2> HIDE DEF o
  <2> QED
    BY JobType, <1>1 DEF Job
<1> HIDE DEF j
<1>5. job'[d] = j /\ job' \in [Documents -> Job]
  BY <1>2, <1>4 DEF TypeOK
<1> QED
  BY <1>1, <1>2, <1>4, <1>5 DEF TypeOK

(* What an attempt's end makes of the job, whoever owns it by then.        *)
LEMMA Ended ==
    ASSUME TypeOK, NEW w \in Workers, Return(w) \/ Throw(w)
    PROVE  /\ job' \in [Documents -> Job]
           /\ \A e \in Documents : job'[e].state = "none" <=> job[e].state = "none"
           /\ \A e \in Documents : e # Of(w) \/ ~Owns(w) => job'[e] = job[e]
           /\ \A e \in Documents : job'[e].overlapped = job[e].overlapped
<1>1. Of(w) \in Documents
  BY WorkerType DEF Return, Throw, At
<1> DEFINE d == Of(w)
           m == job[d].made + 1
           s == IF m < Attempts THEN "waiting" ELSE "failed"
<1>2. d \in Documents /\ m \in Nat /\ s \in {"waiting", "failed"}
  BY <1>1, JobType
<1>3. CASE Return(w) /\ Owns(w)
  <2>1. job' = [job EXCEPT ![d] = [job[d] EXCEPT !.state = "completed", !.owner = NoOne]]
    BY <1>1, <1>3 DEF Return, TypeOK
  <2> HIDE DEF d, m, s
  <2>2. [job[d] EXCEPT !.state = "completed", !.owner = NoOne] \in Job
    BY <1>2, JobType DEF Job
  <2> QED
    BY <1>2, <1>3, <2>1, <2>2 DEF TypeOK, Owns, d, Job
<1>4. CASE Throw(w) /\ Owns(w)
  <2>1. job' = [job EXCEPT ![d] = [job[d] EXCEPT !.made = m, !.owner = NoOne, !.state = s]]
    BY <1>1, <1>4 DEF Throw, TypeOK
  <2> HIDE DEF d, m, s
  <2>2. [job[d] EXCEPT !.made = m, !.owner = NoOne, !.state = s] \in Job
    BY <1>2, JobType DEF Job
  <2> QED
    BY <1>2, <1>4, <2>1, <2>2 DEF TypeOK, Owns, d, Job
<1>5. CASE ~Owns(w)
  BY <1>5 DEF Return, Throw, TypeOK
<1> QED
  BY <1>3, <1>4, <1>5

LEMMA StatusStep ==
    ASSUME TypeOK, NEW d \in Documents, NEW s \in {"PENDING", "SCANNING", "FAILED"},
           row' = [row EXCEPT ![d].status = s]
    PROVE  /\ row' \in [Documents -> Row]
           /\ row'[d].status = s
           /\ \A e \in Documents : e # d => row'[e] = row[e]
BY DEF TypeOK, Row, Settled, Verdicts

LEMMA VerdictRow ==
    ASSUME TypeOK, NEW d \in Documents, NEW v \in {"CLEAN", "INFECTED"}, NEW k \in BOOLEAN,
           row' = [row EXCEPT ![d] = [status |-> v, quarantineKey |-> FALSE, liveKey |-> k]]
    PROVE  /\ row' \in [Documents -> Row]
           /\ row'[d].status = v
           /\ \A e \in Documents : e # d => row'[e] = row[e]
BY DEF TypeOK, Row, Settled, Verdicts

LEMMA TakeType ==
    ASSUME TypeOK, NEW w \in Workers, NEW d \in Documents, Take(w, d)
    PROVE  /\ TypeOK'
           /\ worker'[w] = [pc |-> "read", of |-> d]
           /\ \A v \in Workers : v # w => worker'[v] = worker[v]
           /\ job'[d].state # "none" /\ job'[d].owner = w
           /\ \A e \in Documents : job'[e].overlapped = job[e].overlapped
           /\ \A e \in Documents : e # d => job'[e] = job[e]
<1>1. job' = [job EXCEPT ![d] = [job[d] EXCEPT !.state = "active", !.owner = w]]
  BY DEF Take, TypeOK
<1>2. [job[d] EXCEPT !.state = "active", !.owner = w] \in Job
  BY JobType DEF Job
<1>3. job' \in [Documents -> Job]
  BY <1>1, <1>2 DEF TypeOK
<1>4. worker' \in [Workers -> Worker]
  BY DEF Take, TypeOK, Worker, ScanStep
<1>5. TypeOK'
  BY <1>3, <1>4 DEF Take, TypeOK, stores
<1>6. job'[d] = [job[d] EXCEPT !.state = "active", !.owner = w]
  BY <1>1 DEF TypeOK
<1>7. job'[d].state # "none" /\ job'[d].owner = w /\ job'[d].overlapped = job[d].overlapped
  BY <1>6, JobType DEF Job
<1> QED
  BY <1>1, <1>5, <1>7 DEF Take, TypeOK

LEMMA NextType == TypeOK /\ [Next]_vars => TypeOK'
<1> SUFFICES ASSUME TypeOK, [Next]_vars PROVE TypeOK'
  OBVIOUS
<1>1. ASSUME NEW d \in Documents, Uploading(d) PROVE TypeOK'
  <2>1. CASE PutObject(d)
    BY <2>1 DEF PutObject, TypeOK
  <2>2. CASE CreateRow(d)
    BY <2>2 DEF CreateRow, TypeOK, Row, stores
  <2>3. CASE AddJob(d)
    <3>1. job' \in [Documents -> Job]
      BY <2>3, JobType DEF AddJob, TypeOK, Job
    <3> QED
      BY <2>3, <3>1 DEF AddJob, TypeOK, stores
  <2> QED
    BY <1>1, <2>1, <2>2, <2>3 DEF Uploading
<1>2. ASSUME NEW d \in Documents, Deleting(d) PROVE TypeOK'
  <2>1. CASE ReadForDelete(d)
    BY <2>1 DEF ReadForDelete, TypeOK, Row, Deletion, Verdicts, stores
  <2>2. CASE DeleteQuarantined(d)
    BY <2>2 DEF DeleteQuarantined, TypeOK, Deletion
  <2>3. CASE DeleteLive(d)
    BY <2>3 DEF DeleteLive, TypeOK, Deletion
  <2>4. CASE DeleteRow(d)
    BY <2>4 DEF DeleteRow, TypeOK, Deletion, Row, stores
  <2> QED
    BY <1>2, <2>1, <2>2, <2>3, <2>4 DEF Deleting
<1>3. ASSUME NEW d \in Documents, UploadFails(d) PROVE TypeOK'
  BY <1>3 DEF UploadFails, Fault, TypeOK, stores
<1>4. ASSUME NEW d \in Documents, DeleteFails(d) PROVE TypeOK'
  <2>1. PICK p \in {"live", "row", "ended"} : deletion' = [deletion EXCEPT ![d].pc = p]
    BY <1>4 DEF DeleteFails
  <2>2. deletion' \in [Documents -> Deletion]
    BY <2>1 DEF TypeOK, Deletion
  <2> QED
    BY <1>4, <2>2 DEF DeleteFails, Fault, TypeOK, stores
<1>5. ASSUME NEW d \in Documents, LoseLock(d) PROVE TypeOK'
  <2>1. job' \in [Documents -> Job]
    BY <1>5, HandedOut DEF LoseLock
  <2> QED
    BY <1>5, <2>1 DEF LoseLock, Fault, TypeOK, stores
<1>6. ASSUME NEW w \in Workers, ScanStepOf(w) PROVE TypeOK'
  <2>1. CASE Read(w)
    BY <2>1, Goes DEF Read, At, ScanStep, TypeOK, stores
  <2>2. CASE MarkScanning(w)
    <3>1. row' \in [Documents -> Row]
      BY <2>2, WorkerType, StatusStep DEF MarkScanning, At, TypeOK
    <3>2. worker' \in [Workers -> Worker]
      BY <2>2, Goes DEF MarkScanning, At, ScanStep
    <3> QED
      BY <2>2, <3>1, <3>2 DEF MarkScanning, TypeOK, stores
  <2>3. CASE Scan(w)
    BY <2>3, Goes DEF Scan, At, ScanStep, TypeOK, stores
  <2>4. CASE RemoveInfected(w)
    BY <2>4, Goes DEF RemoveInfected, RemoveFromQuarantine, At, ScanStep, TypeOK
  <2>5. CASE RemoveClean(w)
    BY <2>5, Goes DEF RemoveClean, RemoveFromQuarantine, At, ScanStep, TypeOK
  <2>6. CASE Copy(w)
    BY <2>6, Goes, WorkerType DEF Copy, At, ScanStep, TypeOK
  <2>7. ASSUME NEW from \in ScanStep, NEW verdict \in {"CLEAN", "INFECTED"}, NEW key \in BOOLEAN,
               WriteVerdict(w, from, verdict, key)
        PROVE  TypeOK'
    <3>1. row' \in [Documents -> Row]
      <4>1. Of(w) \in Documents
        BY <2>7, WorkerType DEF WriteVerdict, At, ScanStep
      <4> QED
        BY <2>7, <4>1, VerdictRow DEF WriteVerdict, TypeOK
    <3>2. worker' \in [Workers -> Worker]
      BY <2>7, Goes DEF WriteVerdict, At, ScanStep
    <3> QED
      BY <2>7, <3>1, <3>2 DEF WriteVerdict, TypeOK, stores
  <2>8. CASE WriteInfected(w)
    <3>1. row[Of(w)].liveKey \in BOOLEAN
      BY <2>8, WorkerType DEF WriteInfected, WriteVerdict, At, TypeOK, Row
    <3> QED
      BY <2>7, <2>8, <3>1 DEF WriteInfected, ScanStep
  <2>9. CASE WriteClean(w)
    BY <2>7, <2>9 DEF WriteClean, ScanStep
  <2>10. CASE MarkFailed(w)
    <3>1. row' \in [Documents -> Row]
      BY <2>10, WorkerType, StatusStep DEF MarkFailed, At, TypeOK
    <3>2. worker' \in [Workers -> Worker]
      BY <2>10, Goes DEF MarkFailed, At, ScanStep
    <3> QED
      BY <2>10, <3>1, <3>2 DEF MarkFailed, TypeOK, stores
  <2>11. CASE Return(w)
    <3>1. job' \in [Documents -> Job]
      BY <2>11, Ended
    <3>2. worker' \in [Workers -> Worker]
      BY <2>11, Leaves DEF Return
    <3> QED
      BY <2>11, <3>1, <3>2 DEF Return, TypeOK, stores
  <2>12. CASE Throw(w)
    <3>1. job' \in [Documents -> Job]
      BY <2>12, Ended
    <3>2. worker' \in [Workers -> Worker]
      BY <2>12, Leaves DEF Throw
    <3> QED
      BY <2>12, <3>1, <3>2 DEF Throw, TypeOK, stores
  <2> QED
    BY <1>6, <2>1, <2>2, <2>3, <2>4, <2>5, <2>6, <2>8, <2>9, <2>10, <2>11, <2>12 DEF ScanStepOf
<1>7. ASSUME NEW w \in Workers, CallFails(w) PROVE TypeOK'
  BY <1>7, Goes DEF CallFails, Fault, ScanStep, TypeOK, stores
<1>8. ASSUME NEW w \in Workers, Die(w) PROVE TypeOK'
  <2>1. Of(w) \in Documents
    BY <1>8, WorkerType DEF Die
  <2>2. job' \in [Documents -> Job]
    BY <1>8, <2>1, HandedOut DEF Die, TypeOK
  <2>3. worker' \in [Workers -> Worker]
    BY <1>8, Leaves DEF Die
  <2> QED
    BY <1>8, <2>2, <2>3 DEF Die, Fault, TypeOK, stores
<1>9. ASSUME NEW w \in Workers, NEW d \in Documents, Take(w, d) PROVE TypeOK'
  BY <1>9, TakeType
<1>10. CASE UNCHANGED vars
  BY <1>10 DEF vars, TypeOK
<1> QED
  BY <1>1, <1>2, <1>3, <1>4, <1>5, <1>6, <1>7, <1>8, <1>9, <1>10 DEF Next

(* Type correctness.                                                       *)
THEOREM Types == Spec => []TypeOK
<1>1. Init => TypeOK
  BY InitType
<1>2. TypeOK /\ [Next]_vars => TypeOK'
  BY NextType
<1> QED
  BY <1>1, <1>2, PTL DEF Spec

-----------------------------------------------------------------------------
(* The invariant.                                                          *)

FileInv(d) ==
    /\ UploadInv(d)
    /\ RowInv(d)
    /\ d \in live => d \notin infected
    /\ d \notin infected /\ Exists(d) /\ ~DeleteBegun(d) => d \in quarantine \cup live

LEMMA IInvParts ==
    TypeOK => (IInv <=> /\ \A d \in Documents : FileInv(d)
                        /\ \A w \in Workers : AttemptInv(w))
BY DEF IInv, FileInv, EvidenceKept, TypeOK

LEMMA IInvNext ==
    ASSUME TypeOK', \A d \in Documents : FileInv(d)', \A w \in Workers : AttemptInv(w)'
    PROVE  IInv'
BY DEF IInv, FileInv, EvidenceKept, TypeOK

LEMMA InitInv == Init => IInv
<1> SUFFICES ASSUME Init PROVE IInv
  OBVIOUS
<1>1. TypeOK
  BY InitType
<1>2. \A d \in Documents : FileInv(d)
  BY DEF Init, FileInv, UploadInv, RowInv, Exists, DeleteBegun
<1>3. \A w \in Workers : AttemptInv(w)
  BY DEF Init, AttemptInv, Idle
<1> QED
  BY <1>1, <1>2, <1>3, IInvParts

(* What an attempt relies on is not taken away under it.                   *)
Kept(d) ==
    upload[d] = "ended" =>
        /\ upload'[d] = "ended"
        /\ d \in infected' <=> d \in infected
        /\ d \in live \/ DeleteBegun(d) => d \in live' \/ deletion'[d].pc # "none"

LEMMA AttemptKept ==
    ASSUME TypeOK, NEW w \in Workers, AttemptInv(w), worker'[w] = worker[w],
           \A d \in Documents : Kept(d)
    PROVE  AttemptInv(w)'
<1>1. CASE worker[w].pc = "idle"
  BY <1>1 DEF AttemptInv
<1>2. CASE worker[w].pc # "idle"
  <2>1. Of(w) \in Documents /\ Kept(Of(w))
    BY <1>2, WorkerType
  <2> QED
    BY <1>2, <2>1 DEF AttemptInv, Kept, Of, DeleteBegun
<1> QED
  BY <1>1, <1>2

(* A step of an upload or a delete.                                        *)
LEMMA FileStep ==
    ASSUME IInv, TypeOK', NEW d \in Documents,
           Uploading(d) \/ Deleting(d) \/ UploadFails(d) \/ DeleteFails(d)
    PROVE  IInv'
<1>1. TypeOK /\ \A e \in Documents : FileInv(e)
  BY IInvParts DEF IInv
<1> SUFFICES worker' = worker /\ \A e \in Documents : FileInv(e)' /\ Kept(e)
  <2>1. \A w \in Workers : worker' = worker => worker'[w] = worker[w]
    OBVIOUS
  <2> QED
    BY <1>1, <2>1, AttemptKept, IInvNext DEF IInv
<1> USE DEF FileInv, UploadInv, RowInv, Exists, DeleteBegun, Kept
<1>3. CASE PutObject(d)
  BY <1>1, <1>3 DEF PutObject, TypeOK
<1>4. CASE CreateRow(d)
  BY <1>1, <1>4 DEF CreateRow, TypeOK, stores, Row
<1>5. CASE AddJob(d)
  <2>1. \A e \in Documents : e # d => job'[e] = job[e]
    BY <1>5 DEF AddJob, TypeOK
  <2> QED
    BY <1>1, <1>5, <2>1 DEF AddJob, TypeOK, stores
<1>6. CASE UploadFails(d)
  BY <1>1, <1>6 DEF UploadFails, Fault, TypeOK, stores
<1>7. CASE ReadForDelete(d)
  BY <1>1, <1>7 DEF ReadForDelete, TypeOK, stores
<1>8. CASE DeleteQuarantined(d)
  BY <1>1, <1>8 DEF DeleteQuarantined, TypeOK, Deletion
<1>9. CASE DeleteLive(d)
  BY <1>1, <1>9 DEF DeleteLive, TypeOK, Deletion
<1>10. CASE DeleteRow(d)
  BY <1>1, <1>10 DEF DeleteRow, TypeOK, Deletion, stores
<1>11. CASE DeleteFails(d)
  BY <1>1, <1>11 DEF DeleteFails, Fault, TypeOK, Deletion, stores
<1> QED
  BY <1>3, <1>4, <1>5, <1>6, <1>7, <1>8, <1>9, <1>10, <1>11 DEF Uploading, Deleting

(* A step of an attempt that goes on.                                      *)
LEMMA ScanGoesOn ==
    ASSUME IInv, TypeOK', NEW w \in Workers,
           \/ Read(w) \/ MarkScanning(w) \/ Scan(w) \/ RemoveInfected(w) \/ WriteInfected(w)
           \/ Copy(w) \/ RemoveClean(w) \/ WriteClean(w) \/ MarkFailed(w) \/ CallFails(w)
    PROVE  IInv'
<1> DEFINE d == Of(w)
<1>1. TypeOK /\ \A e \in Documents : FileInv(e)
  BY IInvParts DEF IInv
<1>2. worker[w].pc # "idle"
  BY DEF Read, MarkScanning, Scan, RemoveInfected, WriteInfected, Copy, RemoveClean,
         WriteClean, MarkFailed, CallFails, RemoveFromQuarantine, WriteVerdict, At
<1>3. d \in Documents /\ FileInv(d) /\ AttemptInv(w) /\ upload[d] = "ended"
  BY <1>1, <1>2, WorkerType, IInvParts DEF IInv, AttemptInv
<1>4. \A step \in ScanStep : GoTo(w, step) =>
         /\ worker'[w].pc = step /\ worker'[w].of = d
         /\ \A v \in Workers : v # w => worker'[v] = worker[v]
  BY <1>1, <1>2, Goes
<1>5. ASSUME \A v \in Workers : v # w => worker'[v] = worker[v],
             AttemptInv(w)',
             \A e \in Documents : FileInv(e)' /\ Kept(e)
      PROVE  IInv'
  <2>1. \A v \in Workers : AttemptInv(v)'
    BY <1>1, <1>5, AttemptKept, IInvParts DEF IInv
  <2> QED
    BY <1>5, <2>1, IInvNext
<1> HIDE DEF d
<1>6. ASSUME UNCHANGED <<row, infected, quarantine, live, upload, deletion, job>>
      PROVE  \A e \in Documents : FileInv(e)' /\ Kept(e)
  BY <1>1, <1>6 DEF FileInv, UploadInv, RowInv, Exists, DeleteBegun, Kept
<1>7. ASSUME NEW s \in ScanStep, worker'[w].pc = s, worker'[w].of = d,
             upload'[d] = "ended",
             s \in {"copy", "removeClean", "writeClean"} => d \notin infected',
             s \in {"removeInfected", "writeInfected"} => d \in infected',
             s \in {"removeClean", "writeClean"} => d \in live' \/ deletion'[d].pc # "none"
      PROVE  AttemptInv(w)'
  BY <1>7 DEF AttemptInv, Of, DeleteBegun
<1>8. CASE Read(w)
  BY <1>3, <1>4, <1>5, <1>6, <1>7, <1>8 DEF Read, stores, ScanStep
<1>9. CASE Scan(w)
  BY <1>3, <1>4, <1>5, <1>6, <1>7, <1>9 DEF Scan, stores, ScanStep, d
<1>10. CASE CallFails(w)
  BY <1>3, <1>4, <1>5, <1>6, <1>7, <1>10 DEF CallFails, Fault, stores, ScanStep
<1>11. ASSUME NEW s \in {"SCANNING", "FAILED"}, Exists(d),
              row' = [row EXCEPT ![d].status = s],
              UNCHANGED <<infected, quarantine, live, upload, deletion, job>>
       PROVE  \A e \in Documents : FileInv(e)' /\ Kept(e)
  <2>1. row'[d].status = s /\ \A e \in Documents : e # d => row'[e] = row[e]
    BY <1>1, <1>3, <1>11, StatusStep
  <2> QED
    BY <1>1, <1>3, <1>11, <2>1 DEF FileInv, UploadInv, RowInv, Exists, DeleteBegun, Kept
<1>12. CASE MarkScanning(w)
  BY <1>3, <1>4, <1>5, <1>6, <1>7, <1>11, <1>12 DEF MarkScanning, stores, ScanStep, d
<1>13. CASE MarkFailed(w)
  BY <1>3, <1>4, <1>5, <1>6, <1>7, <1>11, <1>13 DEF MarkFailed, stores, ScanStep, d
<1>14. CASE RemoveInfected(w)
  <2>1. d \in infected
    BY <1>2, <1>3, <1>14 DEF RemoveInfected, RemoveFromQuarantine, At, AttemptInv, d
  <2>2. \A e \in Documents : FileInv(e)' /\ Kept(e)
    BY <1>1, <1>3, <1>14, <2>1 DEF RemoveInfected, RemoveFromQuarantine, FileInv, UploadInv,
                            RowInv, Exists, DeleteBegun, Kept, d
  <2> QED
    BY <1>3, <1>4, <1>5, <1>7, <1>14, <2>1, <2>2 DEF RemoveInfected, RemoveFromQuarantine, ScanStep
<1>15. CASE RemoveClean(w)
  <2>1. d \notin infected /\ (d \in live \/ DeleteBegun(d))
    BY <1>2, <1>3, <1>15 DEF RemoveClean, RemoveFromQuarantine, At, AttemptInv, d
  <2>2. \A e \in Documents : FileInv(e)' /\ Kept(e)
    BY <1>1, <1>3, <1>15, <2>1 DEF RemoveClean, RemoveFromQuarantine, FileInv, UploadInv,
                            RowInv, Exists, DeleteBegun, Kept, d
  <2> QED
    BY <1>3, <1>4, <1>5, <1>7, <1>15, <2>1, <2>2 DEF RemoveClean, RemoveFromQuarantine, ScanStep,
                                             DeleteBegun
<1>16. CASE Copy(w)
  <2>1. d \notin infected
    BY <1>2, <1>3, <1>16 DEF Copy, At, AttemptInv, d
  <2>2. CASE d \in quarantine
    <3>1. \A e \in Documents : FileInv(e)' /\ Kept(e)
      BY <1>1, <1>3, <1>16, <2>1, <2>2 DEF Copy, FileInv, UploadInv, RowInv, Exists,
                                         DeleteBegun, Kept, d
    <3> QED
      BY <1>3, <1>4, <1>5, <1>7, <1>16, <2>1, <2>2, <3>1 DEF Copy, ScanStep, d
  <2>3. CASE d \notin quarantine
    BY <1>3, <1>4, <1>5, <1>6, <1>7, <1>16, <2>3 DEF Copy, ScanStep, d
  <2> QED
    BY <2>2, <2>3
<1>17. ASSUME NEW v \in {"CLEAN", "INFECTED"}, NEW k \in BOOLEAN, NEW from \in ScanStep,
              WriteVerdict(w, from, v, k),
              v = "CLEAN" => d \notin infected /\ (d \in live \/ DeleteBegun(d))
       PROVE  IInv'
  <2>1. CASE Exists(d)
    <3>1. row'[d].status = v /\ \A e \in Documents : e # d => row'[e] = row[e]
      BY <1>1, <1>3, <1>17, <2>1, VerdictRow DEF WriteVerdict, d
    <3>2. \A e \in Documents : FileInv(e)' /\ Kept(e)
      BY <1>1, <1>3, <1>17, <2>1, <3>1 DEF WriteVerdict, stores, FileInv, UploadInv, RowInv,
                                         Exists, DeleteBegun, Kept
    <3> QED
      BY <1>3, <1>4, <1>5, <1>7, <1>17, <2>1, <3>2 DEF WriteVerdict, stores, ScanStep, d
  <2>2. CASE ~Exists(d)
    BY <1>3, <1>4, <1>5, <1>6, <1>7, <1>17, <2>2 DEF WriteVerdict, stores, ScanStep, d
  <2> QED
    BY <2>1, <2>2
<1>18. CASE WriteInfected(w)
  <2>1. row[d].liveKey \in BOOLEAN
    BY <1>1, <1>3 DEF TypeOK, Row
  <2> QED
    BY <1>17, <1>18, <2>1 DEF WriteInfected, ScanStep, d
<1>19. CASE WriteClean(w)
  <2>1. d \notin infected /\ (d \in live \/ DeleteBegun(d))
    BY <1>2, <1>3, <1>19 DEF WriteClean, WriteVerdict, At, AttemptInv, d
  <2> QED
    BY <1>17, <1>19, <2>1 DEF WriteClean, ScanStep
<1> QED
  BY <1>8, <1>9, <1>10, <1>12, <1>13, <1>14, <1>15, <1>16, <1>18, <1>19

(* The other steps of a worker and of the queue touch no file.             *)
LEMMA QueueStep ==
    ASSUME IInv, TypeOK',
           \/ \E w \in Workers : Return(w) \/ Throw(w) \/ Die(w)
           \/ \E d \in Documents : LoseLock(d) \/ \E w \in Workers : Take(w, d)
    PROVE  IInv'
<1> DEFINE Frame == UNCHANGED <<row, infected, quarantine, live, upload, deletion>>
           JobKept == \A e \in Documents : job'[e].state = "none" \/ job[e].state # "none"
<1>1. TypeOK /\ \A e \in Documents : FileInv(e)
  BY IInvParts DEF IInv
<1>2. Frame /\ JobKept => \A e \in Documents : FileInv(e)' /\ Kept(e)
  BY <1>1 DEF FileInv, UploadInv, RowInv, Exists, DeleteBegun, Kept
<1>3. ASSUME NEW w \in Workers, Return(w) \/ Throw(w) \/ Die(w) PROVE IInv'
  <2>1. /\ worker'[w].pc = "idle"
        /\ \A v \in Workers : v # w => worker'[v] = worker[v]
    BY <1>1, <1>3, Leaves DEF Return, Throw, Die
  <2>2. Frame
    BY <1>3 DEF Return, Throw, Die, Fault, stores
  <2>3. JobKept
    <3>1. CASE Return(w) \/ Throw(w)
      BY <1>1, <3>1, Ended
    <3>2. CASE Die(w)
      <4>1. Of(w) \in Documents
        BY <1>1, <3>2, WorkerType DEF Die
      <4> QED
        BY <1>1, <3>2, <4>1, HandedOut DEF Die, Owns
    <3> QED
      BY <1>3, <3>1, <3>2
  <2>4. \A e \in Documents : FileInv(e)' /\ Kept(e)
    BY <1>2, <2>2, <2>3
  <2>5. \A v \in Workers : AttemptInv(v)'
    <3>1. AttemptInv(w)'
      BY <2>1 DEF AttemptInv
    <3>2. ASSUME NEW v \in Workers, v # w PROVE AttemptInv(v)'
      BY <1>1, <2>1, <2>4, <3>2, AttemptKept DEF IInv
    <3> QED
      BY <3>1, <3>2
  <2> QED
    BY <2>4, <2>5, IInvNext
<1>4. ASSUME NEW d \in Documents, LoseLock(d) PROVE IInv'
  <2>1. Frame /\ worker' = worker
    BY <1>4 DEF LoseLock, Fault, stores
  <2>2. JobKept
    BY <1>1, <1>4, HandedOut DEF LoseLock
  <2>3. \A e \in Documents : FileInv(e)' /\ Kept(e)
    BY <1>2, <2>1, <2>2
  <2>4. \A w \in Workers : AttemptInv(w)'
    BY <1>1, <2>1, <2>3, AttemptKept DEF IInv
  <2> QED
    BY <2>3, <2>4, IInvNext
<1>5. ASSUME NEW d \in Documents, NEW w \in Workers, Take(w, d) PROVE IInv'
  <2> HIDE DEF Frame, JobKept
  <2>0. /\ worker'[w] = [pc |-> "read", of |-> d]
        /\ \A v \in Workers : v # w => worker'[v] = worker[v]
        /\ job'[d].state # "none"
        /\ \A e \in Documents : e # d => job'[e] = job[e]
    BY <1>1, <1>5, TakeType
  <2>1. Frame /\ JobKept /\ upload[d] = "ended"
    BY <1>1, <1>5, <2>0 DEF Take, stores, FileInv, UploadInv, Frame, JobKept
  <2>2. \A e \in Documents : FileInv(e)' /\ Kept(e)
    BY <1>2, <2>1
  <2>3. AttemptInv(w)'
    BY <2>1, <2>0 DEF AttemptInv, Of, Frame
  <2>4. ASSUME NEW v \in Workers, v # w PROVE AttemptInv(v)'
    BY <1>1, <2>2, <2>4, <2>0, AttemptKept DEF IInv
  <2> QED
    BY <2>2, <2>3, <2>4, IInvNext
<1> QED
  BY <1>3, <1>4, <1>5

LEMMA NextInv == IInv /\ [Next]_vars => IInv'
<1> SUFFICES ASSUME IInv, [Next]_vars PROVE IInv'
  OBVIOUS
<1>1. TypeOK'
  BY NextType DEF IInv
<1>2. CASE \E d \in Documents :
              Uploading(d) \/ Deleting(d) \/ UploadFails(d) \/ DeleteFails(d)
  BY <1>1, <1>2, FileStep
<1>3. CASE \E w \in Workers : ScanStepOf(w) \/ CallFails(w)
  <2>1. PICK w \in Workers : ScanStepOf(w) \/ CallFails(w)
    BY <1>3
  <2>2. CASE Return(w) \/ Throw(w)
    BY <1>1, <2>2, QueueStep
  <2>3. CASE ~(Return(w) \/ Throw(w))
    BY <1>1, <2>1, <2>3, ScanGoesOn DEF ScanStepOf
  <2> QED
    BY <2>2, <2>3
<1>4. CASE \/ \E w \in Workers : Die(w)
           \/ \E d \in Documents : LoseLock(d) \/ \E w \in Workers : Take(w, d)
  BY <1>1, <1>4, QueueStep
<1>5. CASE UNCHANGED vars
  BY <1>1, <1>5 DEF vars, IInv, TypeOK, UploadInv, RowInv, AttemptInv, EvidenceKept, Exists,
                    DeleteBegun, Of
<1> QED
  BY <1>2, <1>3, <1>4, <1>5 DEF Next

(* No infected file is ever served.                                        *)
THEOREM OnlyCleanServed == Spec => []ServedIsClean
<1>1. IInv => ServedIsClean
  BY DEF IInv, ServedIsClean, RowInv, Downloadable
<1> QED
  BY <1>1, InitInv, NextInv, PTL DEF Spec

(* No clean file is lost between the buckets.                              *)
THEOREM EvidenceNeverLost == Spec => []EvidenceKept
<1>1. IInv => EvidenceKept
  BY DEF IInv
<1> QED
  BY <1>1, InitInv, NextInv, PTL DEF Spec

-----------------------------------------------------------------------------
(* Verdicts.  Until a worker goes on without its lock, one at most is in a  *)
(* document, and past its read it knows that there is no verdict yet.      *)

Alone(w) ==
    (worker[w].pc # "idle" /\ ~job[Of(w)].overlapped) =>
        /\ Owns(w)
        /\ row[Of(w)].status \in Verdicts => worker[w].pc \in {"read", "return", "throw"}

VInv == IInv /\ \A w \in Workers : Alone(w)

LEMMA InitAlone == Init => VInv
BY InitInv DEF VInv, Alone, Init, Idle

(* An attempt next to the one that moves is not concerned.                  *)
Undisturbed(v) ==
    /\ worker'[v] = worker[v]
    /\ worker[v].pc # "idle" /\ ~job'[Of(v)].overlapped =>
          /\ job'[Of(v)].overlapped = job[Of(v)].overlapped
          /\ Owns(v) => job'[Of(v)].state = "active" /\ job'[Of(v)].owner = v
          /\ row'[Of(v)].status \in Verdicts => row[Of(v)].status \in Verdicts

LEMMA AloneKept ==
    ASSUME NEW v \in Workers, Alone(v), Undisturbed(v)
    PROVE  Alone(v)'
BY DEF Alone, Owns, Of, Undisturbed

LEMMA NextAlone == VInv /\ [Next]_vars => VInv' /\ VerdictStep
<1> SUFFICES ASSUME VInv, [Next]_vars PROVE VInv' /\ VerdictStep
  OBVIOUS
<1>1. IInv /\ IInv' /\ TypeOK /\ \A d \in Documents : UploadInv(d)
  BY NextInv DEF VInv, IInv
<1>2. \A w \in Workers : Alone(w)
  BY DEF VInv
<1>3. \A w \in Workers : worker[w].pc # "idle" => Of(w) \in Documents /\ upload[Of(w)] = "ended"
  BY <1>1, WorkerType DEF IInv, AttemptInv
<1>4. ASSUME NEW d \in Documents,
             Uploading(d) \/ Deleting(d) \/ UploadFails(d) \/ DeleteFails(d)
      PROVE  VInv' /\ VerdictStep
  <2>1. worker' = worker
    BY <1>4 DEF Uploading, PutObject, CreateRow, AddJob, Deleting, ReadForDelete,
                DeleteQuarantined, DeleteLive, DeleteRow, UploadFails, DeleteFails, Fault
  <2>2. CASE row' = row /\ job' = job
    <3>9. \A v \in Workers : Undisturbed(v)
      BY <2>1, <2>2 DEF Undisturbed, Owns
    <3> QED
      BY <1>1, <1>2, <2>2, <3>9, AloneKept DEF VInv, VerdictStep
  <2>3. CASE CreateRow(d)
    <3>1. row[d].status = "NONE" /\ upload[d] = "create" /\ job' = job
      BY <1>1, <2>3 DEF CreateRow, UploadInv
    <3>2. \A e \in Documents : e # d => row'[e] = row[e]
      BY <1>1, <2>3 DEF CreateRow, TypeOK
    <3>9. \A v \in Workers : Undisturbed(v)
      BY <1>3, <2>1, <3>1, <3>2 DEF Undisturbed, Owns, Verdicts
    <3> QED
      BY <1>1, <1>2, <3>1, <3>2, <3>9, AloneKept DEF VInv, VerdictStep, Verdicts
  <2>4. CASE AddJob(d)
    <3>1. upload[d] = "enqueue" /\ row' = row
      BY <2>4 DEF AddJob
    <3>2. \A e \in Documents : e # d => job'[e] = job[e]
      BY <1>1, <2>4 DEF AddJob, TypeOK
    <3>9. \A v \in Workers : Undisturbed(v)
      BY <1>3, <2>1, <3>1, <3>2 DEF Undisturbed, Owns, Verdicts
    <3> QED
      BY <1>1, <1>2, <3>1, <3>2, <3>9, AloneKept DEF VInv, VerdictStep, Verdicts
  <2>5. CASE DeleteRow(d)
    <3>1. row'[d].status = "DELETED" /\ job' = job
      BY <1>1, <2>5 DEF DeleteRow, TypeOK
    <3>2. \A e \in Documents : e # d => row'[e] = row[e]
      BY <1>1, <2>5 DEF DeleteRow, TypeOK
    <3>9. \A v \in Workers : Undisturbed(v)
      BY <1>3, <2>1, <3>1, <3>2 DEF Undisturbed, Owns, Verdicts
    <3> QED
      BY <1>1, <1>2, <3>1, <3>2, <3>9, AloneKept DEF VInv, VerdictStep, Verdicts
  <2> QED
    BY <1>4, <2>2, <2>3, <2>4, <2>5 DEF Uploading, PutObject, Deleting, ReadForDelete,
                DeleteQuarantined, DeleteLive, UploadFails, DeleteFails, Fault
<1>5. ASSUME NEW w \in Workers, NEW v \in Workers, v # w, worker[w].pc # "idle",
             worker[v].pc # "idle", ~job[Of(v)].overlapped
      PROVE  Of(v) # Of(w)
  BY <1>2, <1>5 DEF Alone, Owns
<1>6. ASSUME NEW w \in Workers, worker[w].pc # "idle", job' = job,
             NEW s \in ScanStep, GoTo(w, s),
             \A e \in Documents : e # Of(w) => row'[e] = row[e],
             ~job[Of(w)].overlapped =>
                /\ row[Of(w)].status \in Verdicts => row'[Of(w)] = row[Of(w)]
                /\ row'[Of(w)].status \in Verdicts => s \in {"read", "return", "throw"}
      PROVE  VInv' /\ VerdictStep
  <2>1. /\ worker'[w].pc = s /\ worker'[w].of = Of(w)
        /\ \A v \in Workers : v # w => worker'[v] = worker[v]
    BY <1>1, <1>6, Goes
  <2>2. Alone(w)'
    BY <1>2, <1>6, <2>1 DEF Alone, Owns, Of
  <2>3. ASSUME NEW v \in Workers, v # w PROVE Alone(v)'
    <3>1. Undisturbed(v)
      BY <1>3, <1>5, <1>6, <2>1, <2>3 DEF Undisturbed, Owns
    <3> QED
      BY <1>2, <3>1, AloneKept
  <2>4. VerdictStep
    BY <1>6 DEF VerdictStep
  <2> QED
    BY <1>1, <2>2, <2>3, <2>4 DEF VInv
<1>7. ASSUME NEW w \in Workers, worker[w].pc # "idle", ~job[Of(w)].overlapped,
             worker[w].pc \notin {"read", "return", "throw"}
      PROVE  row[Of(w)].status \notin Verdicts
  BY <1>2, <1>7 DEF Alone
<1>8. ASSUME NEW w \in Workers,
             Read(w) \/ Scan(w) \/ RemoveInfected(w) \/ Copy(w) \/ RemoveClean(w) \/ CallFails(w)
      PROVE  VInv' /\ VerdictStep
  <2>1. worker[w].pc # "idle" /\ row' = row /\ job' = job
    BY <1>8 DEF Read, Scan, RemoveInfected, Copy, RemoveClean, CallFails, RemoveFromQuarantine,
                At, Fault, stores
  <2>2. PICK s \in ScanStep : /\ GoTo(w, s)
                              /\ worker[w].pc = "read" =>
                                    \/ s \in {"return", "throw"}
                                    \/ row[Of(w)].status = "PENDING"
    BY <1>8 DEF Read, Scan, RemoveInfected, Copy, RemoveClean, CallFails, RemoveFromQuarantine,
                At, ScanStep
  <2>3. worker[w].pc \notin {"return", "throw"}
    BY <1>8 DEF Read, Scan, RemoveInfected, Copy, RemoveClean, CallFails, RemoveFromQuarantine, At
  <2>4. "PENDING" \notin Verdicts
    BY DEF Verdicts
  <2> QED
    BY <1>6, <1>7, <2>1, <2>2, <2>3, <2>4
<1>9. ASSUME NEW w \in Workers, MarkScanning(w) PROVE VInv' /\ VerdictStep
  <2>1. worker[w].pc = "mark" /\ worker[w].pc # "idle" /\ job' = job
    BY <1>9 DEF MarkScanning, At
  <2>2. CASE Exists(Of(w))
    <3>1. row' = [row EXCEPT ![Of(w)].status = "SCANNING"] /\ GoTo(w, "scan")
      BY <1>9, <2>2 DEF MarkScanning
    <3>2. /\ row'[Of(w)].status = "SCANNING"
          /\ \A e \in Documents : e # Of(w) => row'[e] = row[e]
      BY <1>1, <1>3, <2>1, <3>1, StatusStep
    <3> QED
      BY <1>6, <1>7, <2>1, <3>1, <3>2 DEF ScanStep, Verdicts
  <2>3. CASE ~Exists(Of(w))
    BY <1>6, <1>9, <2>1, <2>3 DEF MarkScanning, ScanStep
  <2> QED
    BY <2>2, <2>3
<1>10. ASSUME NEW w \in Workers, MarkFailed(w) PROVE VInv' /\ VerdictStep
  <2>1. worker[w].pc = "markFailed" /\ worker[w].pc # "idle" /\ job' = job /\ GoTo(w, "throw")
    BY <1>10 DEF MarkFailed, At
  <2>2. \A e \in Documents : e # Of(w) => row'[e] = row[e]
    BY <1>1, <1>3, <1>10, <2>1, StatusStep DEF MarkFailed
  <2> QED
    BY <1>6, <1>7, <2>1, <2>2 DEF ScanStep
<1>11. ASSUME NEW w \in Workers, NEW from \in {"writeInfected", "writeClean"},
              NEW v \in {"INFECTED", "CLEAN"}, NEW k \in BOOLEAN, WriteVerdict(w, from, v, k)
       PROVE  VInv' /\ VerdictStep
  <2>1. worker[w].pc = from /\ worker[w].pc # "idle" /\ job' = job
    BY <1>11 DEF WriteVerdict, At
  <2>2. CASE Exists(Of(w))
    <3>1. GoTo(w, "return") /\ \A e \in Documents : e # Of(w) => row'[e] = row[e]
      BY <1>1, <1>3, <1>11, <2>1, <2>2, VerdictRow DEF WriteVerdict
    <3> QED
      BY <1>6, <1>7, <2>1, <3>1 DEF ScanStep
  <2>3. CASE ~Exists(Of(w))
    <3>1. row' = row /\ GoTo(w, "markFailed")
      BY <1>11, <2>3 DEF WriteVerdict
    <3> QED
      BY <1>6, <1>7, <2>1, <3>1 DEF ScanStep
  <2> QED
    BY <2>2, <2>3
<1>12. ASSUME NEW w \in Workers, WriteInfected(w) \/ WriteClean(w) PROVE VInv' /\ VerdictStep
  <2>1. CASE WriteInfected(w)
    <3>1. row[Of(w)].liveKey \in BOOLEAN
      BY <1>1, <1>3, <2>1 DEF WriteInfected, WriteVerdict, At, TypeOK, Row
    <3> QED
      BY <1>11, <2>1, <3>1 DEF WriteInfected
  <2>2. CASE WriteClean(w)
    BY <1>11, <2>2 DEF WriteClean
  <2> QED
    BY <1>12, <2>1, <2>2
<1>13. ASSUME NEW w \in Workers, Return(w) \/ Throw(w) PROVE VInv' /\ VerdictStep
  <2>1. /\ row' = row /\ worker[w].pc # "idle" /\ worker'[w].pc = "idle"
        /\ \A v \in Workers : v # w => worker'[v] = worker[v]
    BY <1>1, <1>13, Leaves DEF Return, Throw, At
  <2>2. /\ \A e \in Documents : e # Of(w) \/ ~Owns(w) => job'[e] = job[e]
        /\ \A e \in Documents : job'[e].overlapped = job[e].overlapped
    BY <1>1, <1>13, Ended
  <2>3. ASSUME NEW v \in Workers, v # w PROVE Alone(v)'
    <3>1. Undisturbed(v)
      BY <1>3, <1>5, <2>1, <2>2, <2>3 DEF Undisturbed, Owns
    <3> QED
      BY <1>2, <3>1, AloneKept
  <2>4. Alone(w)'
    BY <2>1 DEF Alone
  <2> QED
    BY <1>1, <2>1, <2>3, <2>4 DEF VInv, VerdictStep
<1>14. ASSUME NEW d \in Documents, NEW b \in BOOLEAN, HandOutAgain(d, b), row' = row,
              \A v \in Workers :
                 \/ worker'[v].pc = "idle"
                 \/ worker'[v] = worker[v] /\ (worker[v].pc # "idle" /\ Of(v) = d =>
                                                   job[d].overlapped \/ b)
       PROVE  VInv' /\ VerdictStep
  <2>1. /\ job'[d].overlapped = (job[d].overlapped \/ b)
        /\ \A e \in Documents : e # d => job'[e] = job[e]
    BY <1>1, <1>14, HandedOut
  <2>2. ASSUME NEW v \in Workers PROVE Alone(v)'
    <3>1. CASE worker'[v].pc = "idle"
      BY <3>1 DEF Alone
    <3>2. CASE worker'[v].pc # "idle"
      <4>1. Undisturbed(v)
        BY <1>3, <1>14, <2>1, <3>2 DEF Undisturbed, Owns
      <4> QED
        BY <1>2, <4>1, AloneKept
    <3> QED
      BY <3>1, <3>2
  <2> QED
    BY <1>1, <1>14, <2>2 DEF VInv, VerdictStep
<1>15. ASSUME NEW w \in Workers, Die(w) PROVE VInv' /\ VerdictStep
  <2>1. /\ row' = row /\ worker'[w].pc = "idle" /\ Of(w) \in Documents
        /\ worker[w].pc # "idle"
        /\ \A v \in Workers : v # w => worker'[v] = worker[v]
    BY <1>1, <1>3, <1>15, Leaves, WorkerType DEF Die
  <2>2. CASE Owns(w)
    <3>1. HandOutAgain(Of(w), FALSE)
      BY <1>15, <2>2 DEF Die
    <3>2. ASSUME NEW v \in Workers, v # w, worker[v].pc # "idle", Of(v) = Of(w)
          PROVE  job[Of(w)].overlapped
      BY <1>5, <2>1, <3>2
    <3> QED
      BY <1>14, <2>1, <3>1, <3>2
  <2>3. CASE ~Owns(w)
    <3>1. job' = job
      BY <1>15, <2>3 DEF Die
    <3>2. ASSUME NEW v \in Workers, v # w PROVE Alone(v)'
      <4>1. Undisturbed(v)
        BY <2>1, <3>1, <3>2 DEF Undisturbed, Owns
      <4> QED
        BY <1>2, <4>1, AloneKept
    <3>3. Alone(w)'
      BY <2>1 DEF Alone
    <3> QED
      BY <1>1, <2>1, <3>2, <3>3 DEF VInv, VerdictStep
  <2> QED
    BY <2>2, <2>3
<1>16. ASSUME NEW d \in Documents, LoseLock(d) PROVE VInv' /\ VerdictStep
  BY <1>14, <1>16 DEF LoseLock
<1>17. ASSUME NEW d \in Documents, NEW w \in Workers, Take(w, d) PROVE VInv' /\ VerdictStep
  <2>1. /\ worker'[w] = [pc |-> "read", of |-> d]
        /\ \A v \in Workers : v # w => worker'[v] = worker[v]
        /\ job'[d].owner = w
        /\ \A e \in Documents : job'[e].overlapped = job[e].overlapped
        /\ \A e \in Documents : e # d => job'[e] = job[e]
    BY <1>1, <1>17, TakeType
  <2>2. row' = row /\ job[d].state = "waiting" /\ job'[d].state = "active"
    BY <1>1, <1>17 DEF Take, TypeOK, Job
  <2>3. Alone(w)'
    BY <2>1, <2>2 DEF Alone, Owns, Of
  <2>4. ASSUME NEW v \in Workers, v # w PROVE Alone(v)'
    <3>1. Undisturbed(v)
      BY <1>3, <2>1, <2>2, <2>4 DEF Undisturbed, Owns
    <3> QED
      BY <1>2, <3>1, AloneKept
  <2> QED
    BY <1>1, <2>2, <2>3, <2>4 DEF VInv, VerdictStep
<1>18. CASE UNCHANGED vars
  <2>1. \A v \in Workers : Undisturbed(v)
    BY <1>18 DEF vars, Undisturbed, Owns
  <2> QED
    BY <1>1, <1>2, <1>18, <2>1, AloneKept DEF vars, VInv, VerdictStep
<1> QED
  BY <1>4, <1>8, <1>9, <1>10, <1>12, <1>13, <1>15, <1>16, <1>17, <1>18 DEF Next, ScanStepOf

(* A retry never revises a verdict.                                        *)
THEOREM VerdictsStand == Spec => VerdictIsFinal
<1>1. VInv /\ [Next]_vars => [VerdictStep]_vars
  BY NextAlone
<1>2. VInv /\ [Next]_vars => VInv'
  BY NextAlone
<1> QED
  BY <1>1, <1>2, InitAlone, PTL DEF Spec, VerdictIsFinal

-----------------------------------------------------------------------------
(* Deletes.  While no call has failed and no lock was lost, the row tells   *)
(* where the object is, and a settled delete has the document for itself.  *)

GoneInv(d) ==
    /\ ~job[d].overlapped
    /\ upload[d] = "enqueue" \/ job[d].state # "none" => row[d].status # "NONE"
    /\ deletion[d].pc = "ended" <=> row[d].status = "DELETED"
    /\ row[d].status = "PENDING" /\ ~DeleteBegun(d) => d \in quarantine
    /\ row[d].status = "CLEAN" => row[d].liveKey /\ d \notin quarantine
    /\ row[d].status = "INFECTED" => d \in infected /\ d \notin quarantine
    /\ row[d].status = "FAILED" => DeleteBegun(d)
    /\ deletion[d].settled =>
          /\ row[d].status \in {"CLEAN", "INFECTED", "DELETED"}
          /\ d \notin quarantine
          /\ d \in live => deletion[d].liveKey /\ deletion[d].pc \in {"quarantine", "live"}

CalmInv(w) ==
    worker[w].pc # "idle" =>
        /\ deletion[Of(w)].settled => worker[w].pc \in {"read", "return", "throw"}
        /\ worker[w].pc \in {"scan", "copy", "removeClean", "writeClean",
                             "removeInfected", "writeInfected", "markFailed"}
              => row[Of(w)].status # "PENDING"
        /\ worker[w].pc \in {"mark", "scan", "copy", "removeClean", "removeInfected"}
              => Of(w) \in quarantine \/ DeleteBegun(Of(w))
        /\ worker[w].pc \in {"writeClean", "writeInfected"} => Of(w) \notin quarantine
        /\ worker[w].pc = "markFailed" => DeleteBegun(Of(w))

Calm == (\A d \in Documents : GoneInv(d)) /\ (\A w \in Workers : CalmInv(w))

DInv == VInv /\ (faults = 0 => Calm)

LEMMA InitCalm == Init => DInv
BY InitAlone DEF Init, DInv, Calm, GoneInv, CalmInv, DeleteBegun, Idle

(* A document the step is not about.                                        *)
SameFile(d) ==
    /\ row'[d] = row[d]
    /\ d \in infected' <=> d \in infected
    /\ d \in quarantine' <=> d \in quarantine
    /\ d \in live' <=> d \in live
    /\ upload'[d] = upload[d]
    /\ deletion'[d] = deletion[d]
    /\ job'[d].overlapped = job[d].overlapped
    /\ job'[d].state # "none" => job[d].state # "none"

LEMMA GoneKept ==
    ASSUME NEW d \in Documents, GoneInv(d), SameFile(d)
    PROVE  GoneInv(d)'
BY DEF GoneInv, SameFile, DeleteBegun

LEMMA CalmKept ==
    ASSUME NEW w \in Workers, CalmInv(w), worker'[w] = worker[w],
           worker[w].pc # "idle" => SameFile(Of(w))
    PROVE  CalmInv(w)'
BY DEF CalmInv, SameFile, DeleteBegun, Of

(* An upload's or a delete's step, seen by the attempt in the document.     *)
LEMMA CalmFileStep ==
    ASSUME VInv, Calm, TypeOK', NEW d \in Documents, Uploading(d) \/ Deleting(d)
    PROVE  Calm'
<1>1. TypeOK /\ UploadInv(d) /\ RowInv(d) /\ live \cap infected = {}
  BY DEF VInv, IInv
<1>2. GoneInv(d) /\ \A w \in Workers : CalmInv(w) /\ Alone(w) /\ AttemptInv(w)
  BY DEF Calm, VInv, IInv
<1>3. \A w \in Workers : worker[w].pc # "idle" => Of(w) \in Documents
  BY <1>1, WorkerType
<1>4. worker' = worker /\ \A e \in Documents : e # d => SameFile(e)
  BY <1>1 DEF Uploading, PutObject, CreateRow, AddJob, Deleting, ReadForDelete,
              DeleteQuarantined, DeleteLive, DeleteRow, TypeOK, SameFile, stores
<1>5. ASSUME GoneInv(d)', \A w \in Workers : worker[w].pc # "idle" /\ Of(w) = d => CalmInv(w)'
      PROVE  Calm'
  <2>1. \A e \in Documents : GoneInv(e)'
    BY <1>4, <1>5, GoneKept DEF Calm
  <2>2. ASSUME NEW w \in Workers PROVE CalmInv(w)'
    BY <1>2, <1>3, <1>4, <1>5, CalmKept
  <2> QED
    BY <2>1, <2>2 DEF Calm
<1>6. CASE Uploading(d)
  <2>1. \A w \in Workers : worker[w].pc # "idle" => Of(w) # d
    BY <1>2, <1>6 DEF AttemptInv, Uploading, PutObject, CreateRow, AddJob
  <2>2. ASSUME PutObject(d) PROVE GoneInv(d)'
    BY <1>1, <1>2, <2>2 DEF PutObject, GoneInv, UploadInv, DeleteBegun
  <2>3. ASSUME CreateRow(d) PROVE GoneInv(d)'
    <3>1. row'[d].status = "PENDING"
      BY <1>1, <2>3 DEF CreateRow, TypeOK, Row
    <3>2. upload[d] = "create" /\ d \in quarantine /\ row[d].status = "NONE"
      BY <1>1, <2>3 DEF CreateRow, UploadInv
    <3> QED
      BY <1>1, <1>2, <2>3, <3>1, <3>2 DEF CreateRow, GoneInv, UploadInv, DeleteBegun, stores
  <2>4. ASSUME AddJob(d) PROVE GoneInv(d)'
    <3>1. ~job'[d].overlapped
      BY <1>1, <1>2, <2>4, JobType DEF AddJob, GoneInv, TypeOK, Job
    <3> QED
      BY <1>1, <1>2, <2>4, <3>1 DEF AddJob, GoneInv, DeleteBegun, TypeOK, stores
  <2>5. GoneInv(d)'
    BY <1>6, <2>2, <2>3, <2>4 DEF Uploading
  <2> QED
    BY <1>5, <2>1, <2>5
<1>7. CASE ReadForDelete(d)
  <2>1. deletion'[d] = [pc |-> "quarantine", quarantineKey |-> row[d].quarantineKey,
                        liveKey |-> row[d].liveKey, settled |-> row[d].status \in Settled]
    BY <1>1, <1>7 DEF ReadForDelete, TypeOK
  <2>2. /\ deletion'[d].pc = "quarantine"
        /\ deletion'[d].liveKey = row[d].liveKey
        /\ Exists(d)
        /\ UNCHANGED <<row, infected, quarantine, live, upload, job, worker>>
    BY <1>7, <2>1 DEF ReadForDelete, stores
  <2>3. deletion'[d].settled <=> row[d].status \in Settled
    <3> DEFINE b == row[d].status \in Settled
    <3> HIDE DEF b
    <3>1. deletion'[d].settled = b
      BY <2>1 DEF b
    <3> QED
      BY <3>1 DEF b
  <2>4. ~DeleteBegun(d)
    BY <1>2, <1>7, <2>2 DEF ReadForDelete, GoneInv, DeleteBegun, Exists
  <2>5. GoneInv(d)'
    <3>1. row[d].status \in Settled => row[d].status \in {"CLEAN", "INFECTED"}
      BY <1>2, <2>4 DEF GoneInv, Settled, Verdicts
    <3>2. row[d].status = "INFECTED" => d \notin live
      BY <1>1, <1>2 DEF GoneInv
    <3> QED
      BY <1>2, <2>2, <2>3, <3>1, <3>2 DEF GoneInv, DeleteBegun, Exists
  <2>6. ASSUME NEW w \in Workers, worker[w].pc # "idle", Of(w) = d PROVE CalmInv(w)'
    <3>1. row[d].status \in Settled => worker[w].pc \in {"read", "return", "throw"}
      BY <1>2, <2>4, <2>6 DEF Alone, GoneInv, Settled
    <3> QED
      BY <1>2, <2>2, <2>6, <2>3, <3>1 DEF CalmInv, DeleteBegun, Of
  <2> QED
    BY <1>5, <2>5, <2>6
<1>8. CASE DeleteQuarantined(d)
  <2>1. /\ deletion'[d].pc = "live" /\ deletion[d].pc = "quarantine"
        /\ deletion'[d].settled = deletion[d].settled
        /\ deletion'[d].liveKey = deletion[d].liveKey
        /\ d \in quarantine' => d \in quarantine
        /\ UNCHANGED <<row, infected, live, upload, job, worker>>
    BY <1>1, <1>8 DEF DeleteQuarantined, TypeOK, Deletion
  <2>2. GoneInv(d)'
    BY <1>2, <2>1 DEF GoneInv, DeleteBegun
  <2>3. ASSUME NEW w \in Workers, worker[w].pc # "idle", Of(w) = d PROVE CalmInv(w)'
    BY <1>2, <2>1, <2>3 DEF CalmInv, DeleteBegun, Of
  <2> QED
    BY <1>5, <2>2, <2>3
<1>9. CASE DeleteLive(d)
  <2>1. /\ deletion'[d].pc = "row" /\ deletion[d].pc = "live"
        /\ deletion'[d].settled = deletion[d].settled
        /\ deletion'[d].liveKey = deletion[d].liveKey
        /\ d \in live' => d \in live /\ ~deletion[d].liveKey
        /\ UNCHANGED <<row, infected, quarantine, upload, job, worker>>
    BY <1>1, <1>9 DEF DeleteLive, TypeOK, Deletion
  <2>2. GoneInv(d)'
    BY <1>2, <2>1 DEF GoneInv, DeleteBegun
  <2>3. ASSUME NEW w \in Workers, worker[w].pc # "idle", Of(w) = d PROVE CalmInv(w)'
    BY <1>2, <2>1, <2>3 DEF CalmInv, DeleteBegun, Of
  <2> QED
    BY <1>5, <2>2, <2>3
<1>10. CASE DeleteRow(d)
  <2>1. /\ deletion'[d].pc = "ended" /\ deletion[d].pc = "row"
        /\ deletion'[d].settled = deletion[d].settled
        /\ row'[d].status = "DELETED"
        /\ UNCHANGED <<infected, quarantine, live, upload, job, worker>>
    BY <1>1, <1>10 DEF DeleteRow, TypeOK, Deletion, stores
  <2>2. GoneInv(d)'
    BY <1>2, <2>1 DEF GoneInv, DeleteBegun
  <2>3. ASSUME NEW w \in Workers, worker[w].pc # "idle", Of(w) = d PROVE CalmInv(w)'
    BY <1>2, <2>1, <2>3 DEF CalmInv, DeleteBegun, Of
  <2> QED
    BY <1>5, <2>2, <2>3
<1> QED
  BY <1>6, <1>7, <1>8, <1>9, <1>10 DEF Deleting

(* An attempt's step.  No other attempt is in its document.                 *)
LEMMA CalmScanStep ==
    ASSUME VInv, Calm, TypeOK', NEW w \in Workers, ScanStepOf(w)
    PROVE  Calm'
<1>1. TypeOK /\ \A v \in Workers : CalmInv(v) /\ Alone(v) /\ AttemptInv(v)
  BY DEF VInv, IInv, Calm
<1>2. worker[w].pc # "idle"
  BY DEF ScanStepOf, Read, MarkScanning, Scan, RemoveInfected, WriteInfected, Copy, RemoveClean,
         WriteClean, MarkFailed, Return, Throw, RemoveFromQuarantine, WriteVerdict, At
<1>0. PICK d \in Documents : d = Of(w)
  BY <1>1, <1>2, WorkerType
<1>3. /\ d = Of(w) /\ GoneInv(d) /\ CalmInv(w) /\ AttemptInv(w) /\ UploadInv(d)
      /\ upload[d] = "ended"
  BY <1>0, <1>1, <1>2 DEF VInv, IInv, Calm, AttemptInv
<1>4. \A v \in Workers : v # w /\ worker[v].pc # "idle" => Of(v) \in Documents /\ Of(v) # d
  <2>1. \A v \in Workers : worker[v].pc # "idle" => Of(v) \in Documents
    BY <1>1, WorkerType
  <2>2. \A v \in Workers : worker[v].pc # "idle" => job[Of(v)].owner = v
    BY <1>1, <2>1 DEF Alone, Owns, Calm, GoneInv
  <2> QED
    BY <1>2, <1>3, <2>1, <2>2
<1>5. Exists(d) \/ DeleteBegun(d)
  <2>1. job[d].state = "active"
    BY <1>1, <1>2, <1>3 DEF Alone, Owns, GoneInv
  <2> QED
    BY <1>3, <2>1 DEF Exists, GoneInv, DeleteBegun
<1>6. \A s \in ScanStep : GoTo(w, s) =>
         /\ worker'[w].pc = s /\ worker'[w].of = d
         /\ \A v \in Workers : v # w => worker'[v] = worker[v]
  BY <1>1, <1>2, <1>3, Goes
<1>7. ASSUME \A v \in Workers : v # w => worker'[v] = worker[v],
             \A e \in Documents : e # d => SameFile(e),
             GoneInv(d)', CalmInv(w)'
      PROVE  Calm'
  <2>1. \A e \in Documents : GoneInv(e)'
    BY <1>7, GoneKept DEF Calm
  <2>2. \A v \in Workers : CalmInv(v)'
    BY <1>1, <1>4, <1>7, CalmKept
  <2> QED
    BY <2>1, <2>2 DEF Calm
<1>8. ASSUME UNCHANGED <<row, infected, quarantine, live, upload, deletion, job>>
      PROVE  (\A e \in Documents : SameFile(e)) /\ GoneInv(d)'
  <2>1. \A e \in Documents : SameFile(e)
    BY <1>8 DEF SameFile
  <2> QED
    BY <1>3, <2>1, GoneKept
<1>9. ASSUME NEW s \in ScanStep, worker'[w].pc = s, worker'[w].of = d,
             deletion' = deletion,
             deletion[d].settled => s \in {"read", "return", "throw"},
             s \in {"scan", "copy", "removeClean", "writeClean",
                    "removeInfected", "writeInfected", "markFailed"} => row'[d].status # "PENDING",
             s \in {"mark", "scan", "copy", "removeClean", "removeInfected"}
                => d \in quarantine' \/ DeleteBegun(d),
             s \in {"writeClean", "writeInfected"} => d \notin quarantine',
             s = "markFailed" => DeleteBegun(d)
      PROVE  CalmInv(w)'
  BY <1>9 DEF CalmInv, Of, DeleteBegun
<1>10. CASE Read(w)
  <2>1. row[d].status = "PENDING" => d \in quarantine \/ DeleteBegun(d)
    BY <1>3 DEF GoneInv
  <2>2. deletion[d].settled => row[d].status # "PENDING"
    BY <1>3 DEF GoneInv
  <2> QED
    BY <1>3, <1>6, <1>7, <1>8, <1>9, <1>10, <2>1, <2>2 DEF Read, stores, ScanStep
<1>11. ASSUME worker[w].pc \notin {"read", "return", "throw"}
       PROVE  /\ ~deletion[d].settled
              /\ worker[w].pc \in {"mark", "scan", "copy", "removeClean", "removeInfected"}
                    => d \in quarantine \/ DeleteBegun(d)
              /\ worker[w].pc \in {"scan", "copy", "removeClean", "writeClean",
                                   "removeInfected", "writeInfected", "markFailed"}
                    => row[d].status # "PENDING"
              /\ worker[w].pc \in {"writeClean", "writeInfected"} => d \notin quarantine
              /\ worker[w].pc = "markFailed" => DeleteBegun(d)
              /\ row[d].status \notin Verdicts
  BY <1>1, <1>2, <1>3, <1>11 DEF CalmInv, Alone, GoneInv
<1>12. CASE MarkScanning(w)
  <2>1. worker[w].pc = "mark"
    BY <1>12 DEF MarkScanning, At
  <2>2. CASE Exists(d)
    <3>1. /\ row' = [row EXCEPT ![d].status = "SCANNING"] /\ GoTo(w, "scan")
          /\ UNCHANGED <<infected, quarantine, live, upload, deletion, job>>
      BY <1>3, <1>12, <2>2 DEF MarkScanning, stores
    <3>2. row'[d].status = "SCANNING" /\ \A e \in Documents : e # d => row'[e] = row[e]
      BY <1>1, <3>1, StatusStep
    <3>3. \A e \in Documents : e # d => SameFile(e)
      BY <3>1, <3>2 DEF SameFile
    <3>4. GoneInv(d)'
      BY <1>3, <1>11, <2>1, <2>2, <3>1, <3>2 DEF GoneInv, DeleteBegun, Exists
    <3> QED
      BY <1>6, <1>7, <1>9, <1>11, <2>1, <3>1, <3>2, <3>3, <3>4 DEF ScanStep
  <2>3. CASE ~Exists(d)
    BY <1>3, <1>6, <1>7, <1>8, <1>9, <1>12, <2>3 DEF MarkScanning, stores, ScanStep
  <2> QED
    BY <2>2, <2>3
<1>13. CASE Scan(w)
  BY <1>3, <1>6, <1>7, <1>8, <1>9, <1>11, <1>13 DEF Scan, At, stores, ScanStep
<1>14. CASE RemoveInfected(w) \/ RemoveClean(w)
  <2>1. PICK s \in {"writeInfected", "writeClean"} :
           /\ worker[w].pc \in {"removeInfected", "removeClean"} /\ GoTo(w, s)
           /\ quarantine' = quarantine \ {d}
           /\ UNCHANGED <<row, infected, live, upload, deletion, job>>
    BY <1>3, <1>14 DEF RemoveInfected, RemoveClean, RemoveFromQuarantine, At
  <2>2. \A e \in Documents : e # d => SameFile(e)
    BY <2>1 DEF SameFile
  <2>3. GoneInv(d)'
    BY <1>3, <1>11, <2>1 DEF GoneInv, DeleteBegun
  <2>4. s \in ScanStep
    BY DEF ScanStep
  <2> QED
    BY <1>6, <1>7, <1>9, <1>11, <2>1, <2>2, <2>3, <2>4
<1>15. CASE Copy(w)
  <2>1. worker[w].pc = "copy"
    BY <1>15 DEF Copy, At
  <2>2. CASE d \in quarantine
    <3>1. /\ live' = live \cup {d} /\ GoTo(w, "removeClean")
          /\ UNCHANGED <<row, infected, quarantine, upload, deletion, job>>
      BY <1>3, <1>15, <2>2 DEF Copy
    <3>2. \A e \in Documents : e # d => SameFile(e)
      BY <3>1 DEF SameFile
    <3>3. GoneInv(d)'
      BY <1>3, <1>11, <2>1, <3>1 DEF GoneInv, DeleteBegun
    <3> QED
      BY <1>6, <1>7, <1>9, <1>11, <2>1, <2>2, <3>1, <3>2, <3>3 DEF ScanStep
  <2>3. CASE d \notin quarantine
    BY <1>3, <1>6, <1>7, <1>8, <1>9, <1>11, <1>15, <2>1, <2>3 DEF Copy, ScanStep
  <2> QED
    BY <2>2, <2>3
<1>16. CASE WriteClean(w) \/ WriteInfected(w)
  <2>1. worker[w].pc \in {"writeClean", "writeInfected"}
    BY <1>16 DEF WriteClean, WriteInfected, WriteVerdict, At
  <2>2. CASE Exists(d)
    <3>1. PICK v \in {"CLEAN", "INFECTED"}, k \in BOOLEAN :
             /\ row' = [row EXCEPT ![d] = [status |-> v, quarantineKey |-> FALSE, liveKey |-> k]]
             /\ v = "CLEAN" => k = TRUE
             /\ v = "INFECTED" => worker[w].pc = "writeInfected"
             /\ GoTo(w, "return")
             /\ UNCHANGED <<infected, quarantine, live, upload, deletion, job>>
      <4>1. row[d].liveKey \in BOOLEAN
        BY <1>1 DEF TypeOK, Row
      <4> QED
        BY <1>3, <1>16, <2>2, <4>1 DEF WriteClean, WriteInfected, WriteVerdict, At, stores
    <3>2. row'[d].status = v /\ \A e \in Documents : e # d => row'[e] = row[e]
      BY <1>1, <3>1, VerdictRow
    <3>3. v = "CLEAN" => row'[d].liveKey
      BY <1>1, <3>1 DEF TypeOK
    <3>4. \A e \in Documents : e # d => SameFile(e)
      BY <3>1, <3>2 DEF SameFile
    <3>5. v = "INFECTED" => d \in infected
      BY <1>2, <1>3, <3>1 DEF AttemptInv
    <3>6. GoneInv(d)'
      BY <1>3, <1>11, <2>1, <2>2, <3>1, <3>2, <3>3, <3>5 DEF GoneInv, DeleteBegun, Exists
    <3> QED
      BY <1>6, <1>7, <1>9, <1>11, <2>1, <3>1, <3>2, <3>4, <3>6 DEF ScanStep
  <2>3. CASE ~Exists(d)
    <3>1. UNCHANGED <<row, infected, quarantine, live, upload, deletion, job>> /\ GoTo(w, "markFailed")
      BY <1>3, <1>16, <2>3 DEF WriteClean, WriteInfected, WriteVerdict, stores
    <3>2. DeleteBegun(d)
      BY <1>5, <2>3
    <3> QED
      BY <1>6, <1>7, <1>8, <1>9, <1>11, <2>1, <3>1, <3>2 DEF ScanStep
  <2> QED
    BY <2>2, <2>3
<1>17. CASE MarkFailed(w)
  <2>1. worker[w].pc = "markFailed" /\ DeleteBegun(d) /\ ~deletion[d].settled
    BY <1>11, <1>17 DEF MarkFailed, At
  <2>2. CASE Exists(d)
    <3>1. /\ row' = [row EXCEPT ![d].status = "FAILED"] /\ GoTo(w, "throw")
          /\ UNCHANGED <<infected, quarantine, live, upload, deletion, job>>
      BY <1>3, <1>17, <2>2 DEF MarkFailed, stores
    <3>2. row'[d].status = "FAILED" /\ \A e \in Documents : e # d => row'[e] = row[e]
      BY <1>1, <3>1, StatusStep
    <3>3. \A e \in Documents : e # d => SameFile(e)
      BY <3>1, <3>2 DEF SameFile
    <3>4. GoneInv(d)'
      BY <1>3, <2>1, <2>2, <3>1, <3>2 DEF GoneInv, DeleteBegun, Exists
    <3> QED
      BY <1>6, <1>7, <1>9, <2>1, <3>1, <3>2, <3>3, <3>4 DEF ScanStep
  <2>3. CASE ~Exists(d)
    BY <1>3, <1>6, <1>7, <1>8, <1>9, <1>17, <2>3 DEF MarkFailed, stores, ScanStep
  <2> QED
    BY <2>2, <2>3
<1>18. CASE Return(w) \/ Throw(w)
  <2>1. /\ worker'[w].pc = "idle" /\ \A v \in Workers : v # w => worker'[v] = worker[v]
        /\ UNCHANGED <<row, infected, quarantine, live, upload, deletion>>
    BY <1>1, <1>18, Leaves DEF Return, Throw, stores
  <2>2. \A e \in Documents : SameFile(e)
    BY <1>1, <1>18, <2>1, Ended DEF SameFile
  <2>3. GoneInv(d)' /\ CalmInv(w)'
    BY <1>3, <2>1, <2>2, GoneKept DEF CalmInv
  <2> QED
    BY <1>7, <2>1, <2>2, <2>3
<1> QED
  BY <1>10, <1>12, <1>13, <1>14, <1>15, <1>16, <1>17, <1>18 DEF ScanStepOf

LEMMA CalmTake ==
    ASSUME VInv, Calm, NEW w \in Workers, NEW d \in Documents, Take(w, d)
    PROVE  Calm'
<1>1. TypeOK /\ \A v \in Workers : CalmInv(v)
  BY DEF VInv, IInv, Calm
<1>2. /\ worker'[w] = [pc |-> "read", of |-> d]
      /\ \A v \in Workers : v # w => worker'[v] = worker[v]
      /\ \A e \in Documents : job'[e].overlapped = job[e].overlapped
      /\ \A e \in Documents : e # d => job'[e] = job[e]
  BY <1>1, TakeType
<1>3. job[d].state # "none" /\ UNCHANGED <<row, infected, quarantine, live, upload, deletion>>
  BY DEF Take, stores
<1>4. \A e \in Documents : SameFile(e)
  BY <1>2, <1>3 DEF SameFile
<1>5. \A e \in Documents : GoneInv(e)'
  BY <1>4, GoneKept DEF Calm
<1>6. CalmInv(w)'
  BY <1>2 DEF CalmInv
<1>7. ASSUME NEW v \in Workers, v # w PROVE CalmInv(v)'
  <2>1. worker[v].pc # "idle" => Of(v) \in Documents
    BY <1>1, WorkerType
  <2> QED
    BY <1>1, <1>2, <1>4, <1>7, <2>1, CalmKept
<1> QED
  BY <1>5, <1>6, <1>7 DEF Calm

LEMMA NextCalm == DInv /\ [Next]_vars => DInv'
<1> SUFFICES ASSUME DInv, [Next]_vars PROVE DInv'
  OBVIOUS
<1>1. VInv /\ VInv' /\ TypeOK /\ TypeOK'
  BY NextAlone, NextType DEF DInv, VInv, IInv
<1>2. CASE \/ \E d \in Documents : UploadFails(d) \/ DeleteFails(d) \/ LoseLock(d)
           \/ \E w \in Workers : CallFails(w) \/ Die(w)
  <2>1. faults' = faults + 1 /\ faults \in Nat
    BY <1>1, <1>2 DEF UploadFails, DeleteFails, LoseLock, CallFails, Die, Fault, TypeOK
  <2> QED
    BY <1>1, <2>1 DEF DInv
<1>3. ASSUME faults' = faults => (Calm => Calm'), faults' = faults PROVE DInv'
  BY <1>1, <1>3 DEF DInv
<1>4. CASE \E d \in Documents : Uploading(d) \/ Deleting(d)
  <2>1. faults' = faults
    BY <1>4 DEF Uploading, PutObject, CreateRow, AddJob, Deleting, ReadForDelete,
                DeleteQuarantined, DeleteLive, DeleteRow
  <2> QED
    BY <1>1, <1>3, <1>4, <2>1, CalmFileStep
<1>5. CASE \E w \in Workers : ScanStepOf(w)
  <2>1. faults' = faults
    BY <1>5 DEF ScanStepOf, Read, MarkScanning, Scan, RemoveInfected, WriteInfected, Copy,
                RemoveClean, WriteClean, MarkFailed, Return, Throw, RemoveFromQuarantine,
                WriteVerdict
  <2> QED
    BY <1>1, <1>3, <1>5, <2>1, CalmScanStep
<1>6. CASE \E w \in Workers, d \in Documents : Take(w, d)
  <2>1. faults' = faults
    BY <1>6 DEF Take
  <2> QED
    BY <1>1, <1>3, <1>6, <2>1, CalmTake
<1>7. CASE UNCHANGED vars
  <2>1. faults' = faults /\ worker' = worker /\ \A d \in Documents : SameFile(d)
    BY <1>7 DEF vars, SameFile
  <2>2. Calm => Calm'
    <3> SUFFICES ASSUME Calm PROVE Calm'
      OBVIOUS
    <3>1. \A d \in Documents : GoneInv(d)'
      BY <2>1, GoneKept DEF Calm
    <3>2. ASSUME NEW w \in Workers PROVE CalmInv(w)'
      <4>1. worker[w].pc # "idle" => Of(w) \in Documents
        BY <1>1, WorkerType
      <4> QED
        BY <2>1, <4>1, CalmKept DEF Calm
    <3> QED
      BY <3>1, <3>2 DEF Calm
  <2> QED
    BY <1>3, <2>1, <2>2
<1> QED
  BY <1>2, <1>4, <1>5, <1>6, <1>7 DEF Next

(* What was deleted after its scan had ended leaves no object behind.      *)
THEOREM NothingLeftBehind == Spec => []DeletedIsGone
<1>1. DInv => DeletedIsGone
  BY DEF DInv, Calm, GoneInv, DeletedIsGone
<1>2. DInv /\ [Next]_vars => DInv'
  BY NextCalm
<1> QED
  BY <1>1, <1>2, InitCalm, PTL DEF Spec

====
