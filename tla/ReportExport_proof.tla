----------------------------- MODULE ReportExport_proof -----------------------------
(***************************************************************************)
(* What holds of report exports for any number of exports, of workers in   *)
(* the same export, of retries, stalls and faults.                         *)
(*                                                                         *)
(* As long as no job of an export stalled, the one worker in it owns the   *)
(* job: only its place matters, and no other attempt writes the row or the *)
(* inbox behind it.  A requester who was not told of a failure has seen a  *)
(* failed call in each attempt that threw.                                 *)
(***************************************************************************)
EXTENDS ReportExport, TLAPS

ToldReady(e)  == "ready" \in inbox[e] \/ e \in inactive
ToldFailed(e) == "failed" \in inbox[e] \/ e \in inactive

ExportInv(e) ==
    /\ row[e].status = "READY" \/ "ready" \in inbox[e] => e \in files /\ row[e].storageKey
    /\ row[e].status = "NONE" => job[e].state = "none"
    /\ job[e].state = "none" => row[e].status \in {"NONE", "PENDING"}
    /\ faults = 0 => /\ job[e].stalls = 0
                     /\ job[e].state = "waiting" => row[e].status # "READY"
    /\ job[e].stalls = 0 =>
          /\ job[e].state = "completed" => row[e].status = "READY" /\ ToldReady(e)
          /\ job[e].state = "failed" => job[e].threw >= Attempts
          /\ ToldFailed(e) \/ job[e].threw <= faults

(* What the owner of a job that never stalled knows of its export.          *)
Knows(w) ==
    /\ worker[w].pc \in {"askReady", "tellReady", "return"} => row[Of(w)].status = "READY"
    /\ worker[w].pc = "return" => ToldReady(Of(w))
    /\ worker[w].pc = "throw" => ToldFailed(Of(w)) \/ job[Of(w)].threw + 1 <= faults
    /\ worker[w].pc \notin {"askReady", "tellReady", "return"} /\ faults = 0 =>
          row[Of(w)].status # "READY"

AttemptInv(w) ==
    worker[w].pc # "idle" =>
        /\ job[Of(w)].state # "none"
        /\ worker[w].pc \in {"writeReady", "askReady", "tellReady"} => Of(w) \in files
        /\ worker[w].pc \in {"askReady", "tellReady"} => row[Of(w)].storageKey
        /\ job[Of(w)].stalls = 0 => Owns(w) /\ Knows(w)

(* The page knows no status before there is a row.                          *)
Asked ==
    \A e \in Exports :
        row[e].status = "NONE" => page[e] = "none" /\ \A p \in Polls : polls[e][p] = "none"

IInv ==
    /\ TypeOK
    /\ Asked
    /\ \A e \in Exports : ExportInv(e)
    /\ \A w \in Workers : AttemptInv(w)

-----------------------------------------------------------------------------
(* Types.                                                                  *)

LEMMA WorkerType ==
    ASSUME TypeOK, NEW w \in Workers
    PROVE  /\ worker[w].pc # "idle" => Of(w) \in Exports /\ worker[w].pc \in Step
           /\ worker[w].pc = "idle" => worker[w] = Idle
           /\ worker[w] # Idle => worker[w].pc # "idle"
<1>1. worker[w] \in Worker
  BY DEF TypeOK
<1>2. "idle" \notin Step
  BY DEF Step
<1>3. CASE worker[w] = Idle
  BY <1>3 DEF Idle
<1>4. CASE worker[w] \in [pc : Step, of : Exports]
  BY <1>2, <1>4 DEF Of
<1> QED
  BY <1>1, <1>3, <1>4 DEF Worker, Idle

(* An attempt that goes on stays in its export.                             *)
LEMMA Goes ==
    ASSUME TypeOK, NEW w \in Workers, worker[w].pc # "idle", NEW s \in Step, GoTo(w, s)
    PROVE  /\ worker' \in [Workers -> Worker]
           /\ worker'[w].pc = s /\ worker'[w].of = Of(w)
           /\ \A v \in Workers : v # w => worker'[v] = worker[v]
<1>1. Of(w) \in Exports /\ worker[w] \in Worker
  BY WorkerType DEF TypeOK
<1>2. worker[w] \in [pc : Step, of : Exports]
  BY <1>1 DEF Worker, Idle
<1>3. [worker[w] EXCEPT !.pc = s] \in [pc : Step, of : Exports]
  BY <1>2
<1>4. worker' = [worker EXCEPT ![w] = [worker[w] EXCEPT !.pc = s]]
  BY DEF GoTo, TypeOK
<1>5. worker' \in [Workers -> Worker]
  BY <1>3, <1>4 DEF Worker, TypeOK
<1> QED
  BY <1>2, <1>4, <1>5 DEF Of, TypeOK

LEMMA Leaves ==
    ASSUME TypeOK, NEW w \in Workers, worker' = [worker EXCEPT ![w] = Idle]
    PROVE  /\ worker' \in [Workers -> Worker]
           /\ worker'[w].pc = "idle"
           /\ \A v \in Workers : v # w => worker'[v] = worker[v]
BY DEF TypeOK, Worker, Idle

LEMMA JobType ==
    ASSUME TypeOK, NEW e \in Exports
    PROVE  /\ job[e] \in Job
           /\ job[e].state \in {"none", "waiting", "active", "completed", "failed"}
           /\ job[e].threw \in Nat /\ job[e].stalls \in Nat
           /\ job[e].owner \in Workers \cup {NoOne}
BY DEF TypeOK, Job

LEMMA StatusStep ==
    ASSUME TypeOK, NEW e \in Exports, NEW s \in Status, row' = [row EXCEPT ![e].status = s]
    PROVE  /\ row' \in [Exports -> Row]
           /\ row'[e].status = s /\ row'[e].storageKey = row[e].storageKey
           /\ \A x \in Exports : x # e => row'[x] = row[x]
BY DEF TypeOK, Row

LEMMA ReadyRow ==
    ASSUME TypeOK, NEW w \in Workers, WriteReady(w)
    PROVE  /\ row' \in [Exports -> Row]
           /\ row'[Of(w)].status = "READY" /\ row'[Of(w)].storageKey
           /\ \A x \in Exports : x # Of(w) => row'[x] = row[x]
<1>1. Of(w) \in Exports
  BY WorkerType DEF WriteReady, At
<1> QED
  BY <1>1 DEF WriteReady, TypeOK, Row, Status, Ended

LEMMA Told ==
    ASSUME TypeOK, NEW e \in Exports, NEW k \in Notice,
           inbox' = [inbox EXCEPT ![e] = inbox[e] \cup {k}]
    PROVE  /\ inbox' \in [Exports -> SUBSET Notice]
           /\ inbox'[e] = inbox[e] \cup {k}
           /\ \A x \in Exports : x # e => inbox'[x] = inbox[x]
BY DEF TypeOK

LEMMA Queued ==
    ASSUME TypeOK, NEW e \in Exports, AddJob(e)
    PROVE  /\ job' \in [Exports -> Job]
           /\ job'[e].state = "waiting" /\ job'[e].stalls = job[e].stalls
           /\ job'[e].threw = job[e].threw
           /\ \A x \in Exports : x # e => job'[x] = job[x]
<1>1. job' = [job EXCEPT ![e] = [job[e] EXCEPT !.state = "waiting"]]
  BY DEF AddJob, TypeOK
<1>2. [job[e] EXCEPT !.state = "waiting"] \in Job
  BY JobType DEF Job
<1> QED
  BY <1>1, <1>2 DEF TypeOK, Job

LEMMA Taken ==
    ASSUME TypeOK, NEW w \in Workers, NEW e \in Exports, Take(w, e)
    PROVE  /\ job' \in [Exports -> Job]
           /\ job'[e].state = "active" /\ job'[e].owner = w
           /\ job'[e].stalls = job[e].stalls /\ job'[e].threw = job[e].threw
           /\ \A x \in Exports : x # e => job'[x] = job[x]
           /\ worker' \in [Workers -> Worker]
           /\ worker'[w].pc = "mark" /\ worker'[w].of = e
           /\ \A v \in Workers : v # w => worker'[v] = worker[v]
<1>1. job' = [job EXCEPT ![e] = [job[e] EXCEPT !.state = "active", !.owner = w]]
  BY DEF Take, TypeOK
<1>2. [job[e] EXCEPT !.state = "active", !.owner = w] \in Job
  BY JobType DEF Job
<1>3. /\ worker' \in [Workers -> Worker]
      /\ worker'[w] = [pc |-> "mark", of |-> e]
      /\ \A v \in Workers : v # w => worker'[v] = worker[v]
  BY DEF Take, TypeOK, Worker, Step
<1> QED
  BY <1>1, <1>2, <1>3 DEF TypeOK, Job

LEMMA HandedOut ==
    ASSUME TypeOK, NEW e \in Exports, HandOutAgain(e)
    PROVE  /\ job' \in [Exports -> Job]
           /\ job'[e].state \in {"waiting", "failed"} /\ job'[e].stalls # 0
           /\ \A x \in Exports : x # e => job'[x] = job[x]
<1> DEFINE s == IF job[e].stalls < MaxStalls THEN "waiting" ELSE "failed"
           t == job[e].stalls + 1
           j == [job[e] EXCEPT !.owner = NoOne, !.stalls = t, !.state = s]
<1>1. s \in {"waiting", "failed"} /\ t \in Nat /\ t # 0
  BY JobType
<1>2. job' = [job EXCEPT ![e] = j]
  BY DEF HandOutAgain, TypeOK
<1> HIDE DEF s, t
<1>3. j \in Job /\ j.state = s /\ j.stalls = t
  BY JobType, <1>1 DEF Job
<1> HIDE DEF j
<1> QED
  BY <1>1, <1>2, <1>3 DEF TypeOK

(* An attempt that returned or threw without its lock leaves the job alone.  *)
LEMMA Completed ==
    ASSUME TypeOK, NEW w \in Workers, Return(w)
    PROVE  /\ job' \in [Exports -> Job]
           /\ \A x \in Exports : x # Of(w) \/ ~Owns(w) => job'[x] = job[x]
           /\ Owns(w) => /\ job'[Of(w)].state = "completed"
                         /\ job'[Of(w)].stalls = job[Of(w)].stalls
                         /\ job'[Of(w)].threw = job[Of(w)].threw
<1>1. Of(w) \in Exports
  BY WorkerType DEF Return, At
<1>2. CASE Owns(w)
  <2>1. job' = [job EXCEPT ![Of(w)] = [job[Of(w)] EXCEPT !.state = "completed", !.owner = NoOne]]
    BY <1>1, <1>2 DEF Return, TypeOK
  <2>2. [job[Of(w)] EXCEPT !.state = "completed", !.owner = NoOne] \in Job
    BY <1>1, JobType DEF Job
  <2> QED
    BY <1>1, <1>2, <2>1, <2>2 DEF TypeOK, Job
<1>3. CASE ~Owns(w)
  BY <1>3 DEF Return, TypeOK
<1> QED
  BY <1>2, <1>3

LEMMA GaveUp ==
    ASSUME TypeOK, NEW w \in Workers, Throw(w)
    PROVE  /\ job' \in [Exports -> Job]
           /\ \A x \in Exports : x # Of(w) \/ ~Owns(w) => job'[x] = job[x]
           /\ Owns(w) => /\ job'[Of(w)].state \in {"waiting", "failed"}
                         /\ job'[Of(w)].state = "failed" => job'[Of(w)].threw >= Attempts
                         /\ job'[Of(w)].stalls = job[Of(w)].stalls
                         /\ job'[Of(w)].threw = job[Of(w)].threw + 1
<1>1. Of(w) \in Exports
  BY WorkerType DEF Throw, At
<1>2. CASE Owns(w)
  <2> DEFINE m == job[Of(w)].threw + 1
             s == IF m < Attempts THEN "waiting" ELSE "failed"
             j == [job[Of(w)] EXCEPT !.threw = m, !.owner = NoOne, !.state = s]
  <2>1. job' = [job EXCEPT ![Of(w)] = j]
    BY <1>1, <1>2 DEF Throw, TypeOK
  <2>2. /\ m \in Nat /\ s \in {"waiting", "failed"}
        /\ s = "failed" => m >= Attempts
    BY <1>1, JobType, LimitsAssumption
  <2> HIDE DEF m, s
  <2>3. j \in Job /\ j.state = s /\ j.threw = m /\ j.stalls = job[Of(w)].stalls
    BY <1>1, JobType, <2>2 DEF Job
  <2> HIDE DEF j
  <2>4. job'[Of(w)] = j /\ job' \in [Exports -> Job]
        /\ \A x \in Exports : x # Of(w) => job'[x] = job[x]
    BY <1>1, <2>1, <2>3 DEF TypeOK
  <2> QED
    BY <1>2, <2>2, <2>3, <2>4 DEF m
<1>3. CASE ~Owns(w)
  BY <1>3 DEF Throw, TypeOK
<1> QED
  BY <1>2, <1>3

LEMMA InitType == Init => TypeOK /\ Asked
BY NoOneAssumption DEF Init, TypeOK, Asked, Row, Status, Ended, Job, Worker, Notice

LEMMA PollingType ==
    ASSUME TypeOK, Asked, NEW e \in Exports, NEW p \in Polls, Polling(e, p)
    PROVE  TypeOK' /\ Asked'
<1>1. row[e].status \in {"NONE"} \cup Status
  BY DEF TypeOK, Row
<1>2. CASE Poll(e, p)
  <2>1. row[e].status \in Status
    BY <1>1, <1>2 DEF Poll, Asked
  <2>2. polls' = [polls EXCEPT ![e] = [polls[e] EXCEPT ![p] = row[e].status]]
    BY <1>2 DEF Poll
  <2>3. polls' \in [Exports -> [Polls -> {"none"} \cup Status]]
    BY <2>1, <2>2 DEF TypeOK
  <2>4. \A x \in Exports : row[x].status = "NONE" => x # e /\ polls'[x] = polls[x]
    BY <2>1, <2>2 DEF TypeOK, Status, Ended
  <2> QED
    BY <1>2, <2>3, <2>4 DEF Poll, TypeOK, Asked, world
<1>3. ASSUME polls' = [polls EXCEPT ![e] = [polls[e] EXCEPT ![p] = "none"]]
      PROVE  /\ polls' \in [Exports -> [Polls -> {"none"} \cup Status]]
             /\ \A x \in Exports : \A q \in Polls :
                   polls[x][q] = "none" => polls'[x][q] = "none"
  BY <1>3 DEF TypeOK
<1>4. CASE Arrive(e, p)
  <2>1. polls[e][p] \in Status
    BY <1>4 DEF Arrive, TypeOK
  <2>2. /\ page' \in [Exports -> {"none", "closed"} \cup Status]
        /\ \A x \in Exports : x # e => page'[x] = page[x]
    BY <1>4, <2>1 DEF Arrive, TypeOK
  <2>3. row[e].status # "NONE"
    BY <1>4 DEF Arrive, Asked
  <2> QED
    BY <1>3, <1>4, <2>2, <2>3 DEF Arrive, TypeOK, Asked, world
<1>5. CASE PollFails(e, p)
  BY <1>3, <1>5 DEF PollFails, Fault, TypeOK, Asked, world
<1> QED
  BY <1>2, <1>4, <1>5 DEF Polling

LEMMA NextType == TypeOK /\ Asked /\ [Next]_vars => TypeOK' /\ Asked'
<1> SUFFICES ASSUME TypeOK, Asked, [Next]_vars PROVE TypeOK' /\ Asked'
  OBVIOUS
<1> DEFINE RowGoesOn == \A x \in Exports : row'[x].status = "NONE" => row[x].status = "NONE"
<1> "NONE" \notin Status
  BY DEF Status, Ended
<1>1. ASSUME NEW e \in Exports, CreateExport(e) PROVE TypeOK' /\ Asked'
  <2>1. row' \in [Exports -> Row] /\ RowGoesOn
    BY <1>1, StatusStep DEF CreateExport, Status
  <2> QED
    BY <1>1, <2>1 DEF CreateExport, TypeOK, Asked, web, world
<1>2. ASSUME NEW e \in Exports, AddJob(e) PROVE TypeOK' /\ Asked'
  <2>1. /\ page' \in [Exports -> {"none", "closed"} \cup Status]
        /\ row[e].status # "NONE" /\ \A x \in Exports : x # e => page'[x] = page[x]
    BY <1>2 DEF AddJob, TypeOK, Status
  <2>2. job' \in [Exports -> Job]
    BY <1>2, Queued
  <2> QED
    BY <1>2, <2>1, <2>2 DEF AddJob, TypeOK, Asked, world
<1>3. ASSUME NEW e \in Exports, AddJobFails(e) PROVE TypeOK' /\ Asked'
  BY <1>3 DEF AddJobFails, Fault, TypeOK, Asked, world
<1>4. ASSUME NEW e \in Exports, LoseLock(e) PROVE TypeOK' /\ Asked'
  <2>1. job' \in [Exports -> Job]
    BY <1>4, HandedOut DEF LoseLock
  <2> QED
    BY <1>4, <2>1 DEF LoseLock, Fault, TypeOK, Asked, web, world
<1>5. ASSUME NEW e \in Exports, People(e) PROVE TypeOK' /\ Asked'
  <2>1. CASE ClosePage(e)
    <3>1. page[e] # "none"
      BY <2>1 DEF ClosePage, Status, Ended
    <3> QED
      BY <2>1, <3>1 DEF ClosePage, TypeOK, Asked, world
  <2>2. CASE DeactivateUser(e) \/ Outgrow(e)
    BY <2>2 DEF DeactivateUser, Outgrow, TypeOK, Asked, web
  <2> QED
    BY <1>5, <2>1, <2>2 DEF People
<1>6. ASSUME NEW w \in Workers, worker[w].pc # "idle",
             row' = row \/ \E s \in Status : row' = [row EXCEPT ![Of(w)].status = s]
      PROVE  row' \in [Exports -> Row] /\ RowGoesOn
  <2>1. Of(w) \in Exports
    BY <1>6, WorkerType
  <2>2. CASE row' = row
    BY <2>2 DEF TypeOK
  <2>3. ASSUME NEW s \in Status, row' = [row EXCEPT ![Of(w)].status = s]
        PROVE  row' \in [Exports -> Row] /\ RowGoesOn
    BY <2>1, <2>3, StatusStep
  <2> QED
    BY <1>6, <2>2, <2>3
<1>7. ASSUME NEW w \in Workers, NEW s \in Step, worker[w].pc # "idle", GoTo(w, s)
      PROVE  worker' \in [Workers -> Worker]
  BY <1>7, Goes
<1>8. ASSUME NEW w \in Workers, Attempt(w) PROVE TypeOK' /\ Asked'
  <2>1. CASE MarkProcessing(w)
    BY <1>6, <1>7, <2>1 DEF MarkProcessing, At, Step, Status, TypeOK, Asked, web, world
  <2>2. CASE Build(w)
    BY <1>7, <2>2 DEF Build, At, Step, TypeOK, Asked, web, world
  <2>3. CASE Put(w)
    BY <1>7, <2>3, WorkerType DEF Put, At, Step, TypeOK, Asked, web, world
  <2>4. CASE WriteReady(w)
    <3>1. row' \in [Exports -> Row] /\ RowGoesOn
      BY <2>4, ReadyRow
    <3>2. worker' \in [Workers -> Worker]
      BY <1>7, <2>4 DEF WriteReady, At, Step
    <3> QED
      BY <2>4, <3>1, <3>2 DEF WriteReady, TypeOK, Asked, web, world
  <2>5. CASE AskReady(w) \/ AskFailed(w)
    BY <1>7, <2>5 DEF AskReady, AskFailed, Ask, At, Step, TypeOK, Asked, web, world
  <2>6. CASE TellReady(w) \/ TellFailed(w)
    <3>1. worker[w].pc # "idle" /\ Of(w) \in Exports
      BY <2>6, WorkerType DEF TellReady, TellFailed, Tell, At
    <3>2. inbox' \in [Exports -> SUBSET Notice]
      BY <2>6, <3>1, Told DEF TellReady, TellFailed, Tell, Notice
    <3>3. worker' \in [Workers -> Worker]
      BY <1>7, <2>6, <3>1 DEF TellReady, TellFailed, Tell, Step
    <3> QED
      BY <2>6, <3>2, <3>3 DEF TellReady, TellFailed, Tell, TypeOK, Asked, web, world
  <2>7. CASE MarkFailed(w)
    BY <1>6, <1>7, <2>7 DEF MarkFailed, At, Step, Status, Ended, TypeOK, Asked, web, world
  <2>8. CASE Return(w)
    <3>1. job' \in [Exports -> Job]
      BY <2>8, Completed
    <3> QED
      BY <2>8, <3>1, Leaves DEF Return, TypeOK, Asked, web, world
  <2>9. CASE Throw(w)
    <3>1. job' \in [Exports -> Job]
      BY <2>9, GaveUp
    <3> QED
      BY <2>9, <3>1, Leaves DEF Throw, TypeOK, Asked, web, world
  <2> QED
    BY <1>8, <2>1, <2>2, <2>3, <2>4, <2>5, <2>6, <2>7, <2>8, <2>9 DEF Attempt
<1>9. ASSUME NEW w \in Workers, CallFails(w) PROVE TypeOK' /\ Asked'
  BY <1>7, <1>9 DEF CallFails, Fault, Step, TypeOK, Asked, web, world
<1>10. ASSUME NEW w \in Workers, Die(w) PROVE TypeOK' /\ Asked'
  <2>1. job' \in [Exports -> Job]
    BY <1>10, HandedOut, WorkerType DEF Die, TypeOK
  <2>2. worker' \in [Workers -> Worker]
    BY <1>10, Leaves DEF Die
  <2> QED
    BY <1>10, <2>1, <2>2 DEF Die, Fault, TypeOK, Asked, web, world
<1>11. ASSUME NEW w \in Workers, NEW e \in Exports, Take(w, e) PROVE TypeOK' /\ Asked'
  <2>1. job' \in [Exports -> Job] /\ worker' \in [Workers -> Worker]
    BY <1>11, Taken
  <2> QED
    BY <1>11, <2>1 DEF Take, TypeOK, Asked, web, world
<1>12. CASE UNCHANGED vars
  BY <1>12 DEF vars, TypeOK, Asked, web, world
<1> QED
  BY <1>1, <1>2, <1>3, <1>4, <1>5, <1>8, <1>9, <1>10, <1>11, <1>12, PollingType DEF Next

(* Type correctness.                                                       *)
THEOREM Types == Spec => []TypeOK
<1>1. Init => TypeOK /\ Asked
  BY InitType
<1>2. (TypeOK /\ Asked) /\ [Next]_vars => (TypeOK /\ Asked)'
  BY NextType
<1> QED
  BY <1>1, <1>2, PTL DEF Spec

-----------------------------------------------------------------------------
(* The invariant.  A step concerns one export, and at most one attempt.     *)

LEMMA InitInv == Init => IInv
<1> SUFFICES ASSUME Init PROVE IInv
  OBVIOUS
<1>1. TypeOK /\ Asked
  BY InitType
<1>2. \A e \in Exports : ExportInv(e)
  <2> SUFFICES ASSUME NEW e \in Exports PROVE ExportInv(e)
    OBVIOUS
  <2>1. /\ row[e].status = "NONE" /\ inbox[e] = {} /\ faults = 0
        /\ job[e].state = "none" /\ job[e].threw = 0 /\ job[e].stalls = 0
    BY DEF Init
  <2> QED
    BY <2>1 DEF ExportInv
<1>3. \A w \in Workers : AttemptInv(w)
  BY DEF Init, AttemptInv, Idle
<1> QED
  BY <1>1, <1>2, <1>3 DEF IInv

Same(e) ==
    /\ row'[e] = row[e] /\ job'[e] = job[e] /\ inbox'[e] = inbox[e]
    /\ e \in files => e \in files'
    /\ e \in inactive => e \in inactive'
    /\ faults <= faults' /\ (faults' = 0 => faults = 0)

(* What a worker without its lock still relies on.                          *)
Stored(e) == /\ e \in files => e \in files'
             /\ row[e].storageKey => row'[e].storageKey
             /\ job[e].state # "none" => job'[e].state # "none"

LEMMA SameKept ==
    ASSUME TypeOK, TypeOK', NEW e \in Exports, ExportInv(e), Same(e)
    PROVE  ExportInv(e)'
<1>1. job[e].threw \in Nat /\ faults \in Nat /\ faults' \in Nat
  BY JobType DEF TypeOK
<1> QED
  BY <1>1 DEF ExportInv, Same, ToldReady, ToldFailed

LEMMA OtherKept ==
    ASSUME TypeOK, TypeOK', NEW v \in Workers, AttemptInv(v), worker'[v] = worker[v],
           worker[v].pc # "idle" => \/ Same(Of(v))
                                    \/ Stored(Of(v)) /\ job'[Of(v)].stalls # 0
    PROVE  AttemptInv(v)'
<1>1. CASE worker[v].pc = "idle"
  BY <1>1 DEF AttemptInv
<1>2. CASE worker[v].pc # "idle" /\ Same(Of(v))
  <2>1. job[Of(v)].threw \in Nat /\ faults \in Nat /\ faults' \in Nat
    BY <1>2, JobType, WorkerType DEF TypeOK
  <2>2. Of(v)' = Of(v)
    BY DEF Of
  <2>3. Knows(v) => Knows(v)'
    BY <1>2, <2>1, <2>2 DEF Knows, Same, ToldReady, ToldFailed
  <2>4. Owns(v) => Owns(v)'
    BY <1>2, <2>2 DEF Owns, Same
  <2> QED
    BY <1>2, <2>2, <2>3, <2>4 DEF AttemptInv, Same
<1>3. CASE worker[v].pc # "idle" /\ Stored(Of(v)) /\ job'[Of(v)].stalls # 0
  BY <1>3 DEF AttemptInv, Stored, Of
<1> QED
  BY <1>1, <1>2, <1>3

(* Two attempts in one export share a stalled job.                          *)
LEMMA Alone ==
    ASSUME IInv, NEW w \in Workers, NEW v \in Workers, v # w,
           worker[w].pc # "idle", worker[v].pc # "idle", Of(v) = Of(w)
    PROVE  job[Of(w)].stalls # 0
BY DEF IInv, AttemptInv, Owns

(* A step of an attempt within its export.                                  *)
LEMMA GoesOn ==
    ASSUME IInv, TypeOK', Asked', NEW w \in Workers, worker[w].pc # "idle",
           NEW s \in Step, GoTo(w, s), job' = job,
           NEW e \in Exports, e = Of(w), Stored(e), ExportInv(e)',
           \A x \in Exports : x # e => Same(x),
           AttemptInv(w)'
    PROVE  IInv'
<1>1. TypeOK /\ (\A x \in Exports : ExportInv(x)) /\ \A v \in Workers : AttemptInv(v)
  BY DEF IInv
<1>2. ASSUME NEW x \in Exports PROVE ExportInv(x)'
  BY <1>1, SameKept
<1>3. ASSUME NEW v \in Workers, v # w PROVE AttemptInv(v)'
  <2>1. worker'[v] = worker[v]
    BY <1>1, <1>3, Goes
  <2>2. ASSUME worker[v].pc # "idle"
        PROVE  Same(Of(v)) \/ (Stored(Of(v)) /\ job'[Of(v)].stalls # 0)
    BY <1>1, <1>3, <2>2, Alone, WorkerType
  <2> QED
    BY <1>1, <2>1, <2>2, OtherKept
<1> QED
  BY <1>2, <1>3 DEF IInv

(* What an attempt knows after its step, given what it knew before.         *)
LEMMA AttemptStep ==
    ASSUME IInv, TypeOK', Asked', NEW w \in Workers, Attempt(w), ~Return(w), ~Throw(w)
    PROVE  IInv'
<1>1. TypeOK /\ (\A x \in Exports : ExportInv(x)) /\ AttemptInv(w)
  BY DEF IInv
<1>2. worker[w].pc # "idle" /\ job' = job /\ faults' = faults
  BY DEF Attempt, MarkProcessing, Build, Put, WriteReady, AskReady, AskFailed, Ask, TellReady,
         MarkFailed, TellFailed, Tell, At
<1>3. PICK e \in Exports : e = Of(w)
  BY <1>1, <1>2, WorkerType
<1>4. /\ job[e].threw \in Nat /\ job[e].stalls \in Nat /\ faults \in Nat
  BY <1>1, JobType DEF TypeOK
<1>5. /\ job[e].state # "none"
      /\ job[e].stalls = 0 => job[e].state = "active" /\ job[e].owner = w /\ Knows(w)
  BY <1>1, <1>2, <1>3 DEF AttemptInv, Owns
<1>6. ExportInv(e)
  BY <1>1
<1>7. ASSUME NEW s \in Step, GoTo(w, s), Stored(e), \A x \in Exports : x # e => Same(x),
             row'[e].status # "NONE",
             row'[e].status = "READY" \/ "ready" \in inbox'[e] => e \in files' /\ row'[e].storageKey,
             s \in {"writeReady", "askReady", "tellReady"} => e \in files',
             s \in {"askReady", "tellReady"} => row'[e].storageKey,
             ToldReady(e) => ToldReady(e)', ToldFailed(e) => ToldFailed(e)',
             job[e].stalls = 0 =>
                /\ s \in {"askReady", "tellReady", "return"} => row'[e].status = "READY"
                /\ s = "return" => ToldReady(e)'
                /\ s = "throw" => ToldFailed(e)' \/ job[e].threw + 1 <= faults
                /\ s \notin {"askReady", "tellReady", "return"} /\ faults = 0 =>
                      row'[e].status # "READY"
      PROVE  IInv'
  <2>1. worker'[w].pc = s /\ worker'[w].of = e
    BY <1>1, <1>2, <1>3, <1>7, Goes
  <2>2. ExportInv(e)'
    BY <1>2, <1>4, <1>5, <1>6, <1>7 DEF ExportInv
  <2>3. AttemptInv(w)'
    BY <1>2, <1>5, <1>7, <2>1 DEF AttemptInv, Owns, Knows, Of, ToldReady, ToldFailed
  <2> QED
    BY <1>2, <1>3, <1>7, <2>2, <2>3, GoesOn
<1>8. ASSUME files \subseteq files', inactive' = inactive, inbox[e] \subseteq inbox'[e],
             row[e].storageKey => row'[e].storageKey,
             \A x \in Exports : x # e => row'[x] = row[x] /\ inbox'[x] = inbox[x]
      PROVE  /\ Stored(e) /\ \A x \in Exports : x # e => Same(x)
             /\ (ToldReady(e) => ToldReady(e)') /\ (ToldFailed(e) => ToldFailed(e)')
  BY <1>2, <1>4, <1>8 DEF Stored, Same, ToldReady, ToldFailed
<1>9. /\ row[e].status # "NONE"
      /\ row[e].status = "READY" \/ "ready" \in inbox[e] => e \in files /\ row[e].storageKey
      /\ worker[w].pc \in {"writeReady", "askReady", "tellReady"} => e \in files
      /\ worker[w].pc \in {"askReady", "tellReady"} => row[e].storageKey
  BY <1>2, <1>3, <1>5, <1>1 DEF ExportInv, AttemptInv
<1>10. job[e].stalls = 0 =>
          /\ worker[w].pc \in {"askReady", "tellReady", "return"} => row[e].status = "READY"
          /\ worker[w].pc \notin {"askReady", "tellReady", "return"} /\ faults = 0 =>
                row[e].status # "READY"
  BY <1>3, <1>5 DEF Knows
<1>11. CASE MarkProcessing(w)
  <2>1. /\ worker[w].pc = "mark" /\ row' = [row EXCEPT ![e].status = "PROCESSING"]
        /\ GoTo(w, "build") /\ files' = files /\ inactive' = inactive /\ inbox' = inbox
    BY <1>3, <1>11 DEF MarkProcessing, At, world
  <2>2. /\ row'[e].status = "PROCESSING" /\ row'[e].storageKey = row[e].storageKey
        /\ \A x \in Exports : x # e => row'[x] = row[x]
    BY <1>1, <2>1, StatusStep DEF Status
  <2>3. /\ Stored(e) /\ \A x \in Exports : x # e => Same(x)
        /\ (ToldReady(e) => ToldReady(e)') /\ (ToldFailed(e) => ToldFailed(e)')
    BY <1>8, <2>1, <2>2
  <2> QED
    BY <1>7, <1>9, <2>1, <2>2, <2>3 DEF Step
<1>12. CASE MarkFailed(w)
  <2>1. /\ worker[w].pc = "markFailed" /\ row' = [row EXCEPT ![e].status = "FAILED"]
        /\ GoTo(w, "askFailed") /\ files' = files /\ inactive' = inactive /\ inbox' = inbox
    BY <1>3, <1>12 DEF MarkFailed, At, world
  <2>2. /\ row'[e].status = "FAILED" /\ row'[e].storageKey = row[e].storageKey
        /\ \A x \in Exports : x # e => row'[x] = row[x]
    BY <1>1, <2>1, StatusStep DEF Status, Ended
  <2>3. /\ Stored(e) /\ \A x \in Exports : x # e => Same(x)
        /\ (ToldReady(e) => ToldReady(e)') /\ (ToldFailed(e) => ToldFailed(e)')
    BY <1>8, <2>1, <2>2
  <2> QED
    BY <1>7, <1>9, <2>1, <2>2, <2>3 DEF Step
<1>13. CASE WriteReady(w)
  <2>1. /\ worker[w].pc = "writeReady"
        /\ GoTo(w, "askReady") /\ files' = files /\ inactive' = inactive /\ inbox' = inbox
    BY <1>13 DEF WriteReady, At, world
  <2>2. /\ row'[e].status = "READY" /\ row'[e].storageKey
        /\ \A x \in Exports : x # e => row'[x] = row[x]
    BY <1>1, <1>3, <1>13, ReadyRow
  <2>3. /\ Stored(e) /\ \A x \in Exports : x # e => Same(x)
        /\ (ToldReady(e) => ToldReady(e)') /\ (ToldFailed(e) => ToldFailed(e)')
    BY <1>8, <2>1, <2>2
  <2> QED
    BY <1>7, <1>9, <2>1, <2>2, <2>3 DEF Step
<1>14. CASE Build(w) \/ Put(w)
  <2>1. /\ worker[w].pc \in {"build", "put"} /\ files \subseteq files'
        /\ row' = row /\ inactive' = inactive /\ inbox' = inbox
    BY <1>14 DEF Build, Put, At, world
  <2>2. PICK s \in {"markFailed", "put", "writeReady"} :
           GoTo(w, s) /\ (s = "writeReady" => e \in files')
    BY <1>3, <1>14 DEF Build, Put
  <2>3. /\ Stored(e) /\ \A x \in Exports : x # e => Same(x)
        /\ (ToldReady(e) => ToldReady(e)') /\ (ToldFailed(e) => ToldFailed(e)')
    BY <1>8, <2>1
  <2>4. s \in Step
    BY DEF Step
  <2> QED
    BY <1>7, <1>9, <1>10, <2>1, <2>2, <2>3, <2>4
<1>15. CASE AskReady(w) \/ AskFailed(w)
  <2>1. /\ worker[w].pc \in {"askReady", "askFailed"} /\ files' = files
        /\ row' = row /\ inactive' = inactive /\ inbox' = inbox
    BY <1>15 DEF AskReady, AskFailed, Ask, At, world
  <2>2. PICK s \in {"tellReady", "tellFailed", "return", "throw"} :
           /\ GoTo(w, s)
           /\ worker[w].pc = "askReady" <=> s \in {"tellReady", "return"}
           /\ s \in {"return", "throw"} => e \in inactive
    BY <1>3, <1>15 DEF AskReady, AskFailed, Ask, At
  <2>3. /\ Stored(e) /\ \A x \in Exports : x # e => Same(x)
        /\ (ToldReady(e) => ToldReady(e)') /\ (ToldFailed(e) => ToldFailed(e)')
    BY <1>8, <2>1
  <2>4. s \in Step /\ (s \in {"return", "throw"} => ToldReady(e) /\ ToldFailed(e))
    BY <2>2 DEF Step, ToldReady, ToldFailed
  <2> QED
    BY <1>7, <1>9, <1>10, <2>1, <2>2, <2>3, <2>4
<1>16. CASE TellReady(w)
  <2>1. /\ worker[w].pc = "tellReady" /\ files' = files /\ row' = row /\ inactive' = inactive
        /\ inbox' = [inbox EXCEPT ![e] = inbox[e] \cup {"ready"}] /\ GoTo(w, "return")
    BY <1>3, <1>16 DEF TellReady, At, world
  <2>2. /\ inbox'[e] = inbox[e] \cup {"ready"}
        /\ \A x \in Exports : x # e => inbox'[x] = inbox[x]
    BY <1>1, <2>1, Told DEF Notice
  <2>3. /\ Stored(e) /\ \A x \in Exports : x # e => Same(x)
        /\ (ToldReady(e) => ToldReady(e)') /\ (ToldFailed(e) => ToldFailed(e)')
    BY <1>8, <2>1, <2>2
  <2>4. ToldReady(e)'
    BY <2>2 DEF ToldReady
  <2> QED
    BY <1>7, <1>9, <1>10, <2>1, <2>2, <2>3, <2>4 DEF Step
<1>17. CASE TellFailed(w)
  <2>1. /\ worker[w].pc = "tellFailed" /\ files' = files /\ row' = row /\ inactive' = inactive
        /\ inbox' = [inbox EXCEPT ![e] = inbox[e] \cup {"failed"}] /\ GoTo(w, "throw")
    BY <1>3, <1>17 DEF TellFailed, Tell, At, world
  <2>2. /\ inbox'[e] = inbox[e] \cup {"failed"}
        /\ \A x \in Exports : x # e => inbox'[x] = inbox[x]
    BY <1>1, <2>1, Told DEF Notice
  <2>3. /\ Stored(e) /\ \A x \in Exports : x # e => Same(x)
        /\ (ToldReady(e) => ToldReady(e)') /\ (ToldFailed(e) => ToldFailed(e)')
    BY <1>8, <2>1, <2>2
  <2>4. ToldFailed(e)'
    BY <2>2 DEF ToldFailed
  <2> QED
    BY <1>7, <1>9, <1>10, <2>1, <2>2, <2>3, <2>4 DEF Step
<1> QED
  BY <1>11, <1>12, <1>13, <1>14, <1>15, <1>16, <1>17 DEF Attempt

(* A failed call can only be a reason more for not having told.             *)
LEMMA CallFailsStep ==
    ASSUME IInv, TypeOK', Asked', NEW w \in Workers, CallFails(w)
    PROVE  IInv'
<1>1. TypeOK /\ (\A x \in Exports : ExportInv(x)) /\ AttemptInv(w)
  BY DEF IInv
<1>2. /\ worker[w].pc # "idle" /\ faults' = faults + 1
      /\ UNCHANGED <<row, files, inactive, inbox, job>>
  BY DEF CallFails, Fault, world
<1>3. PICK e \in Exports : e = Of(w)
  BY <1>1, <1>2, WorkerType
<1>4. /\ job[e].threw \in Nat /\ job[e].stalls \in Nat /\ faults \in Nat
  BY <1>1, JobType DEF TypeOK
<1>5. PICK s \in {"markFailed", "throw"} : GoTo(w, s)
  BY DEF CallFails
<1>6. s \in Step /\ worker'[w].pc = s /\ worker'[w].of = e
  BY <1>1, <1>2, <1>3, <1>5, Goes DEF Step
<1>7. Stored(e) /\ \A x \in Exports : x # e => Same(x)
  BY <1>2, <1>4 DEF Stored, Same
<1>8. ExportInv(e)'
  BY <1>1, <1>2, <1>4 DEF ExportInv, ToldReady, ToldFailed
<1>9. /\ job[e].state # "none"
      /\ job[e].stalls = 0 => /\ job[e].state = "active" /\ job[e].owner = w
                              /\ ToldFailed(e) \/ job[e].threw <= faults
  BY <1>1, <1>2, <1>3 DEF AttemptInv, Owns, ExportInv
<1>10. AttemptInv(w)'
  BY <1>2, <1>4, <1>5, <1>6, <1>9 DEF AttemptInv, Owns, Knows, Of, ToldFailed
<1> QED
  BY <1>2, <1>3, <1>5, <1>6, <1>7, <1>8, <1>10, GoesOn

(* A step that no attempt takes, or after which its worker is idle.         *)
LEMMA Leaving ==
    ASSUME IInv, TypeOK', Asked', NEW e \in Exports,
           \A x \in Exports : x # e => Same(x), ExportInv(e)',
           \A v \in Workers : \/ AttemptInv(v)'
                              \/ /\ worker'[v] = worker[v]
                                 /\ worker[v].pc # "idle" /\ Of(v) = e =>
                                       Same(e) \/ (Stored(e) /\ job'[e].stalls # 0)
    PROVE  IInv'
<1>1. TypeOK /\ (\A x \in Exports : ExportInv(x)) /\ \A v \in Workers : AttemptInv(v)
  BY DEF IInv
<1>2. \A x \in Exports : ExportInv(x)'
  BY <1>1, SameKept
<1>3. ASSUME NEW v \in Workers PROVE AttemptInv(v)'
  BY <1>1, OtherKept, WorkerType
<1> QED
  BY <1>2, <1>3 DEF IInv

LEMMA RequestStep ==
    ASSUME IInv, TypeOK', Asked', NEW e \in Exports,
           \/ CreateExport(e) \/ AddJob(e) \/ AddJobFails(e) \/ People(e)
           \/ \E p \in Polls : Polling(e, p)
    PROVE  IInv'
<1>1. TypeOK /\ (\A x \in Exports : ExportInv(x)) /\ \A v \in Workers : AttemptInv(v)
  BY DEF IInv
<1>2. job[e].threw \in Nat /\ faults \in Nat /\ faults' \in Nat
  BY <1>1, JobType DEF TypeOK
<1>3. CASE CreateExport(e)
  <2>1. /\ row[e].status = "NONE" /\ row' = [row EXCEPT ![e].status = "PENDING"]
        /\ UNCHANGED <<files, inactive, inbox, job, worker, faults>>
    BY <1>3 DEF CreateExport, world
  <2>2. /\ row'[e].status = "PENDING" /\ row'[e].storageKey = row[e].storageKey
        /\ \A x \in Exports : x # e => row'[x] = row[x]
    BY <1>1, <2>1, StatusStep DEF Status
  <2>3. job[e].state = "none" /\ ExportInv(e)'
    BY <1>1, <1>2, <2>1, <2>2 DEF ExportInv, ToldReady, ToldFailed
  <2>4. \A x \in Exports : x # e => Same(x)
    BY <1>2, <2>1, <2>2 DEF Same
  <2>5. \A v \in Workers : worker'[v] = worker[v] /\ ~(worker[v].pc # "idle" /\ Of(v) = e)
    BY <1>1, <2>1, <2>3 DEF AttemptInv
  <2> QED
    BY <2>3, <2>4, <2>5, Leaving
<1>4. CASE AddJob(e)
  <2>1. /\ row[e].status = "PENDING" /\ job[e].state = "none"
        /\ UNCHANGED <<row, files, inactive, inbox, worker, faults>>
    BY <1>4 DEF AddJob, world
  <2>2. /\ job'[e].state = "waiting" /\ job'[e].stalls = job[e].stalls
        /\ job'[e].threw = job[e].threw
        /\ \A x \in Exports : x # e => job'[x] = job[x]
    BY <1>1, <1>4, Queued
  <2>3. ExportInv(e)'
    BY <1>1, <1>2, <2>1, <2>2 DEF ExportInv, ToldReady, ToldFailed
  <2>4. \A x \in Exports : x # e => Same(x)
    BY <1>2, <2>1, <2>2 DEF Same
  <2>5. \A v \in Workers : worker'[v] = worker[v] /\ ~(worker[v].pc # "idle" /\ Of(v) = e)
    BY <1>1, <2>1 DEF AttemptInv
  <2> QED
    BY <2>3, <2>4, <2>5, Leaving
<1>5. CASE AddJobFails(e) \/ People(e) \/ \E p \in Polls : Polling(e, p)
  <2>1. /\ UNCHANGED <<row, files, inbox, job, worker>> /\ inactive \subseteq inactive'
        /\ faults' = faults \/ faults' = faults + 1
    <3>1. CASE AddJobFails(e)
      BY <3>1 DEF AddJobFails, Fault, world
    <3>2. CASE People(e)
      BY <3>2 DEF People, ClosePage, DeactivateUser, Outgrow, world
    <3>3. CASE \E p \in Polls : Polling(e, p)
      BY <3>3 DEF Polling, Poll, Arrive, PollFails, Fault, world
    <3> QED
      BY <1>5, <3>1, <3>2, <3>3
  <2>2. \A x \in Exports : Same(x)
    BY <1>2, <2>1 DEF Same
  <2>3. ExportInv(e)'
    BY <1>1, <2>2, SameKept
  <2> QED
    BY <2>1, <2>2, <2>3, Leaving
<1> QED
  BY <1>3, <1>4, <1>5

LEMMA StalledStep ==
    ASSUME IInv, TypeOK', Asked', NEW e \in Exports, HandOutAgain(e),
           job[e].state = "active", faults' = faults + 1,
           UNCHANGED <<row, files, inactive, inbox>>,
           \A v \in Workers : worker'[v].pc = "idle" \/ worker'[v] = worker[v]
    PROVE  IInv'
<1>1. TypeOK /\ \A x \in Exports : ExportInv(x)
  BY DEF IInv
<1>2. /\ job'[e].state \in {"waiting", "failed"} /\ job'[e].stalls # 0
      /\ \A x \in Exports : x # e => job'[x] = job[x]
  BY <1>1, HandedOut
<1>3. faults \in Nat
  BY <1>1 DEF TypeOK
<1>4. ExportInv(e)'
  BY <1>1, <1>2, <1>3 DEF ExportInv
<1>5. Stored(e) /\ \A x \in Exports : x # e => Same(x)
  BY <1>2, <1>3 DEF Stored, Same
<1>6. ASSUME NEW v \in Workers, worker'[v].pc = "idle" PROVE AttemptInv(v)'
  BY <1>6 DEF AttemptInv
<1> QED
  BY <1>2, <1>4, <1>5, <1>6, Leaving

(* The end of an attempt: of a job that never stalled, by its owner.        *)
LEMMA EndStep ==
    ASSUME IInv, TypeOK', Asked', NEW w \in Workers, Return(w) \/ Throw(w)
    PROVE  IInv'
<1>1. TypeOK /\ (\A x \in Exports : ExportInv(x)) /\ AttemptInv(w)
  BY DEF IInv
<1>2. /\ worker[w].pc \in {"return", "throw"} /\ worker[w].pc # "idle"
      /\ worker' = [worker EXCEPT ![w] = Idle]
      /\ UNCHANGED <<row, files, inactive, inbox, faults>>
  BY DEF Return, Throw, At, world
<1>3. PICK e \in Exports : e = Of(w)
  BY <1>1, <1>2, WorkerType
<1>4. worker'[w].pc = "idle" /\ \A v \in Workers : v # w => worker'[v] = worker[v]
  BY <1>1, <1>2, Leaves
<1>5. /\ job[e].threw \in Nat /\ faults \in Nat
  BY <1>1, JobType DEF TypeOK
<1>6. /\ \A x \in Exports : x # e => job'[x] = job[x]
      /\ ~Owns(w) => job'[e] = job[e]
  BY <1>1, <1>3, Completed, GaveUp
<1>7. \A x \in Exports : (x # e \/ ~Owns(w)) => Same(x)
  BY <1>2, <1>5, <1>6 DEF Same
<1>8. Owns(w) => ExportInv(e)' /\ Stored(e) /\ job'[e].stalls = job[e].stalls
  <2>1. /\ job[e].stalls = 0 => Knows(w)
        /\ ExportInv(e)
    BY <1>1, <1>2, <1>3 DEF AttemptInv
  <2>2. CASE Owns(w) /\ Return(w)
    <3>1. /\ job'[e].state = "completed" /\ job'[e].stalls = job[e].stalls
          /\ job'[e].threw = job[e].threw /\ worker[w].pc = "return"
      BY <1>1, <1>3, <2>2, Completed DEF Return, At
    <3> QED
      BY <1>2, <1>3, <1>5, <2>1, <2>2, <3>1
         DEF ExportInv, Knows, Owns, Stored, ToldReady, ToldFailed
  <2>3. CASE Owns(w) /\ Throw(w)
    <3>1. /\ job'[e].state \in {"waiting", "failed"} /\ job'[e].stalls = job[e].stalls
          /\ job'[e].state = "failed" => job'[e].threw >= Attempts
          /\ job'[e].threw = job[e].threw + 1 /\ worker[w].pc = "throw"
      BY <1>1, <1>3, <2>3, GaveUp DEF Throw, At
    <3> QED
      BY <1>2, <1>3, <1>5, <2>1, <2>3, <3>1
         DEF ExportInv, Knows, Owns, Stored, ToldReady, ToldFailed
  <2> QED
    BY <2>2, <2>3
<1>9. ExportInv(e)'
  BY <1>1, <1>7, <1>8, SameKept
<1>10. AttemptInv(w)'
  BY <1>4 DEF AttemptInv
<1>11. ASSUME NEW v \in Workers, v # w, worker[v].pc # "idle", Of(v) = e
       PROVE  Same(e) \/ (Stored(e) /\ job'[e].stalls # 0)
  BY <1>2, <1>3, <1>7, <1>8, <1>11, Alone
<1> QED
  BY <1>4, <1>7, <1>9, <1>10, <1>11, Leaving

LEMMA TakeStep ==
    ASSUME IInv, TypeOK', Asked', NEW w \in Workers, NEW e \in Exports, Take(w, e)
    PROVE  IInv'
<1>1. TypeOK /\ (\A x \in Exports : ExportInv(x)) /\ \A v \in Workers : AttemptInv(v)
  BY DEF IInv
<1>2. /\ job[e].state = "waiting"
      /\ UNCHANGED <<row, files, inactive, inbox, faults>>
  BY DEF Take, world
<1>3. /\ job'[e].state = "active" /\ job'[e].owner = w
      /\ job'[e].stalls = job[e].stalls /\ job'[e].threw = job[e].threw
      /\ \A x \in Exports : x # e => job'[x] = job[x]
      /\ worker'[w].pc = "mark" /\ worker'[w].of = e
      /\ \A v \in Workers : v # w => worker'[v] = worker[v]
  BY <1>1, Taken
<1>4. job[e].threw \in Nat /\ faults \in Nat
  BY <1>1, JobType DEF TypeOK
<1>5. Stored(e) /\ \A x \in Exports : x # e => Same(x)
  BY <1>2, <1>3, <1>4 DEF Stored, Same
<1>6. ExportInv(e)'
  BY <1>1, <1>2, <1>3, <1>4 DEF ExportInv, ToldReady, ToldFailed
<1>7. AttemptInv(w)'
  BY <1>1, <1>2, <1>3 DEF AttemptInv, ExportInv, Owns, Knows, Of
<1>8. ASSUME NEW v \in Workers, worker[v].pc # "idle", Of(v) = e PROVE job'[e].stalls # 0
  BY <1>1, <1>2, <1>3, <1>8 DEF AttemptInv, Owns
<1> QED
  BY <1>3, <1>5, <1>6, <1>7, <1>8, Leaving

LEMMA NextInv == IInv /\ [Next]_vars => IInv'
<1> SUFFICES ASSUME IInv, [Next]_vars PROVE IInv'
  OBVIOUS
<1>1. TypeOK /\ TypeOK' /\ Asked'
  BY NextType DEF IInv
<1>2. ASSUME NEW e \in Exports, LoseLock(e) PROVE IInv'
  <2>1. /\ HandOutAgain(e) /\ job[e].state = "active" /\ faults' = faults + 1
        /\ UNCHANGED <<row, files, inactive, inbox, worker>>
    BY <1>2 DEF LoseLock, Fault, world
  <2> QED
    BY <1>1, <2>1, StalledStep
<1>3. ASSUME NEW w \in Workers, Die(w) PROVE IInv'
  <2>1. /\ worker[w].pc # "idle" /\ Of(w) \in Exports /\ faults' = faults + 1
        /\ UNCHANGED <<row, files, inactive, inbox>>
        /\ worker' = [worker EXCEPT ![w] = Idle]
    BY <1>1, <1>3, WorkerType DEF Die, Fault, world
  <2>2. worker'[w].pc = "idle" /\ \A v \in Workers : v # w => worker'[v] = worker[v]
    BY <1>1, <2>1, Leaves
  <2>3. CASE Owns(w)
    <3>1. HandOutAgain(Of(w)) /\ job[Of(w)].state = "active"
      BY <1>3, <2>3 DEF Die, Owns
    <3> QED
      BY <1>1, <2>1, <2>2, <3>1, StalledStep
  <2>4. CASE ~Owns(w)
    <3>1. job' = job /\ faults \in Nat
      BY <1>1, <1>3, <2>4 DEF Die, TypeOK
    <3>2. \A x \in Exports : Same(x)
      BY <2>1, <3>1 DEF Same
    <3>3. \A x \in Exports : ExportInv(x)'
      BY <1>1, <3>2, SameKept DEF IInv
    <3>4. AttemptInv(w)'
      BY <2>2 DEF AttemptInv
    <3> QED
      BY <1>1, <2>1, <2>2, <3>2, <3>3, <3>4, Leaving
  <2> QED
    BY <2>3, <2>4
<1>4. ASSUME NEW w \in Workers, Attempt(w) PROVE IInv'
  BY <1>1, <1>4, AttemptStep, EndStep
<1>5. CASE UNCHANGED vars
  BY <1>1, <1>5 DEF vars, IInv, ExportInv, AttemptInv, Knows, Owns, Of, ToldReady, ToldFailed, world
<1> QED
  BY <1>1, <1>2, <1>3, <1>4, <1>5, RequestStep, CallFailsStep, TakeStep DEF Next

(* A file is in the bucket before the row or the inbox says so.             *)
THEOREM Announced == Spec => []AnnouncedIsThere
<1>1. IInv => AnnouncedIsThere
  BY DEF IInv, ExportInv, AnnouncedIsThere
<1> QED
  BY <1>1, InitInv, NextInv, PTL DEF Spec

(* A job that completed without a stall left a READY row and its notice.    *)
THEOREM Delivery == Spec => []CompletedIsDelivered
<1>1. IInv => CompletedIsDelivered
  BY DEF IInv, ExportInv, CompletedIsDelivered, ToldReady
<1> QED
  BY <1>1, InitInv, NextInv, PTL DEF Spec

(* A job is given up behind the requester's back only by a failed call in   *)
(* each of its attempts.                                                   *)
THEOREM GivenUp == Spec => []GivenUpIsTold
<1>1. ASSUME IInv, NEW e \in Exports, job[e].state = "failed", job[e].stalls = 0, faults < Attempts
      PROVE  ToldFailed(e)
  <2>1. ExportInv(e) /\ job[e].threw \in Nat /\ faults \in Nat /\ Attempts \in Nat
    BY <1>1, JobType, LimitsAssumption DEF IInv, TypeOK
  <2> QED
    BY <1>1, <2>1 DEF ExportInv
<1>2. IInv => GivenUpIsTold
  BY <1>1 DEF GivenUpIsTold, ToldFailed
<1> QED
  BY <1>2, InitInv, NextInv, PTL DEF Spec

(* Without faults the only attempt in an export whose file is READY is the  *)
(* one that is about to tell, so no step takes the status back.             *)
LEMMA ReadyKept == IInv /\ [Next]_vars => ReadyStep
<1> SUFFICES ASSUME IInv, [Next]_vars, NEW e \in Exports, row[e].status = "READY", faults = 0
             PROVE  row'[e].status = "READY"
  BY DEF ReadyStep
<1>1. TypeOK /\ \A w \in Workers : AttemptInv(w)
  BY DEF IInv
<1>2. job[e].stalls = 0
  BY DEF IInv, ExportInv
<1>3. CASE row' = row
  BY <1>3
<1>4. ASSUME NEW x \in Exports, CreateExport(x) PROVE row'[e] = row[e]
  BY <1>1, <1>4 DEF CreateExport, TypeOK
<1>5. ASSUME NEW w \in Workers, MarkProcessing(w) \/ MarkFailed(w) PROVE row'[e] = row[e]
  <2>1. worker[w].pc \in {"mark", "markFailed"} /\ worker[w].pc # "idle"
    BY <1>5 DEF MarkProcessing, MarkFailed, At
  <2>2. Of(w) # e
    BY <1>1, <1>2, <2>1 DEF AttemptInv, Knows
  <2> QED
    BY <1>1, <1>5, <2>2 DEF MarkProcessing, MarkFailed, TypeOK
<1>6. ASSUME NEW w \in Workers, WriteReady(w) PROVE row'[e].status = "READY"
  BY <1>1, <1>6, ReadyRow
<1>7. CASE \A w \in Workers : ~(MarkProcessing(w) \/ MarkFailed(w) \/ WriteReady(w))
  <2>1. \/ \E x \in Exports : CreateExport(x)
        \/ row' = row
    BY <1>7 DEF Next, vars, AddJob, AddJobFails, LoseLock, People, ClosePage, DeactivateUser,
                Outgrow, Polling, Poll, Arrive, PollFails, Attempt, Build, Put, AskReady,
                AskFailed, Ask, TellReady, TellFailed, Tell, Return, Throw, CallFails,
                Die, Take
  <2> QED
    BY <1>3, <1>4, <2>1
<1> QED
  BY <1>5, <1>6, <1>7

(* Without faults a READY export stays READY.                               *)
THEOREM ReadyForGood == Spec => ReadyStands
<1>1. IInv /\ [Next]_vars => [ReadyStep]_vars
  BY ReadyKept
<1> QED
  BY <1>1, InitInv, NextInv, PTL DEF Spec, ReadyStands

====
