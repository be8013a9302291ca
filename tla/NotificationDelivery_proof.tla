------------------------- MODULE NotificationDelivery_proof -------------------------
(***************************************************************************)
(* For any number of deliveries, workers, attempts and faults: what a      *)
(* delivery row says is true of the mail, and the whole machinery of rows, *)
(* jobs, retries and overlapping workers implements the outbox.            *)
(*                                                                         *)
(* A step touches one delivery only, so the invariant is stated and proved *)
(* for one delivery and the workers in it.  While nothing put a verdict in *)
(* doubt only the owner of the job is in it, and at a place the row        *)
(* allows.  Counting argues that a job handed out once hands over one mail *)
(* at most, and that each time it is handed out is paid for by a failure   *)
(* the queue counted or by a stall.                                        *)
(***************************************************************************)
EXTENDS NotificationDelivery, FiniteSetTheorems, TLAPS

Places(d) ==
    /\ row[d].status = "none" => queuing[d] = "none"
    /\ queuing[d] # "ended" => job[d].state = "none"
    /\ job[d].state = "none" =>
          /\ job[d].stalls = 0 /\ d \notin unsure
          /\ \A w \in Workers : Of(w) # d
    /\ faults = 0 => job[d].stalls = 0 /\ d \notin unsure

(* How often the job was handed out, and who may still hand a mail over.   *)
Begun(d) ==
    job[d].made + job[d].stalls + IF job[d].state \in {"active", "completed"} THEN 1 ELSE 0

Running(d) == {w \in Workers : Of(w) = d /\ worker[w].pc \in {"read", "send"}}

Counting(d) ==
    /\ job[d].state # "failed" => job[d].made < MaxAttempts /\ job[d].stalls <= MaxStalls
    /\ job[d].state = "failed" => job[d].made + job[d].stalls <= MaxAttempts + MaxStalls
    /\ mails[d] + Cardinality(Running(d)) <= Begun(d)

Sent(d) ==
    /\ row[d].status = "sent" => mails[d] > 0
    /\ \A w \in Workers : Of(w) = d /\ worker[w].pc = "markSent" => mails[d] > 0

(* Where nothing is in doubt.                                              *)
Sure(d) ==
    d \notin unsure =>
        \A w \in Workers : Of(w) = d =>
            /\ Owns(w)
            /\ row[d].status = "sent" => worker[w].pc \in {"read", "return", "throw"}

Final(d) ==
    d \notin unsure /\ job[d].stalls = 0 =>
        /\ job[d].state \in {"none", "waiting"} =>
              row[d].status # "failed" /\ row[d].retries <= job[d].made
        /\ \A w \in Workers : Of(w) = d =>
              /\ row[d].retries <= job[d].made + IF worker[w].pc = "throw" THEN 1 ELSE 0
              /\ worker[w].pc \in {"send", "markSent", "catch"} => worker[w].seen <= job[d].made
              /\ row[d].status = "failed" =>
                    \/ worker[w].pc = "return"
                    \/ worker[w].pc = "throw" /\ job[d].made + 1 >= MaxAttempts

DInv(d) == Places(d) /\ Counting(d) /\ Sent(d) /\ Sure(d) /\ Final(d)

IInv == TypeOK /\ \A d \in Deliveries : DInv(d)

(* Without a fault the row's retries are the attempts the queue counted,   *)
(* one ahead while the attempt is about to throw.                          *)
Agree(d) ==
    faults = 0 =>
        /\ job[d].state \in {"none", "waiting"} => row[d].retries = job[d].made
        /\ \A w \in Workers : Of(w) = d =>
              /\ worker[w].pc # "throw" => row[d].retries = job[d].made
              /\ worker[w].pc \in {"send", "markSent", "catch"} => worker[w].seen = job[d].made
              /\ worker[w].pc = "throw" =>
                    /\ row[d].retries = job[d].made + 1
                    /\ row[d].retries >= MaxAttempts => row[d].status = "failed"
        /\ job[d].state = "failed" => row[d].status = "failed"

AInv == IInv /\ \A d \in Deliveries : Agree(d)

-----------------------------------------------------------------------------
(* Types, and what each kind of step does to the parts of the state.       *)

LEMMA RowType ==
    ASSUME TypeOK, NEW d \in Deliveries
    PROVE  /\ row[d] \in Row /\ row[d].retries \in Nat
           /\ row[d].status \in {"none", "queued", "sent", "failed"}
           /\ mails[d] \in Nat /\ faults \in Nat
BY DEF TypeOK, Row

LEMMA JobType ==
    ASSUME TypeOK, NEW d \in Deliveries
    PROVE  /\ job[d] \in Job /\ job[d].made \in Nat /\ job[d].stalls \in Nat
           /\ job[d].state \in {"none", "waiting", "active", "completed", "failed"}
           /\ job[d].owner \in Workers \cup {None}
BY DEF TypeOK, Job

LEMMA WorkerType ==
    ASSUME TypeOK, NEW w \in Workers
    PROVE  /\ worker[w].pc \in Step \cup {"idle"}
           /\ worker[w].pc \in Step => /\ Of(w) \in Deliveries
                                       /\ worker[w] \in [pc : Step, of : Deliveries, seen : Nat]
           /\ worker[w].pc = "idle" => worker[w] = Idle
           /\ worker[w] # Idle => worker[w].pc \in Step
           /\ Of(w) \in Deliveries => worker[w].pc \in Step
           /\ worker[w].seen \in Nat
<1>1. worker[w] \in Worker
  BY DEF TypeOK
<1>2. "idle" \notin Step
  BY DEF Step
<1>3. CASE worker[w] = Idle
  BY <1>2, <1>3, NoneAssumption DEF Idle, Of
<1>4. CASE worker[w] \in [pc : Step, of : Deliveries, seen : Nat]
  BY <1>2, <1>4 DEF Of
<1> QED
  BY <1>1, <1>3, <1>4 DEF Worker

(* The other workers stay where they are.                                  *)
Others(w) == \A v \in Workers : v # w => worker'[v] = worker[v]

LEMMA Reads ==
    ASSUME TypeOK, NEW w \in Workers, worker[w].pc \in Step, NEW step \in Step, NEW n \in Nat,
           worker' = [worker EXCEPT ![w].seen = n, ![w].pc = step]
    PROVE  /\ worker' \in [Workers -> Worker]
           /\ worker'[w].pc = step /\ worker'[w].of = Of(w) /\ worker'[w].seen = n
           /\ Others(w)
<1> DEFINE k == [worker[w] EXCEPT !.seen = n, !.pc = step]
<1>1. worker[w] \in [pc : Step, of : Deliveries, seen : Nat]
  BY WorkerType
<1>2. worker' = [worker EXCEPT ![w] = k]
  BY DEF TypeOK
<1>3. /\ k \in [pc : Step, of : Deliveries, seen : Nat]
      /\ k.pc = step /\ k.of = Of(w) /\ k.seen = n
  BY <1>1 DEF Of
<1> HIDE DEF k
<1>4. k \in Worker
  BY <1>3 DEF Worker
<1>5. worker' \in [Workers -> Worker] /\ worker'[w] = k /\ Others(w)
  BY <1>2, <1>4 DEF Others, TypeOK
<1> QED
  BY <1>3, <1>5

LEMMA Goes ==
    ASSUME TypeOK, NEW w \in Workers, worker[w].pc \in Step, NEW step \in Step, GoTo(w, step)
    PROVE  /\ worker' \in [Workers -> Worker]
           /\ worker'[w].pc = step /\ worker'[w].of = Of(w) /\ worker'[w].seen = worker[w].seen
           /\ Others(w)
<1> DEFINE k == [worker[w] EXCEPT !.pc = step]
<1>1. worker[w] \in [pc : Step, of : Deliveries, seen : Nat]
  BY WorkerType
<1>2. worker' = [worker EXCEPT ![w] = k]
  BY DEF TypeOK, GoTo
<1>3. /\ k \in [pc : Step, of : Deliveries, seen : Nat]
      /\ k.pc = step /\ k.of = Of(w) /\ k.seen = worker[w].seen
  BY <1>1 DEF Of
<1> HIDE DEF k
<1>4. k \in Worker
  BY <1>3 DEF Worker
<1>5. worker' \in [Workers -> Worker] /\ worker'[w] = k /\ Others(w)
  BY <1>2, <1>4 DEF Others, TypeOK
<1> QED
  BY <1>3, <1>5

LEMMA Leaves ==
    ASSUME TypeOK, NEW w \in Workers, worker' = [worker EXCEPT ![w] = Idle]
    PROVE  /\ worker' \in [Workers -> Worker]
           /\ worker'[w].pc = "idle" /\ worker'[w].of = None
           /\ Others(w)
BY DEF TypeOK, Worker, Idle, Others

(* Writes of one row and of one job.                                       *)
LEMMA RowChange ==
    ASSUME TypeOK, NEW d \in Deliveries, NEW s \in {"none", "queued", "sent", "failed"}, NEW n \in Nat,
           \/ row' = [row EXCEPT ![d].status = s] /\ n = row[d].retries
           \/ row' = [row EXCEPT ![d] = [status |-> s, retries |-> n]]
    PROVE  /\ row' \in [Deliveries -> Row]
           /\ row'[d].status = s /\ row'[d].retries = n
           /\ \A e \in Deliveries : e # d => row'[e] = row[e]
BY DEF TypeOK, Row

LEMMA JobChange ==
    ASSUME TypeOK, NEW d \in Deliveries, NEW j \in Job, job' = [job EXCEPT ![d] = j]
    PROVE  /\ job' \in [Deliveries -> Job]
           /\ job'[d] = j
           /\ \A e \in Deliveries : e # d => job'[e] = job[e]
BY DEF TypeOK

LEMMA AddedJob ==
    ASSUME TypeOK, NEW d \in Deliveries, AddJob(d)
    PROVE  /\ job' \in [Deliveries -> Job]
           /\ job'[d].state = "waiting" /\ job'[d].owner = job[d].owner
           /\ job'[d].made = job[d].made /\ job'[d].stalls = job[d].stalls
           /\ \A e \in Deliveries : e # d => job'[e] = job[e]
<1> DEFINE j == [job[d] EXCEPT !.state = "waiting"]
<1>1. job' = [job EXCEPT ![d] = j]
  BY DEF AddJob, TypeOK
<1>2. /\ j \in Job /\ j.state = "waiting"
      /\ j.owner = job[d].owner /\ j.made = job[d].made /\ j.stalls = job[d].stalls
  BY JobType DEF Job
<1> HIDE DEF j
<1> QED
  BY <1>1, <1>2, JobChange

LEMMA Taken ==
    ASSUME TypeOK, NEW w \in Workers, NEW d \in Deliveries, Take(w, d)
    PROVE  /\ job' \in [Deliveries -> Job]
           /\ job[d].state = "waiting" /\ job'[d].state = "active" /\ job'[d].owner = w
           /\ job'[d].made = job[d].made /\ job'[d].stalls = job[d].stalls
           /\ \A e \in Deliveries : e # d => job'[e] = job[e]
           /\ worker' \in [Workers -> Worker]
           /\ worker[w].pc = "idle" /\ Of(w) = None
           /\ worker'[w].pc = "read" /\ worker'[w].of = d /\ worker'[w].seen = 0
           /\ Others(w)
<1> DEFINE j == [job[d] EXCEPT !.state = "active", !.owner = w]
<1>1. job' = [job EXCEPT ![d] = j]
  BY DEF Take, TypeOK
<1>2. /\ j \in Job /\ j.state = "active"
      /\ j.owner = w /\ j.made = job[d].made /\ j.stalls = job[d].stalls
  BY JobType DEF Job
<1> HIDE DEF j
<1> DEFINE k == [pc |-> "read", of |-> d, seen |-> 0]
<1>3. worker' = [worker EXCEPT ![w] = k]
  BY DEF Take
<1>5. /\ k \in Worker
      /\ k.pc = "read" /\ k.of = d /\ k.seen = 0
  BY DEF Worker, Step
<1> HIDE DEF k
<1>6. worker' \in [Workers -> Worker] /\ worker'[w] = k
  BY <1>3, <1>5 DEF TypeOK
<1>4. Others(w) /\ worker[w].pc = "idle" /\ Of(w) = None /\ job[d].state = "waiting"
  BY DEF Take, Others, TypeOK, Idle, Of
<1>7. /\ job' \in [Deliveries -> Job] /\ job'[d] = j
      /\ \A e \in Deliveries : e # d => job'[e] = job[e]
  BY <1>1, <1>2, JobChange
<1> QED
  BY <1>2, <1>4, <1>5, <1>6, <1>7

LEMMA HandedOut ==
    ASSUME TypeOK, NEW d \in Deliveries, HandOutAgain(d)
    PROVE  /\ job' \in [Deliveries -> Job]
           /\ job'[d].state = (IF job[d].stalls < MaxStalls THEN "waiting" ELSE "failed")
           /\ job'[d].made = job[d].made /\ job'[d].stalls = job[d].stalls + 1
           /\ \A e \in Deliveries : e # d => job'[e] = job[e]
<1> DEFINE s == IF job[d].stalls < MaxStalls THEN "waiting" ELSE "failed"
           t == job[d].stalls + 1
           j == [job[d] EXCEPT !.owner = None, !.stalls = t, !.state = s]
<1>1. job' = [job EXCEPT ![d] = j]
  BY DEF HandOutAgain, TypeOK
<1>2. s \in {"waiting", "failed"} /\ t \in Nat
  BY JobType
<1> HIDE DEF s, t
<1>3. j \in Job /\ j.state = s /\ j.made = job[d].made /\ j.stalls = t
  BY <1>2, JobType DEF Job
<1> HIDE DEF j
<1>4. /\ job' \in [Deliveries -> Job] /\ job'[d] = j
      /\ \A e \in Deliveries : e # d => job'[e] = job[e]
  BY <1>1, <1>3, JobChange
<1> QED
  BY <1>3, <1>4 DEF s, t

(* The end of an attempt, of the owner of the job or of another worker.    *)
LEMMA Ended ==
    ASSUME TypeOK, NEW w \in Workers, Return(w) \/ Throw(w)
    PROVE  /\ job' \in [Deliveries -> Job]
           /\ \A e \in Deliveries : e # Of(w) \/ ~Owns(w) => job'[e] = job[e]
           /\ Owns(w) /\ Return(w) =>
                 /\ job'[Of(w)].state = "completed" /\ job'[Of(w)].made = job[Of(w)].made
                 /\ job'[Of(w)].stalls = job[Of(w)].stalls
           /\ Owns(w) /\ Throw(w) =>
                 /\ job'[Of(w)].state = (IF job[Of(w)].made + 1 < MaxAttempts THEN "waiting" ELSE "failed")
                 /\ job'[Of(w)].made = job[Of(w)].made + 1
                 /\ job'[Of(w)].stalls = job[Of(w)].stalls
<1>1. Of(w) \in Deliveries /\ ~(Return(w) /\ Throw(w))
  BY WorkerType DEF Return, Throw, At, Step
<1> DEFINE d == Of(w)
           m == job[d].made + 1
           s == IF m < MaxAttempts THEN "waiting" ELSE "failed"
<1>2. d \in Deliveries /\ m \in Nat /\ s \in {"waiting", "failed"}
  BY <1>1, JobType
<1>3. CASE Return(w) /\ Owns(w)
  <2> DEFINE j == [job[d] EXCEPT !.state = "completed", !.owner = None]
  <2>1. job' = [job EXCEPT ![d] = j]
    BY <1>1, <1>3 DEF Return, TypeOK
  <2> HIDE DEF d, m, s
  <2>2. j \in Job /\ j.state = "completed" /\ j.made = job[d].made /\ j.stalls = job[d].stalls
    BY <1>2, JobType DEF Job
  <2> HIDE DEF j
  <2>3. /\ job' \in [Deliveries -> Job] /\ job'[d] = j
        /\ \A e \in Deliveries : e # d => job'[e] = job[e]
    BY <1>2, <2>1, <2>2, JobChange
  <2> QED
    BY <1>1, <1>3, <2>2, <2>3 DEF d
<1>4. CASE Throw(w) /\ Owns(w)
  <2> DEFINE j == [job[d] EXCEPT !.made = m, !.owner = None, !.state = s]
  <2>1. job' = [job EXCEPT ![d] = j]
    BY <1>1, <1>4 DEF Throw, TypeOK
  <2> HIDE DEF d, m, s
  <2>2. j \in Job /\ j.state = s /\ j.made = m /\ j.stalls = job[d].stalls
    BY <1>2, JobType DEF Job
  <2> HIDE DEF j
  <2>3. /\ job' \in [Deliveries -> Job] /\ job'[d] = j
        /\ \A e \in Deliveries : e # d => job'[e] = job[e]
    BY <1>2, <2>1, <2>2, JobChange
  <2> QED
    BY <1>1, <1>4, <2>2, <2>3 DEF d, m, s
<1>5. CASE ~Owns(w)
  BY <1>5 DEF Return, Throw, TypeOK
<1> QED
  BY <1>3, <1>4, <1>5

-----------------------------------------------------------------------------
(* The steps of an attempt, in terms of the delivery it is in.             *)

(* The worker goes to a step of its attempt, or is idle again.             *)
Moves(w, step) ==
    /\ worker'[w].pc = step /\ worker'[w].of = Of(w)
    /\ worker' \in [Workers -> Worker] /\ Others(w)

Ends(w) == worker'[w].of = None /\ worker' \in [Workers -> Worker] /\ Others(w)

(* Of the rows, only that of d changes.                                    *)
RowOf(d, s, n) ==
    /\ row'[d].status = s /\ row'[d].retries = n
    /\ row' \in [Deliveries -> Row]
    /\ \A e \in Deliveries : e # d => row'[e] = row[e]

JobOf(d) ==
    /\ job' \in [Deliveries -> Job]
    /\ \A e \in Deliveries : e # d => job'[e] = job[e]

LEMMA ReadEffect ==
    ASSUME TypeOK, NEW w \in Workers, Read(w)
    PROVE  /\ Of(w) \in Deliveries /\ worker[w].pc = "read"
           /\ \/ row[Of(w)].status = "sent" /\ Moves(w, "return")
              \/ row[Of(w)].status # "sent" /\ (Moves(w, "send") \/ Moves(w, "markFailed"))
           /\ worker'[w].seen = row[Of(w)].retries
           /\ UNCHANGED <<row, origin, queuing, job, mails, unsure, faults>>
<1>1. worker[w].pc = "read" /\ Of(w) \in Deliveries /\ row[Of(w)].retries \in Nat
  BY WorkerType, RowType DEF Read, At, Step
<1>2. PICK p \in IF row[Of(w)].status = "sent" THEN {"return"} ELSE {"send", "markFailed"} :
         worker' = [worker EXCEPT ![w].seen = row[Of(w)].retries, ![w].pc = p]
  BY DEF Read
<1>3. Moves(w, p) /\ worker'[w].seen = row[Of(w)].retries
  BY <1>1, <1>2, Reads DEF Moves, Step
<1> QED
  BY <1>1, <1>2, <1>3 DEF Read

LEMMA MarkEffect ==
    ASSUME TypeOK, NEW w \in Workers, MarkSent(w) \/ MarkFailed(w)
    PROVE  /\ Of(w) \in Deliveries /\ Moves(w, "return") /\ worker'[w].seen = worker[w].seen
           /\ \/ MarkSent(w) /\ worker[w].pc = "markSent" /\ RowOf(Of(w), "sent", row[Of(w)].retries)
              \/ /\ MarkFailed(w) /\ worker[w].pc = "markFailed"
                 /\ RowOf(Of(w), "failed", row[Of(w)].retries)
           /\ UNCHANGED <<origin, queuing, job, mails, unsure, faults>>
<1>1. /\ worker[w].pc \in Step /\ Of(w) \in Deliveries /\ worker[w].seen \in Nat
      /\ row[Of(w)].retries \in Nat
  BY WorkerType, RowType DEF MarkSent, MarkFailed, At, Step
<1>2. Moves(w, "return") /\ worker'[w].seen = worker[w].seen
  BY <1>1, Goes DEF MarkSent, MarkFailed, Moves, Step
<1>3. MarkSent(w) => RowOf(Of(w), "sent", row[Of(w)].retries)
  BY <1>1, RowChange DEF MarkSent, SetStatus, RowOf
<1>4. MarkFailed(w) => RowOf(Of(w), "failed", row[Of(w)].retries)
  BY <1>1, RowChange DEF MarkFailed, SetStatus, RowOf
<1> QED
  BY <1>1, <1>2, <1>3, <1>4 DEF MarkSent, MarkFailed, At

LEMMA SendEffect ==
    ASSUME TypeOK, NEW w \in Workers, Send(w)
    PROVE  /\ Of(w) \in Deliveries /\ worker[w].pc = "send" /\ worker'[w].seen = worker[w].seen
           /\ \/ mails'[Of(w)] = mails[Of(w)] + 1 /\ Moves(w, "markSent")
              \/ mails'[Of(w)] \in {mails[Of(w)], mails[Of(w)] + 1} /\ Moves(w, "catch")
           /\ mails' \in [Deliveries -> Nat]
           /\ \A e \in Deliveries : e # Of(w) => mails'[e] = mails[e]
           /\ UNCHANGED <<row, origin, queuing, job, unsure, faults>>
<1>1. worker[w].pc = "send" /\ Of(w) \in Deliveries /\ worker[w].seen \in Nat
  BY WorkerType DEF Send, At, Step
<1>2. /\ \A p \in {"markSent", "catch"} : GoTo(w, p) => Moves(w, p) /\ worker'[w].seen = worker[w].seen
  BY <1>1, Goes DEF Moves, Step
<1>3. mails \in [Deliveries -> Nat]
  BY DEF TypeOK
<1> QED
  BY <1>1, <1>2, <1>3 DEF Send, Accepted

LEMMA CatchEffect ==
    ASSUME TypeOK, NEW w \in Workers, Catch(w)
    PROVE  /\ Of(w) \in Deliveries /\ worker[w].pc = "catch" /\ Moves(w, "throw")
           /\ RowOf(Of(w), IF worker[w].seen + 1 >= MaxAttempts THEN "failed" ELSE "queued",
                    worker[w].seen + 1)
           /\ UNCHANGED <<origin, queuing, job, mails, unsure, faults>>
<1>1. worker[w].pc = "catch" /\ Of(w) \in Deliveries /\ worker[w].seen \in Nat
  BY WorkerType DEF Catch, At, Step
<1> DEFINE n == worker[w].seen + 1
           s == IF n >= MaxAttempts THEN "failed" ELSE "queued"
<1>2. row' = [row EXCEPT ![Of(w)] = [status |-> s, retries |-> n]]
  BY DEF Catch, Recorded
<1>3. n \in Nat /\ s \in {"none", "queued", "sent", "failed"}
  BY <1>1
<1> HIDE DEF n, s
<1>4. RowOf(Of(w), s, n)
  BY <1>1, <1>2, <1>3, RowChange DEF RowOf
<1>5. Moves(w, "throw")
  BY <1>1, Goes DEF Catch, Moves, Step
<1> QED
  BY <1>1, <1>4, <1>5 DEF Catch, n, s

LEMMA ErrorEffect ==
    ASSUME TypeOK, NEW w \in Workers, DatabaseError(w)
    PROVE  /\ Of(w) \in Deliveries /\ worker'[w].seen = worker[w].seen
           /\ \/ worker[w].pc = "markSent" /\ Moves(w, "catch")
              \/ worker[w].pc \in {"read", "markFailed", "catch"} /\ Moves(w, "throw")
           /\ UNCHANGED <<row, origin, queuing, job, mails, unsure>>
           /\ faults' = faults + 1
<1>1. /\ worker[w].pc \in {"markSent", "read", "markFailed", "catch"}
      /\ Of(w) \in Deliveries /\ worker[w].seen \in Nat
  BY WorkerType DEF DatabaseError, At, Step
<1>2. \A p \in {"throw", "catch"} : GoTo(w, p) => Moves(w, p) /\ worker'[w].seen = worker[w].seen
  BY <1>1, Goes DEF Moves, Step
<1> QED
  BY <1>1, <1>2 DEF DatabaseError, Fault, At

LEMMA LostEffect ==
    ASSUME TypeOK, NEW w \in Workers, AnswerLost(w)
    PROVE  /\ Of(w) \in Deliveries
           /\ \/ /\ worker[w].pc = "markSent" /\ Moves(w, "catch")
                 /\ RowOf(Of(w), "sent", row[Of(w)].retries)
              \/ /\ worker[w].pc = "markFailed" /\ Moves(w, "throw")
                 /\ RowOf(Of(w), "failed", row[Of(w)].retries)
           /\ unsure' = unsure \cup {Of(w)}
           /\ UNCHANGED <<origin, queuing, job, mails>>
           /\ faults' = faults + 1
<1>1. /\ worker[w].pc \in {"markSent", "markFailed"} /\ worker[w].pc \in Step
      /\ Of(w) \in Deliveries /\ worker[w].seen \in Nat /\ row[Of(w)].retries \in Nat
  BY WorkerType, RowType DEF AnswerLost, At, Step
<1>2. \A p \in {"throw", "catch"} : GoTo(w, p) => Moves(w, p)
  BY <1>1, Goes DEF Moves, Step
<1>3. \A s \in {"sent", "failed"} : SetStatus(Of(w), s) => RowOf(Of(w), s, row[Of(w)].retries)
  BY <1>1, RowChange DEF SetStatus, RowOf
<1> QED
  BY <1>1, <1>2, <1>3 DEF AnswerLost, Fault, At

LEMMA EndEffect ==
    ASSUME TypeOK, NEW w \in Workers, Return(w) \/ Throw(w)
    PROVE  /\ Of(w) \in Deliveries /\ Ends(w) /\ JobOf(Of(w))
           /\ \/ worker[w].pc = "return" /\ Return(w)
              \/ worker[w].pc = "throw" /\ Throw(w)
           /\ UNCHANGED <<row, origin, queuing, mails, unsure, faults>>
<1>1. Of(w) \in Deliveries
  BY WorkerType DEF Return, Throw, At, Step
<1>2. Ends(w)
  BY Leaves DEF Return, Throw, Ends
<1>3. JobOf(Of(w))
  BY Ended DEF JobOf
<1> QED
  BY <1>1, <1>2, <1>3 DEF Return, Throw, At

LEMMA DieEffect ==
    ASSUME TypeOK, NEW w \in Workers, Die(w)
    PROVE  /\ Of(w) \in Deliveries /\ Ends(w) /\ JobOf(Of(w))
           /\ IF Owns(w) THEN HandOutAgain(Of(w)) ELSE job' = job
           /\ UNCHANGED <<row, origin, queuing, mails, unsure>>
           /\ faults' = faults + 1
<1>1. Of(w) \in Deliveries
  BY WorkerType DEF Die
<1>2. Ends(w)
  BY Leaves DEF Die, Ends
<1>3. JobOf(Of(w))
  <2>1. CASE Owns(w)
    BY <1>1, <2>1, HandedOut DEF Die, JobOf
  <2>2. CASE ~Owns(w)
    BY <2>2 DEF Die, JobOf, TypeOK
  <2> QED
    BY <2>1, <2>2
<1> QED
  BY <1>1, <1>2, <1>3 DEF Die, Fault

LEMMA CreateEffect ==
    ASSUME TypeOK, NEW d \in Deliveries, NEW o \in Deliveries \cup {None}, CreateRow(d, o)
    PROVE  /\ row[d].status = "none" /\ RowOf(d, "queued", row[d].retries)
           /\ queuing' = [queuing EXCEPT ![d] = "created"]
           /\ origin' = [origin EXCEPT ![d] = o]
           /\ UNCHANGED <<job, worker, mails, unsure, faults>>
BY RowType, RowChange DEF CreateRow, RowOf

LEMMA NextType == TypeOK /\ [Next]_vars => TypeOK'
<1> SUFFICES ASSUME TypeOK, [Next]_vars PROVE TypeOK'
  OBVIOUS
<1>1. ASSUME NEW d \in Deliveries, NEW o \in Deliveries \cup {None}, CreateRow(d, o) PROVE TypeOK'
  BY <1>1, CreateEffect DEF RowOf, TypeOK
<1>2. ASSUME NEW d \in Deliveries, AddJob(d) \/ LoseJob(d) PROVE TypeOK'
  <2>1. job' \in [Deliveries -> Job]
    BY <1>2, AddedJob DEF LoseJob, TypeOK
  <2> QED
    BY <1>2, <2>1 DEF AddJob, LoseJob, Fault, TypeOK
<1>3. ASSUME NEW d \in Deliveries, LoseLock(d) PROVE TypeOK'
  <2>1. job' \in [Deliveries -> Job]
    BY <1>3, HandedOut DEF LoseLock
  <2> QED
    BY <1>3, <2>1 DEF LoseLock, Fault, TypeOK
<1>4. ASSUME NEW d \in Deliveries, NEW w \in Workers, Take(w, d) PROVE TypeOK'
  BY <1>4, Taken DEF Take, TypeOK
<1>5. ASSUME NEW w \in Workers, Attempt(w) PROVE TypeOK'
  <2>1. CASE Read(w)
    BY <2>1, ReadEffect DEF Moves, TypeOK
  <2>2. CASE MarkSent(w) \/ MarkFailed(w)
    BY <2>2, MarkEffect DEF Moves, RowOf, TypeOK
  <2>3. CASE Send(w)
    BY <2>3, SendEffect DEF Moves, TypeOK
  <2>4. CASE Catch(w)
    BY <2>4, CatchEffect DEF Moves, RowOf, TypeOK
  <2>5. CASE Return(w) \/ Throw(w)
    BY <2>5, EndEffect DEF Ends, JobOf, TypeOK
  <2> QED
    BY <1>5, <2>1, <2>2, <2>3, <2>4, <2>5 DEF Attempt
<1>6. ASSUME NEW w \in Workers, DatabaseError(w) PROVE TypeOK'
  BY <1>6, ErrorEffect DEF Moves, TypeOK
<1>7. ASSUME NEW w \in Workers, AnswerLost(w) PROVE TypeOK'
  BY <1>7, LostEffect DEF Moves, RowOf, TypeOK
<1>8. ASSUME NEW w \in Workers, Die(w) PROVE TypeOK'
  BY <1>8, DieEffect DEF Ends, JobOf, TypeOK
<1>9. CASE UNCHANGED vars
  BY <1>9 DEF vars, TypeOK
<1> QED
  BY <1>1, <1>2, <1>3, <1>4, <1>5, <1>6, <1>7, <1>8, <1>9 DEF Next, QueueEmail, Resend

(* Type correctness.                                                       *)
THEOREM TypeCorrect == Spec => []TypeOK
<1>1. Init => TypeOK
  BY DEF Init, TypeOK, Row, Job, Worker
<1> QED
  BY <1>1, NextType, PTL DEF Spec

-----------------------------------------------------------------------------
(* A step is a step of one delivery.                                       *)

WorkerStep(w) == Attempt(w) \/ DatabaseError(w) \/ AnswerLost(w) \/ Die(w)

DeliveryStep(d) ==
    \/ \E o \in Deliveries \cup {None} :
          (o # None => row[o].status \in {"sent", "failed"}) /\ CreateRow(d, o)
    \/ AddJob(d) \/ LoseJob(d) \/ LoseLock(d)
    \/ \E w \in Workers : Take(w, d)
    \/ \E w \in Workers : Of(w) = d /\ WorkerStep(w)

LEMMA OneDelivery == TypeOK /\ Next => \E d \in Deliveries : DeliveryStep(d)
<1> SUFFICES ASSUME TypeOK, Next PROVE \E d \in Deliveries : DeliveryStep(d)
  OBVIOUS
<1>1. ASSUME NEW w \in Workers, WorkerStep(w) PROVE Of(w) \in Deliveries
  BY <1>1, ReadEffect, MarkEffect, SendEffect, CatchEffect, EndEffect, ErrorEffect, LostEffect,
     DieEffect DEF WorkerStep, Attempt
<1> QED
  BY <1>1 DEF Next, DeliveryStep, WorkerStep, QueueEmail, Resend

Same(e) ==
    /\ row'[e] = row[e] /\ queuing'[e] = queuing[e] /\ job'[e] = job[e] /\ mails'[e] = mails[e]
    /\ e \in unsure' <=> e \in unsure
    /\ faults' = 0 => faults = 0
    /\ \A w \in Workers : Of(w) = e \/ worker'[w].of = e => worker'[w] = worker[w]

LEMMA OthersStay ==
    ASSUME TypeOK, NEW d \in Deliveries, DeliveryStep(d), NEW e \in Deliveries, e # d
    PROVE  Same(e)
<1>0. e # None /\ faults \in Nat
  BY NoneAssumption DEF TypeOK
<1>1. ASSUME NEW o \in Deliveries \cup {None}, CreateRow(d, o) PROVE Same(e)
  BY <1>0, <1>1, CreateEffect DEF Same, RowOf, TypeOK
<1>2. CASE AddJob(d) \/ LoseJob(d) \/ LoseLock(d)
  BY <1>0, <1>2, AddedJob, HandedOut DEF AddJob, LoseJob, LoseLock, Fault, Same, TypeOK
<1>3. ASSUME NEW w \in Workers, Take(w, d) PROVE Same(e)
  <2>1. Of(w) = None /\ worker'[w].of = d /\ Others(w) /\ job'[e] = job[e]
    BY <1>3, Taken
  <2>2. \A v \in Workers : Of(v) = e \/ worker'[v].of = e => worker'[v] = worker[v]
    BY <1>0, <2>1 DEF Others
  <2>3. UNCHANGED <<row, queuing, mails, unsure, faults>>
    BY <1>3 DEF Take
  <2> QED
    BY <2>1, <2>2, <2>3 DEF Same
<1>4. ASSUME NEW w \in Workers, Of(w) = d, WorkerStep(w) PROVE Same(e)
  <2>1. worker'[w].of \in {d, None} /\ Others(w)
    BY <1>4, ReadEffect, MarkEffect, SendEffect, CatchEffect, EndEffect, ErrorEffect, LostEffect,
       DieEffect DEF WorkerStep, Attempt, Moves, Ends
  <2>2. \A v \in Workers : Of(v) = e \/ worker'[v].of = e => worker'[v] = worker[v]
    BY <1>0, <1>4, <2>1 DEF Others
  <2>3. row'[e] = row[e] /\ queuing' = queuing /\ job'[e] = job[e] /\ mails'[e] = mails[e]
    BY <1>4, ReadEffect, MarkEffect, SendEffect, CatchEffect, EndEffect, ErrorEffect, LostEffect,
       DieEffect DEF WorkerStep, Attempt, RowOf, JobOf
  <2>4. /\ faults' = faults \/ faults' = faults + 1
        /\ e \in unsure' <=> e \in unsure
    BY <1>4, ReadEffect, MarkEffect, SendEffect, CatchEffect, EndEffect, ErrorEffect, LostEffect,
       DieEffect DEF WorkerStep, Attempt
  <2> QED
    BY <1>0, <2>2, <2>3, <2>4 DEF Same
<1> QED
  BY <1>1, <1>2, <1>3, <1>4 DEF DeliveryStep

LEMMA SameKeeps ==
    ASSUME TypeOK, TypeOK', NEW e \in Deliveries, DInv(e), Same(e)
    PROVE  DInv(e)'
<1>1. \A w \in Workers : (Of(w))' = e <=> Of(w) = e
  BY DEF Same, Of
<1>2. Running(e)' = Running(e)
  BY <1>1 DEF Same, Running, Of
<1>3. Places(e)'
  BY <1>1 DEF DInv, Places, Same
<1>4. Counting(e)'
  BY <1>2 DEF DInv, Counting, Begun, Same
<1>5. Sent(e)'
  BY <1>1 DEF DInv, Sent, Same
<1>6. Sure(e)'
  BY <1>1 DEF DInv, Sure, Same, Owns, Of
<1>7. Final(e)'
  BY <1>1 DEF DInv, Final, Same
<1> QED
  BY <1>3, <1>4, <1>5, <1>6, <1>7 DEF DInv

-----------------------------------------------------------------------------
(* The invariant of the delivery that takes the step.                      *)

LEMMA StepPlaces ==
    ASSUME TypeOK, NEW d \in Deliveries, Places(d), DeliveryStep(d)
    PROVE  Places(d)'
<1> USE DEF Places
<1>0. d # None /\ faults \in Nat /\ queuing[d] \in {"none", "created", "ended"}
      /\ job[d].stalls \in Nat
  BY NoneAssumption, JobType DEF TypeOK
<1>1. ASSUME NEW o \in Deliveries \cup {None}, CreateRow(d, o) PROVE Places(d)'
  BY <1>0, <1>1, CreateEffect DEF RowOf, TypeOK, Of
<1>2. CASE AddJob(d)
  BY <1>0, <1>2, AddedJob DEF AddJob, TypeOK
<1>3. CASE LoseJob(d)
  BY <1>0, <1>3 DEF LoseJob, Fault, TypeOK, Of
<1>4. CASE LoseLock(d)
  BY <1>0, <1>4, HandedOut DEF LoseLock, Fault, TypeOK
<1>5. ASSUME NEW w \in Workers, Take(w, d) PROVE Places(d)'
  <2>1. job[d].state = "waiting" /\ job'[d].state = "active" /\ job'[d].stalls = job[d].stalls
    BY <1>5, Taken
  <2>2. UNCHANGED <<row, queuing, unsure, faults>>
    BY <1>5 DEF Take
  <2> QED
    BY <2>1, <2>2
<1>6. ASSUME NEW w \in Workers, Of(w) = d, WorkerStep(w) PROVE Places(d)'
  <2>1. /\ job[d].state # "none" /\ row[d].status # "none" /\ queuing[d] = "ended"
    BY <1>0, <1>6
  <2>2. queuing' = queuing /\ row'[d].status # "none"
    BY <1>6, <2>1, ReadEffect, MarkEffect, SendEffect, CatchEffect, EndEffect, ErrorEffect,
       LostEffect, DieEffect DEF WorkerStep, Attempt, RowOf
  <2>3. CASE Attempt(w)
    <3>1. /\ job'[d].state # "none" /\ job'[d].stalls = job[d].stalls
      BY <1>6, <2>1, <2>3, ReadEffect, MarkEffect, SendEffect, CatchEffect, Ended DEF Attempt
    <3>2. UNCHANGED <<unsure, faults>>
      BY <2>3, ReadEffect, MarkEffect, SendEffect, CatchEffect, EndEffect DEF Attempt
    <3> QED
      BY <2>1, <2>2, <3>1, <3>2
  <2>4. CASE DatabaseError(w) \/ AnswerLost(w) \/ Die(w)
    <3>1. job'[d].state # "none"
      BY <1>6, <2>1, <2>4, ErrorEffect, LostEffect, DieEffect, HandedOut
    <3>2. faults' = faults + 1
      BY <2>4, ErrorEffect, LostEffect, DieEffect
    <3> QED
      BY <1>0, <2>1, <2>2, <3>1, <3>2
  <2> QED
    BY <1>6, <2>3, <2>4 DEF WorkerStep
<1> QED
  BY <1>1, <1>2, <1>3, <1>4, <1>5, <1>6 DEF DeliveryStep

(* How the set of those who may still hand a mail over changes.            *)
LEMMA RunningFinite ==
    ASSUME NEW d \in Deliveries
    PROVE  IsFiniteSet(Running(d)) /\ Cardinality(Running(d)) \in Nat
BY WorkersAssumption, FS_Subset, FS_CardinalityType DEF Running

LEMMA RunningFiniteAfter ==
    ASSUME NEW d \in Deliveries
    PROVE  IsFiniteSet(Running(d)') /\ Cardinality(Running(d)') \in Nat
<1>1. Running(d)' \in SUBSET Workers
  BY DEF Running
<1> QED
  BY <1>1, WorkersAssumption, FS_Subset, FS_CardinalityType

LEMMA RunningShrinks ==
    ASSUME NEW d \in Deliveries, NEW w \in Workers, Others(w), w \in Running(d)' => w \in Running(d)
    PROVE  Cardinality(Running(d)') <= Cardinality(Running(d))
<1>1. Running(d)' \in SUBSET Running(d)
  BY DEF Running, Others, Of
<1> QED
  BY <1>1, RunningFinite, FS_Subset

LEMMA RunningLoses ==
    ASSUME NEW d \in Deliveries, NEW w \in Workers, Others(w), w \in Running(d), w \notin Running(d)'
    PROVE  Cardinality(Running(d)') = Cardinality(Running(d)) - 1
<1>1. Running(d)' = Running(d) \ {w}
  BY DEF Running, Others, Of
<1> QED
  BY <1>1, RunningFinite, FS_RemoveElement

LEMMA RunningGains ==
    ASSUME NEW d \in Deliveries, NEW w \in Workers, Others(w), w \notin Running(d), w \in Running(d)'
    PROVE  Cardinality(Running(d)') = Cardinality(Running(d)) + 1
<1>1. Running(d)' = Running(d) \cup {w}
  BY DEF Running, Others, Of
<1> QED
  BY <1>1, RunningFinite, FS_AddElement

LEMMA StepCounting ==
    ASSUME TypeOK, TypeOK', NEW d \in Deliveries, Places(d), Counting(d), DeliveryStep(d)
    PROVE  Counting(d)'
<1> USE LimitsAssumption
<1> DEFINE card == Cardinality(Running(d))
<1>0. /\ d # None /\ mails[d] \in Nat /\ mails'[d] \in Nat
      /\ job[d].made \in Nat /\ job[d].stalls \in Nat
      /\ job[d].state \in {"none", "waiting", "active", "completed", "failed"}
      /\ card \in Nat /\ card' \in Nat
  BY NoneAssumption, JobType, RowType, RunningFinite, RunningFiniteAfter DEF TypeOK
<1>1. ASSUME NEW o \in Deliveries \cup {None}, CreateRow(d, o) PROVE Counting(d)'
  BY <1>1 DEF CreateRow, Counting, Begun, Running, Of
<1>2. CASE AddJob(d)
  <2>1. card' = card /\ mails' = mails
    BY <1>2 DEF AddJob, Running, Of
  <2>2. job[d].state = "none"
    BY <1>2 DEF AddJob, Places
  <2> HIDE DEF card
  <2> QED
    BY <1>0, <1>2, <2>1, <2>2, AddedJob DEF Counting, Begun, card
<1>3. CASE LoseJob(d)
  BY <1>3 DEF LoseJob, Counting, Begun, Running, Of
<1>4. CASE LoseLock(d)
  <2>1. card' = card /\ mails' = mails
    BY <1>4 DEF LoseLock, Running, Of
  <2>2. job[d].state = "active" /\ HandOutAgain(d)
    BY <1>4 DEF LoseLock
  <2> HIDE DEF card
  <2> QED
    BY <1>0, <2>1, <2>2, HandedOut DEF Counting, Begun, card
<1>5. ASSUME NEW w \in Workers, Take(w, d) PROVE Counting(d)'
  <2>1. w \notin Running(d) /\ w \in Running(d)' /\ Others(w)
    BY <1>0, <1>5, Taken DEF Running, Of
  <2>2. card' = card + 1 /\ mails' = mails
    BY <1>5, <2>1, RunningGains DEF Take
  <2> HIDE DEF card
  <2> QED
    BY <1>0, <1>5, <2>2, Taken DEF Counting, Begun, card
<1>6. ASSUME NEW w \in Workers, Of(w) = d, WorkerStep(w) PROVE Counting(d)'
  <2>1. CASE Send(w)
    <3>1. w \in Running(d) /\ w \notin Running(d)' /\ Others(w)
      BY <1>6, <2>1, SendEffect DEF Running, Moves, Of
    <3>2. card' = card - 1 /\ job' = job /\ mails'[d] <= mails[d] + 1
      BY <1>0, <1>6, <2>1, <3>1, RunningLoses, SendEffect
    <3> HIDE DEF card
    <3> QED
      BY <1>0, <3>2 DEF Counting, Begun, card
  <2>2. CASE ~Send(w)
    <3>1. Others(w) /\ (w \in Running(d)' => w \in Running(d)) /\ mails' = mails
      BY <1>0, <1>6, <2>2, ReadEffect, MarkEffect, CatchEffect, EndEffect, ErrorEffect, LostEffect,
         DieEffect DEF WorkerStep, Attempt, Running, Moves, Ends, Of
    <3>2. card' <= card
      BY <3>1, RunningShrinks
    <3> HIDE DEF card
    <3>3. CASE job'[d] = job[d]
      BY <1>0, <3>1, <3>2, <3>3 DEF Counting, Begun, card
    <3>4. CASE Owns(w) /\ (Return(w) \/ Throw(w))
      BY <1>0, <1>6, <3>1, <3>2, <3>4, Ended, EndEffect DEF Counting, Begun, card, Owns
    <3>5. CASE Owns(w) /\ Die(w)
      BY <1>0, <1>6, <3>1, <3>2, <3>5, DieEffect, HandedOut DEF Counting, Begun, card, Owns
    <3>6. \/ job'[d] = job[d]
          \/ Owns(w) /\ (Return(w) \/ Throw(w) \/ Die(w))
      BY <1>6, ReadEffect, MarkEffect, SendEffect, CatchEffect, Ended, ErrorEffect, LostEffect,
         DieEffect DEF WorkerStep, Attempt
    <3> QED
      BY <3>3, <3>4, <3>5, <3>6
  <2> QED
    BY <2>1, <2>2
<1> QED
  BY <1>1, <1>2, <1>3, <1>4, <1>5, <1>6 DEF DeliveryStep

LEMMA StepSent ==
    ASSUME TypeOK, NEW d \in Deliveries, Places(d), Sent(d), DeliveryStep(d)
    PROVE  Sent(d)'
<1>0. d # None /\ mails[d] \in Nat
  BY NoneAssumption, RowType
<1>1. ASSUME NEW o \in Deliveries \cup {None}, CreateRow(d, o) PROVE Sent(d)'
  BY <1>1, CreateEffect DEF RowOf, Sent, Of
<1>2. CASE AddJob(d) \/ LoseJob(d) \/ LoseLock(d)
  BY <1>2 DEF AddJob, LoseJob, LoseLock, Sent, Of
<1>3. ASSUME NEW w \in Workers, Take(w, d) PROVE Sent(d)'
  <2>1. worker'[w].pc = "read" /\ Others(w) /\ UNCHANGED <<row, mails>>
    <3>1. UNCHANGED <<row, mails>>
      BY <1>3 DEF Take
    <3>2. worker'[w].pc = "read" /\ Others(w)
      BY <1>3, Taken
    <3> QED
      BY <3>1, <3>2
  <2> QED
    BY <2>1 DEF Sent, Of, Others
<1>4. ASSUME NEW w \in Workers, Of(w) = d, WorkerStep(w) PROVE Sent(d)'
  <2>1. CASE Send(w)
    BY <1>0, <1>4, <2>1, SendEffect DEF Sent, Moves, Others, Of
  <2>2. CASE ~Send(w)
    <3>1. /\ Others(w) /\ mails' = mails /\ (worker'[w].pc = "markSent" => worker'[w].of # d)
          /\ row'[d].status = "sent" => mails[d] > 0
      BY <1>0, <1>4, <2>2, ReadEffect, MarkEffect, CatchEffect, EndEffect, ErrorEffect, LostEffect,
         DieEffect DEF WorkerStep, Attempt, Moves, Ends, RowOf, Sent
    <3> QED
      BY <3>1 DEF Sent, Others, Of
  <2> QED
    BY <2>1, <2>2
<1> QED
  BY <1>1, <1>2, <1>3, <1>4 DEF DeliveryStep

(* Where nothing is in doubt the owner of the job is alone in it.          *)
LEMMA Alone ==
    ASSUME NEW d \in Deliveries, Sure(d), d \notin unsure, NEW w \in Workers, Of(w) = d
    PROVE  /\ job[d].state = "active" /\ job[d].owner = w /\ Owns(w)
           /\ \A v \in Workers : Of(v) = d => v = w
           /\ row[d].status = "sent" => worker[w].pc \in {"read", "return", "throw"}
BY DEF Sure, Owns

LEMMA AloneAfter ==
    ASSUME NEW d \in Deliveries, Sure(d), d \notin unsure, NEW w \in Workers, Of(w) = d \/ job[d].state # "active",
           Others(w)
    PROVE  \A v \in Workers : worker'[v].of = d => v = w
BY DEF Sure, Owns, Others, Of

LEMMA StepUnsure ==
    ASSUME NEW d \in Deliveries, TypeOK, DeliveryStep(d)
    PROVE  unsure \subseteq unsure'
<1>1. ASSUME NEW w \in Workers, WorkerStep(w) PROVE unsure \subseteq unsure'
  BY <1>1, ReadEffect, MarkEffect, SendEffect, CatchEffect, EndEffect, ErrorEffect, LostEffect,
     DieEffect DEF WorkerStep, Attempt
<1> QED
  BY <1>1 DEF DeliveryStep, CreateRow, AddJob, LoseJob, LoseLock, Take

LEMMA StepSure ==
    ASSUME TypeOK, NEW d \in Deliveries, Places(d), Sure(d), DeliveryStep(d)
    PROVE  Sure(d)'
<1> SUFFICES ASSUME d \notin unsure', NEW v \in Workers, worker'[v].of = d
             PROVE  /\ job'[d].state = "active" /\ job'[d].owner = v
                    /\ row'[d].status = "sent" => worker'[v].pc \in {"read", "return", "throw"}
  BY DEF Sure, Owns, Of
<1>0. d # None /\ d \notin unsure
  BY NoneAssumption, StepUnsure
<1>1. ASSUME NEW o \in Deliveries \cup {None}, CreateRow(d, o) PROVE FALSE
  BY <1>1 DEF CreateRow, Places, Of
<1>2. CASE AddJob(d)
  BY <1>2 DEF AddJob, Places, Of
<1>3. CASE LoseJob(d)
  BY <1>3 DEF LoseJob, Places, Of
<1>4. CASE LoseLock(d)
  BY <1>4 DEF LoseLock
<1>5. ASSUME NEW w \in Workers, Take(w, d) PROVE v = w /\ job'[d].state = "active" /\ job'[d].owner = w
                                                 /\ worker'[w].pc = "read"
  BY <1>0, <1>5, Taken, AloneAfter
<1>6. ASSUME NEW w \in Workers, Of(w) = d, WorkerStep(w)
      PROVE  /\ job'[d].state = "active" /\ job'[d].owner = v
             /\ row'[d].status = "sent" => worker'[v].pc \in {"read", "return", "throw"}
  <2>1. /\ job[d].state = "active" /\ job[d].owner = w
        /\ row[d].status = "sent" => worker[w].pc \in {"read", "return", "throw"}
    BY <1>0, <1>6, Alone
  <2>2. Others(w)
    BY <1>6, ReadEffect, MarkEffect, SendEffect, CatchEffect, EndEffect, ErrorEffect, LostEffect,
       DieEffect DEF WorkerStep, Attempt, Moves, Ends
  <2>3. v = w
    BY <1>0, <1>6, <2>2, AloneAfter
  <2>4. CASE Read(w)
    BY <1>6, <2>1, <2>3, <2>4, ReadEffect DEF Moves
  <2>5. CASE MarkSent(w) \/ MarkFailed(w)
    BY <1>6, <2>1, <2>3, <2>5, MarkEffect DEF Moves
  <2>6. CASE Send(w)
    BY <1>6, <2>1, <2>3, <2>6, SendEffect DEF Moves
  <2>7. CASE Catch(w)
    BY <1>6, <2>1, <2>3, <2>7, CatchEffect DEF Moves
  <2>8. CASE DatabaseError(w)
    BY <1>6, <2>1, <2>3, <2>8, ErrorEffect DEF Moves
  <2>9. ~AnswerLost(w)
    BY <1>6, LostEffect
  <2>10. ~(Return(w) \/ Throw(w) \/ Die(w))
    BY <1>0, <2>3, EndEffect, DieEffect DEF Ends
  <2> QED
    BY <1>6, <2>4, <2>5, <2>6, <2>7, <2>8, <2>9, <2>10 DEF WorkerStep, Attempt
<1> QED
  BY <1>1, <1>2, <1>3, <1>4, <1>5, <1>6 DEF DeliveryStep

LEMMA StepFinal ==
    ASSUME TypeOK, NEW d \in Deliveries, Places(d), Sure(d), Final(d), DeliveryStep(d)
    PROVE  Final(d)'
<1> SUFFICES ASSUME d \notin unsure', job'[d].stalls = 0
             PROVE  /\ job'[d].state \in {"none", "waiting"} =>
                          row'[d].status # "failed" /\ row'[d].retries <= job'[d].made
                    /\ \A v \in Workers : worker'[v].of = d =>
                          /\ row'[d].retries <= job'[d].made + IF worker'[v].pc = "throw" THEN 1 ELSE 0
                          /\ worker'[v].pc \in {"send", "markSent", "catch"} => worker'[v].seen <= job'[d].made
                          /\ row'[d].status = "failed" =>
                                \/ worker'[v].pc = "return"
                                \/ worker'[v].pc = "throw" /\ job'[d].made + 1 >= MaxAttempts
  BY DEF Final, Of
<1>0. /\ d # None /\ d \notin unsure
      /\ row[d].retries \in Nat /\ job[d].made \in Nat /\ job[d].stalls \in Nat
  BY NoneAssumption, StepUnsure, RowType, JobType
<1>1. ASSUME NEW o \in Deliveries \cup {None}, CreateRow(d, o)
      PROVE  /\ row'[d].status = "queued" /\ row'[d].retries <= job'[d].made
             /\ \A v \in Workers : worker'[v].of # d
  <2>1. job[d].state = "none" /\ job[d].stalls = 0 /\ \A v \in Workers : Of(v) # d
    BY <1>1 DEF CreateRow, Places
  <2>2. row[d].retries <= job[d].made
    BY <1>0, <2>1 DEF Final
  <2> QED
    BY <1>1, <2>1, <2>2, CreateEffect DEF RowOf, Of
<1>2. CASE AddJob(d)
  <2>1. job[d].state = "none" /\ job[d].stalls = 0 /\ \A v \in Workers : Of(v) # d
    BY <1>2 DEF AddJob, Places
  <2>2. row[d].status # "failed" /\ row[d].retries <= job[d].made
    BY <1>0, <2>1 DEF Final
  <2>3. UNCHANGED <<row, worker>>
    BY <1>2 DEF AddJob
  <2> QED
    BY <1>2, <2>1, <2>2, <2>3, AddedJob DEF Of
<1>3. CASE LoseJob(d)
  BY <1>0, <1>3 DEF LoseJob, Final, Of
<1>4. ~LoseLock(d)
  BY DEF LoseLock
<1>5. ASSUME NEW w \in Workers, Take(w, d)
      PROVE  /\ job'[d].state = "active" /\ row'[d].status # "failed"
             /\ row'[d].retries <= job'[d].made /\ job'[d].made \in Nat
             /\ \A v \in Workers : worker'[v].of = d => worker'[v].pc = "read"
  <2>1. /\ job[d].state = "waiting" /\ job'[d].state = "active"
        /\ job'[d].made = job[d].made /\ job'[d].stalls = job[d].stalls
        /\ worker'[w].pc = "read" /\ Others(w)
    BY <1>5, Taken
  <2>2. row[d].status # "failed" /\ row[d].retries <= job[d].made
    BY <1>0, <2>1 DEF Final
  <2>3. row' = row
    BY <1>5 DEF Take
  <2>4. \A v \in Workers : worker'[v].of = d => v = w
    BY <1>0, <2>1, AloneAfter
  <2> QED
    BY <1>0, <2>1, <2>2, <2>3, <2>4
<1>6. ASSUME NEW w \in Workers, Of(w) = d, WorkerStep(w)
      PROVE  /\ job'[d].state \in {"none", "waiting"} =>
                   row'[d].status # "failed" /\ row'[d].retries <= job'[d].made
             /\ \A v \in Workers : worker'[v].of = d =>
                   /\ row'[d].retries <= job'[d].made + IF worker'[v].pc = "throw" THEN 1 ELSE 0
                   /\ worker'[v].pc \in {"send", "markSent", "catch"} => worker'[v].seen <= job'[d].made
                   /\ row'[d].status = "failed" =>
                         \/ worker'[v].pc = "return"
                         \/ worker'[v].pc = "throw" /\ job'[d].made + 1 >= MaxAttempts
  <2>1. job[d].state = "active" /\ job[d].owner = w /\ Owns(w)
    BY <1>0, <1>6, Alone
  <2>2. Others(w)
    BY <1>6, ReadEffect, MarkEffect, SendEffect, CatchEffect, EndEffect, ErrorEffect, LostEffect,
       DieEffect DEF WorkerStep, Attempt, Moves, Ends
  <2>3. \A v \in Workers : worker'[v].of = d => v = w
    BY <1>0, <1>6, <2>2, AloneAfter
  <2>4. ~AnswerLost(w)
    BY <1>6, LostEffect
  <2>5. ~Die(w)
    BY <1>0, <1>6, <2>1, DieEffect, HandedOut
  <2>6. job[d].stalls = 0
    BY <1>6, <2>4, <2>5, ReadEffect, MarkEffect, SendEffect, CatchEffect, Ended, ErrorEffect
       DEF WorkerStep, Attempt
  <2>7. /\ row[d].retries <= job[d].made + IF worker[w].pc = "throw" THEN 1 ELSE 0
        /\ worker[w].pc \in {"send", "markSent", "catch"} => worker[w].seen <= job[d].made
        /\ row[d].status = "failed" =>
              \/ worker[w].pc = "return"
              \/ worker[w].pc = "throw" /\ job[d].made + 1 >= MaxAttempts
    BY <1>0, <1>6, <2>6 DEF Final
  <2>8. worker[w].seen \in Nat
    BY WorkerType
  <2>9. CASE Read(w)
    <3>1. worker[w].pc = "read" /\ job' = job /\ row' = row /\ worker'[w].seen = row[d].retries
      BY <1>6, <2>9, ReadEffect
    <3>2. worker'[w].pc # "throw"
      BY <1>6, <2>9, ReadEffect DEF Moves
    <3> QED
      BY <1>0, <2>1, <2>3, <2>7, <3>1, <3>2
  <2>10. CASE MarkSent(w) \/ MarkFailed(w)
    BY <1>6, <2>1, <2>3, <2>7, <2>10, MarkEffect DEF Moves, RowOf
  <2>11. CASE Send(w)
    BY <1>6, <2>1, <2>3, <2>7, <2>11, SendEffect DEF Moves
  <2>12. CASE Catch(w)
    BY <1>0, <1>6, <2>1, <2>3, <2>7, <2>8, <2>12, LimitsAssumption, CatchEffect DEF Moves, RowOf
  <2>13. CASE DatabaseError(w)
    BY <1>0, <1>6, <2>1, <2>3, <2>7, <2>13, ErrorEffect DEF Moves
  <2>14. CASE Return(w) \/ Throw(w)
    <3>1. \A v \in Workers : worker'[v].of # d
      BY <1>0, <2>3, <2>14, EndEffect DEF Ends
    <3>2. row' = row
      BY <2>14, EndEffect
    <3>3. CASE Return(w)
      BY <1>6, <2>1, <3>1, <3>3, Ended
    <3>4. CASE Throw(w)
      <4>1. worker[w].pc = "throw"
        BY <3>4 DEF Throw, At
      <4>2. /\ job'[d].state = (IF job[d].made + 1 < MaxAttempts THEN "waiting" ELSE "failed")
            /\ job'[d].made = job[d].made + 1
        BY <1>6, <2>1, <3>4, Ended
      <4> QED
        BY <1>0, <2>7, <3>1, <3>2, <4>1, <4>2, LimitsAssumption
    <3> QED
      BY <2>14, <3>3, <3>4
  <2> QED
    BY <1>6, <2>4, <2>5, <2>9, <2>10, <2>11, <2>12, <2>13, <2>14 DEF WorkerStep, Attempt
<1>7. CASE \E o \in Deliveries \cup {None} : CreateRow(d, o)
  BY <1>1, <1>7
<1>8. CASE \E w \in Workers : Take(w, d)
  BY <1>5, <1>8
<1>9. CASE \E w \in Workers : Of(w) = d /\ WorkerStep(w)
  BY <1>6, <1>9
<1> QED
  BY <1>2, <1>3, <1>4, <1>7, <1>8, <1>9 DEF DeliveryStep

LEMMA NextIInv == IInv /\ [Next]_vars => IInv'
<1> SUFFICES ASSUME IInv, [Next]_vars PROVE IInv'
  OBVIOUS
<1>1. TypeOK /\ TypeOK'
  BY NextType DEF IInv
<1>2. ASSUME NEW e \in Deliveries PROVE DInv(e)'
  <2>1. DInv(e)
    BY DEF IInv
  <2>2. CASE UNCHANGED vars
    BY <1>1, <2>1, <2>2, SameKeeps DEF vars, Same
  <2>3. CASE Next
    <3>1. PICK d \in Deliveries : DeliveryStep(d)
      BY <1>1, <2>3, OneDelivery
    <3>2. CASE e = d
      BY <1>1, <2>1, <3>1, <3>2, StepPlaces, StepCounting, StepSent, StepSure, StepFinal DEF DInv
    <3>3. CASE e # d
      BY <1>1, <2>1, <3>1, <3>3, OthersStay, SameKeeps
    <3> QED
      BY <3>2, <3>3
  <2> QED
    BY <2>2, <2>3
<1> QED
  BY <1>1, <1>2 DEF IInv

LEMMA InitIInv == Init => IInv
<1> USE LimitsAssumption, NoneAssumption
<1>1. Init => TypeOK
  BY DEF Init, TypeOK, Row, Job, Worker
<1> SUFFICES ASSUME Init, NEW d \in Deliveries PROVE DInv(d)
  BY <1>1 DEF IInv
<1>2. \A w \in Workers : Of(w) # d
  BY DEF Init, Idle, Of
<1>3. /\ row[d].status = "none" /\ row[d].retries = 0 /\ queuing[d] = "none" /\ mails[d] = 0
      /\ job[d].state = "none" /\ job[d].made = 0 /\ job[d].stalls = 0
      /\ unsure = {}
  BY DEF Init
<1>4. Running(d) = {}
  BY <1>2 DEF Running
<1>5. Cardinality(Running(d)) = 0
  BY <1>4, FS_EmptySet
<1>6. Places(d)
  BY <1>2, <1>3 DEF Places
<1>7. Counting(d)
  BY <1>3, <1>5 DEF Counting, Begun
<1>8. Sent(d) /\ Sure(d) /\ Final(d)
  BY <1>2, <1>3 DEF Sent, Sure, Final
<1> QED
  BY <1>6, <1>7, <1>8 DEF DInv

(* The invariant of every delivery holds in every reachable state.         *)
THEOREM Invariance == Spec => []IInv
BY InitIInv, NextIInv, PTL DEF Spec

-----------------------------------------------------------------------------
(* A row says sent only after a server took the mail.                      *)
THEOREM SentIsTrue == Spec => []SentMeansMailed
<1>1. IInv => SentMeansMailed
  BY DEF IInv, DInv, Sent, SentMeansMailed
<1> QED
  BY <1>1, Invariance, PTL

(* Sent is final, over any number of retries, attempts that die at any      *)
(* step and failed calls, unless a worker went on without its lock or the  *)
(* answer to the write of the verdict was lost.                            *)
THEOREM FinalOnceSent == Spec => SentIsFinal
<1>1. IInv /\ [Next]_vars => [SentStep]_vars
  <2> SUFFICES ASSUME IInv, Next, NEW d \in Deliveries, row[d].status = "sent", d \notin unsure
               PROVE  row'[d] = row[d] /\ mails'[d] = mails[d]
    BY DEF SentStep
  <2>1. TypeOK /\ Sure(d)
    BY DEF IInv, DInv
  <2>2. PICK e \in Deliveries : DeliveryStep(e)
    BY <2>1, OneDelivery
  <2>3. CASE e # d
    BY <2>1, <2>2, <2>3, OthersStay DEF Same
  <2>4. CASE \E o \in Deliveries \cup {None} : CreateRow(d, o)
    BY <2>4 DEF CreateRow
  <2>5. CASE AddJob(d) \/ LoseJob(d) \/ LoseLock(d) \/ \E w \in Workers : Take(w, d)
    BY <2>5 DEF AddJob, LoseJob, LoseLock, Take
  <2>6. CASE \E w \in Workers : Of(w) = d /\ WorkerStep(w)
    <3>1. PICK w \in Workers : Of(w) = d /\ WorkerStep(w)
      BY <2>6
    <3>2. worker[w].pc \in {"read", "return", "throw"}
      BY <2>1, <3>1, Alone
    <3> QED
      BY <2>1, <3>1, <3>2, ReadEffect, MarkEffect, SendEffect, CatchEffect, EndEffect, ErrorEffect,
         LostEffect, DieEffect DEF WorkerStep, Attempt
  <2> QED
    BY <2>2, <2>3, <2>4, <2>5, <2>6 DEF DeliveryStep
<1> QED
  BY <1>1, Invariance, PTL DEF Spec, SentIsFinal

-----------------------------------------------------------------------------
(* The queue's limit and the row's.                                        *)

LEMMA StepAgree ==
    ASSUME TypeOK, NEW d \in Deliveries, DInv(d), Agree(d), DeliveryStep(d)
    PROVE  Agree(d)'
<1> SUFFICES ASSUME faults' = 0
             PROVE  /\ job'[d].state \in {"none", "waiting"} => row'[d].retries = job'[d].made
                    /\ \A v \in Workers : worker'[v].of = d =>
                          /\ worker'[v].pc # "throw" => row'[d].retries = job'[d].made
                          /\ worker'[v].pc \in {"send", "markSent", "catch"} =>
                                worker'[v].seen = job'[d].made
                          /\ worker'[v].pc = "throw" =>
                                /\ row'[d].retries = job'[d].made + 1
                                /\ row'[d].retries >= MaxAttempts => row'[d].status = "failed"
                    /\ job'[d].state = "failed" => row'[d].status = "failed"
  BY DEF Agree, Of
<1>0. /\ d # None /\ faults \in Nat /\ Places(d) /\ Sure(d)
      /\ row[d].retries \in Nat /\ job[d].made \in Nat
  BY NoneAssumption, RowType, JobType DEF DInv
<1>1. ASSUME NEW o \in Deliveries \cup {None}, CreateRow(d, o)
      PROVE  /\ job'[d].state = "none" /\ row'[d].retries = job'[d].made
             /\ \A v \in Workers : worker'[v].of # d
  <2>1. job[d].state = "none" /\ faults = 0 /\ \A v \in Workers : Of(v) # d
    BY <1>0, <1>1 DEF CreateRow, Places
  <2> QED
    BY <1>1, <2>1, CreateEffect DEF RowOf, Of, Agree
<1>2. CASE AddJob(d)
  <2>1. job[d].state = "none" /\ faults = 0 /\ \A v \in Workers : Of(v) # d
    BY <1>0, <1>2 DEF AddJob, Places
  <2>2. UNCHANGED <<row, worker>>
    BY <1>2 DEF AddJob
  <2> QED
    BY <1>2, <2>1, <2>2, AddedJob DEF Of, Agree
<1>3. ~LoseJob(d) /\ ~LoseLock(d)
  BY <1>0 DEF LoseJob, LoseLock, Fault
<1>5. ASSUME NEW w \in Workers, Take(w, d)
      PROVE  /\ job'[d].state = "active" /\ row'[d].retries = job'[d].made
             /\ \A v \in Workers : worker'[v].of = d => worker'[v].pc = "read"
  <2>1. /\ job[d].state = "waiting" /\ job'[d].state = "active" /\ job'[d].made = job[d].made
        /\ worker'[w].pc = "read" /\ Others(w)
    BY <1>5, Taken
  <2>2. faults = 0 /\ row' = row
    BY <1>5 DEF Take
  <2>3. d \notin unsure /\ row[d].retries = job[d].made
    BY <1>0, <2>1, <2>2 DEF Places, Agree
  <2>4. \A v \in Workers : worker'[v].of = d => v = w
    BY <1>0, <2>1, <2>3, AloneAfter
  <2> QED
    BY <2>1, <2>2, <2>3, <2>4
<1>6. ASSUME NEW w \in Workers, Of(w) = d, WorkerStep(w)
      PROVE  /\ job'[d].state \in {"none", "waiting"} => row'[d].retries = job'[d].made
             /\ \A v \in Workers : worker'[v].of = d =>
                   /\ worker'[v].pc # "throw" => row'[d].retries = job'[d].made
                   /\ worker'[v].pc \in {"send", "markSent", "catch"} =>
                         worker'[v].seen = job'[d].made
                   /\ worker'[v].pc = "throw" =>
                         /\ row'[d].retries = job'[d].made + 1
                         /\ row'[d].retries >= MaxAttempts => row'[d].status = "failed"
             /\ job'[d].state = "failed" => row'[d].status = "failed"
  <2>1. Attempt(w)
    BY <1>0, <1>6, ErrorEffect, LostEffect, DieEffect DEF WorkerStep
  <2>2. faults = 0 /\ Others(w)
    BY <2>1, ReadEffect, MarkEffect, SendEffect, CatchEffect, EndEffect DEF Attempt, Moves, Ends
  <2>3. d \notin unsure
    BY <1>0, <2>2 DEF Places
  <2>4. job[d].state = "active" /\ job[d].owner = w /\ Owns(w)
    BY <1>0, <1>6, <2>3, Alone
  <2>5. \A v \in Workers : worker'[v].of = d => v = w
    BY <1>0, <1>6, <2>2, <2>3, AloneAfter
  <2>6. /\ worker[w].pc # "throw" => row[d].retries = job[d].made
        /\ worker[w].pc \in {"send", "markSent", "catch"} => worker[w].seen = job[d].made
        /\ worker[w].pc = "throw" =>
              /\ row[d].retries = job[d].made + 1
              /\ row[d].retries >= MaxAttempts => row[d].status = "failed"
    BY <1>6, <2>2 DEF Agree
  <2>7. CASE Read(w)
    <3>1. worker[w].pc = "read" /\ job' = job /\ row' = row /\ worker'[w].seen = row[d].retries
      BY <1>6, <2>7, ReadEffect
    <3>2. worker'[w].pc # "throw"
      BY <1>6, <2>7, ReadEffect DEF Moves
    <3> QED
      BY <2>4, <2>5, <2>6, <3>1, <3>2
  <2>8. CASE MarkSent(w) \/ MarkFailed(w)
    BY <1>6, <2>4, <2>5, <2>6, <2>8, MarkEffect DEF Moves, RowOf
  <2>9. CASE Send(w)
    BY <1>6, <2>4, <2>5, <2>6, <2>9, SendEffect DEF Moves
  <2>10. CASE Catch(w)
    BY <1>0, <1>6, <2>4, <2>5, <2>6, <2>10, LimitsAssumption, CatchEffect DEF Moves, RowOf
  <2>11. CASE Return(w) \/ Throw(w)
    <3>1. \A v \in Workers : worker'[v].of # d
      BY <1>0, <2>5, <2>11, EndEffect DEF Ends
    <3>2. row' = row
      BY <2>11, EndEffect
    <3>3. CASE Return(w)
      BY <1>6, <2>4, <3>1, <3>3, Ended
    <3>4. CASE Throw(w)
      <4>1. worker[w].pc = "throw"
        BY <3>4 DEF Throw, At
      <4>2. /\ job'[d].state = (IF job[d].made + 1 < MaxAttempts THEN "waiting" ELSE "failed")
            /\ job'[d].made = job[d].made + 1
        BY <1>6, <2>4, <3>4, Ended
      <4> QED
        BY <1>0, <2>6, <3>1, <3>2, <4>1, <4>2, LimitsAssumption
    <3> QED
      BY <2>11, <3>3, <3>4
  <2> QED
    BY <2>1, <2>7, <2>8, <2>9, <2>10, <2>11 DEF Attempt
<1>7. CASE \E o \in Deliveries \cup {None} : CreateRow(d, o)
  BY <1>1, <1>7
<1>8. CASE \E w \in Workers : Take(w, d)
  BY <1>5, <1>8
<1>9. CASE \E w \in Workers : Of(w) = d /\ WorkerStep(w)
  BY <1>6, <1>9
<1> QED
  BY <1>2, <1>3, <1>7, <1>8, <1>9 DEF DeliveryStep

LEMMA NextAInv == AInv /\ [Next]_vars => AInv'
<1> SUFFICES ASSUME AInv, [Next]_vars PROVE AInv'
  OBVIOUS
<1>1. TypeOK /\ IInv /\ IInv'
  BY NextIInv DEF AInv, IInv
<1>2. ASSUME NEW e \in Deliveries, Same(e) PROVE Agree(e)'
  <2>1. \A w \in Workers : (Of(w))' = e <=> Of(w) = e
    BY <1>2 DEF Same, Of
  <2>2. Agree(e)
    BY DEF AInv
  <2> QED
    BY <1>2, <2>1, <2>2 DEF Agree, Same
<1>3. CASE UNCHANGED vars
  <2>1. \A e \in Deliveries : Same(e)
    BY <1>3 DEF vars, Same
  <2> QED
    BY <1>1, <1>2, <2>1 DEF AInv
<1>4. CASE Next
  <2>1. PICK d \in Deliveries : DeliveryStep(d)
    BY <1>1, <1>4, OneDelivery
  <2>2. Agree(d)'
    BY <1>1, <2>1, StepAgree DEF AInv, IInv
  <2>3. \A e \in Deliveries : e # d => Agree(e)'
    BY <1>1, <1>2, <2>1, OthersStay
  <2> QED
    BY <1>1, <2>2, <2>3 DEF AInv
<1> QED
  BY <1>3, <1>4

(* Where no fault happens the two limits agree, whatever the number of      *)
(* attempts: a job the queue gave up has a row that says failed.           *)
THEOREM LimitsAgree == Spec => []GivenUpIsFailed
<1>1. Init => AInv
  <2>1. Init => \A d \in Deliveries : Agree(d)
    <3> SUFFICES ASSUME Init, NEW d \in Deliveries PROVE Agree(d)
      OBVIOUS
    <3>1. \A w \in Workers : Of(w) # d
      BY NoneAssumption DEF Init, Idle, Of
    <3>2. job[d].state = "none" /\ job[d].made = 0 /\ row[d].retries = 0
      BY DEF Init
    <3> QED
      BY <3>1, <3>2 DEF Agree
  <2> QED
    BY <2>1, InitIInv DEF AInv
<1>2. AInv => GivenUpIsFailed
  BY DEF AInv, Agree, GivenUpIsFailed
<1> QED
  BY <1>1, <1>2, NextAInv, PTL DEF Spec

-----------------------------------------------------------------------------
(* The machinery implements the outbox: what a step is to its delivery.    *)

Verdicts == {"sent", "failed"}

IsOpen(d) == Outcome(d) = "pending" \/ Outcome(d) \in InDoubt(d)

Stutters(d) == Outcome(d)' = Outcome(d) /\ mails'[d] = mails[d] /\ InDoubt(d)' = InDoubt(d)
               /\ origin' = origin

Requested(d) ==
    /\ Outcome(d) = "none" /\ Outcome(d)' = "pending"
    /\ mails'[d] = mails[d] /\ InDoubt(d)' = InDoubt(d)
    /\ \E o \in Deliveries \cup {None} :
          (o # None => Outcome(o) \in Verdicts) /\ origin' = [origin EXCEPT ![d] = o]

HandedOver(d) ==
    /\ IsOpen(d) /\ mails[d] < MaxAttempts + MaxStalls
    /\ Outcome(d)' = Outcome(d) /\ mails'[d] = mails[d] + 1 /\ InDoubt(d)' = InDoubt(d)
    /\ origin' = origin

Reported(d) ==
    /\ IsOpen(d) /\ Outcome(d)' \in Verdicts \cup {"pending"}
    /\ Outcome(d)' = "sent" => mails[d] > 0
    /\ mails'[d] = mails[d] /\ origin' = origin
    /\ \E D \in SUBSET Verdicts : InDoubt(d)' = InDoubt(d) \cup D

Doubted(d) ==
    /\ Outcome(d)' = Outcome(d) /\ mails'[d] = mails[d] /\ origin' = origin
    /\ \E D \in SUBSET Verdicts : InDoubt(d)' = InDoubt(d) \cup D

OutboxStep(d) == Stutters(d) \/ Requested(d) \/ HandedOver(d) \/ Reported(d) \/ Doubted(d)

(* An attempt that may still send or write a verdict finds the outbox open. *)
LEMMA OpenWhileAtWork ==
    ASSUME TypeOK, NEW d \in Deliveries, DInv(d), NEW w \in Workers, Of(w) = d,
           worker[w].pc \in {"send", "markSent", "markFailed", "catch"}
    PROVE  IsOpen(d)
<1>1. row[d].status # "none"
  BY DEF DInv, Places
<1>2. Outcome(d) \in {"pending", "sent", "failed"}
  BY <1>1, RowType DEF Outcome
<1>3. CASE d \in unsure
  BY <1>2, <1>3 DEF IsOpen, InDoubt
<1>4. CASE d \notin unsure /\ job[d].stalls > 0
  <2>1. row[d].status # "sent"
    BY <1>4, Alone DEF DInv
  <2> QED
    BY <1>2, <1>4, <2>1 DEF IsOpen, InDoubt, Outcome
<1>5. CASE d \notin unsure /\ job[d].stalls = 0
  <2>1. row[d].status \notin {"sent", "failed"}
    BY <1>5, Alone DEF DInv, Final
  <2> QED
    BY <1>2, <2>1 DEF IsOpen, Outcome
<1> QED
  BY <1>3, <1>4, <1>5, JobType

LEMMA MailsLeft ==
    ASSUME TypeOK, NEW d \in Deliveries, DInv(d), NEW w \in Workers, Of(w) = d, worker[w].pc = "send"
    PROVE  mails[d] < MaxAttempts + MaxStalls
<1> DEFINE card == Cardinality(Running(d))
<1>1. w \in Running(d)
  BY DEF Running
<1>2. card \in Nat /\ card # 0
  BY <1>1, RunningFinite, FS_EmptySet
<1> HIDE DEF card
<1> QED
  BY <1>2, LimitsAssumption, JobType, RowType DEF DInv, Counting, Begun, card

LEMMA OutboxDelivery ==
    ASSUME TypeOK, TypeOK', NEW d \in Deliveries, DInv(d), DeliveryStep(d)
    PROVE  OutboxStep(d)
<1> USE DEF OutboxStep
<1>0. job[d].stalls \in Nat /\ row[d].status \in {"none", "queued", "sent", "failed"}
  BY JobType, RowType
<1>1. ASSUME NEW o \in Deliveries \cup {None}, o # None => row[o].status \in {"sent", "failed"},
             CreateRow(d, o)
      PROVE  Requested(d)
  BY <1>1, CreateEffect DEF Requested, RowOf, Outcome, InDoubt, Verdicts
<1>2. CASE AddJob(d) \/ LoseJob(d)
  <2>1. /\ job'[d].stalls = job[d].stalls
        /\ UNCHANGED <<row, mails, origin, unsure>>
    BY <1>2, AddedJob DEF AddJob, LoseJob
  <2> QED
    BY <2>1 DEF Stutters, Outcome, InDoubt
<1>3. ASSUME NEW w \in Workers, Take(w, d) PROVE Stutters(d)
  <2>1. job'[d].stalls = job[d].stalls
    BY <1>3, Taken
  <2>2. UNCHANGED <<row, mails, origin, unsure>>
    BY <1>3 DEF Take
  <2> QED
    BY <2>1, <2>2 DEF Stutters, Outcome, InDoubt
<1>4. CASE LoseLock(d)
  <2>1. unsure' = unsure \cup {d} /\ UNCHANGED <<row, mails, origin>>
    BY <1>4 DEF LoseLock
  <2>2. InDoubt(d)' = Verdicts /\ InDoubt(d) \in SUBSET Verdicts
    BY <2>1 DEF InDoubt, Verdicts
  <2> QED
    BY <2>1, <2>2 DEF Doubted, Outcome
<1>5. ASSUME NEW w \in Workers, Of(w) = d, WorkerStep(w) PROVE OutboxStep(d)
  <2>1. CASE Read(w) \/ DatabaseError(w)
    <3>1. UNCHANGED <<row, job, mails, origin, unsure>>
      BY <2>1, ReadEffect, ErrorEffect
    <3> QED
      BY <3>1 DEF Stutters, Outcome, InDoubt
  <2>2. CASE Return(w) \/ Throw(w)
    <3>1. UNCHANGED <<row, mails, origin, unsure>>
      BY <2>2, EndEffect
    <3>2. job'[d].stalls = job[d].stalls
      BY <1>5, <2>2, Ended
    <3> QED
      BY <3>1, <3>2 DEF Stutters, Outcome, InDoubt
  <2>3. CASE Send(w)
    <3>1. /\ worker[w].pc = "send" /\ mails'[d] \in {mails[d], mails[d] + 1}
          /\ UNCHANGED <<row, job, origin, unsure>>
      BY <1>5, <2>3, SendEffect
    <3>2. IsOpen(d) /\ mails[d] < MaxAttempts + MaxStalls
      BY <1>5, <3>1, OpenWhileAtWork, MailsLeft
    <3> QED
      BY <3>1, <3>2 DEF Stutters, HandedOver, Outcome, InDoubt
  <2>4. CASE MarkSent(w) \/ MarkFailed(w) \/ Catch(w)
    <3>1. /\ worker[w].pc \in {"markSent", "markFailed", "catch"}
          /\ UNCHANGED <<job, mails, origin, unsure>>
          /\ row'[d].status \in {"sent", "failed", "queued"}
          /\ row'[d].status = "sent" => worker[w].pc = "markSent"
      BY <1>5, <2>4, MarkEffect, CatchEffect DEF RowOf
    <3>2. IsOpen(d)
      BY <1>5, <3>1, OpenWhileAtWork
    <3>3. row'[d].status = "sent" => mails[d] > 0
      BY <1>5, <3>1 DEF DInv, Sent
    <3>4. InDoubt(d)' = InDoubt(d) \cup {}
      BY <3>1 DEF InDoubt
    <3> QED
      BY <3>1, <3>2, <3>3, <3>4 DEF Reported, Outcome, Verdicts
  <2>5. CASE AnswerLost(w)
    <3>1. /\ worker[w].pc \in {"markSent", "markFailed"}
          /\ UNCHANGED <<job, mails, origin>> /\ unsure' = unsure \cup {d}
          /\ row'[d].status \in {"sent", "failed"}
          /\ row'[d].status = "sent" => worker[w].pc = "markSent"
      BY <1>5, <2>5, LostEffect DEF RowOf
    <3>2. IsOpen(d)
      BY <1>5, <3>1, OpenWhileAtWork
    <3>3. row'[d].status = "sent" => mails[d] > 0
      BY <1>5, <3>1 DEF DInv, Sent
    <3>4. InDoubt(d)' = InDoubt(d) \cup Verdicts
      BY <3>1 DEF InDoubt, Verdicts
    <3> QED
      BY <3>1, <3>2, <3>3, <3>4 DEF Reported, Outcome, Verdicts
  <2>6. CASE Die(w)
    <3>1. UNCHANGED <<row, mails, origin, unsure>>
      BY <2>6, DieEffect
    <3>2. CASE Owns(w)
      <4>1. job'[d].stalls = job[d].stalls + 1
        BY <1>5, <2>6, <3>2, DieEffect, HandedOut
      <4>2. InDoubt(d)' = InDoubt(d) \cup {"failed"}
        BY <1>0, <3>1, <4>1 DEF InDoubt
      <4> QED
        BY <3>1, <4>2 DEF Doubted, Outcome, Verdicts
    <3>3. CASE ~Owns(w)
      BY <2>6, <3>1, <3>3, DieEffect DEF Stutters, Outcome, InDoubt
    <3> QED
      BY <3>2, <3>3
  <2> QED
    BY <1>5, <2>1, <2>2, <2>3, <2>4, <2>5, <2>6 DEF WorkerStep, Attempt
<1> QED
  BY <1>1, <1>2, <1>3, <1>4, <1>5 DEF DeliveryStep

outcome == [d \in Deliveries |-> Outcome(d)]

doubt == [d \in Deliveries |-> InDoubt(d)]

(* The other deliveries stay as they are in the outbox too.                *)
LEMMA OutboxOthers ==
    ASSUME TypeOK, TypeOK', NEW d \in Deliveries, DeliveryStep(d), OutboxStep(d)
    PROVE  Outbox!Next \/ UNCHANGED <<outcome, mails, origin, doubt>>
<1>1. \A e \in Deliveries : e # d => /\ Outcome(e)' = Outcome(e)
                                     /\ mails'[e] = mails[e] /\ InDoubt(e)' = InDoubt(e)
  BY OthersStay DEF Same, Outcome, InDoubt
<1>2. mails \in [Deliveries -> Nat] /\ mails' \in [Deliveries -> Nat]
  BY DEF TypeOK
<1>3. mails'[d] = mails[d] => mails' = mails
  BY <1>1, <1>2
<1>4. Outcome(d)' = Outcome(d) => outcome' = outcome
  BY <1>1 DEF outcome
<1>5. InDoubt(d)' = InDoubt(d) => doubt' = doubt
  BY <1>1 DEF doubt
<1>6. outcome' = [outcome EXCEPT ![d] = Outcome(d)']
  BY <1>1 DEF outcome
<1>7. doubt' = [doubt EXCEPT ![d] = InDoubt(d)']
  BY <1>1 DEF doubt
<1>8. mails' = [mails EXCEPT ![d] = mails'[d]]
  BY <1>1, <1>2
<1>9. /\ outcome[d] = Outcome(d) /\ doubt[d] = InDoubt(d)
      /\ IsOpen(d) => Outbox!Open(d)
  BY DEF outcome, doubt, IsOpen, Outbox!Open
<1>10. CASE Stutters(d)
  BY <1>3, <1>4, <1>5, <1>10 DEF Stutters
<1>11. CASE Requested(d)
  <2>1. PICK o \in Deliveries \cup {None} :
           (o # None => Outcome(o) \in Verdicts) /\ origin' = [origin EXCEPT ![d] = o]
    BY <1>11 DEF Requested
  <2>2. o # None => outcome[o] \in Outbox!Verdicts
    BY <2>1 DEF outcome, Verdicts, Outbox!Verdicts
  <2>3. Outbox!Request(d, o)
    BY <1>3, <1>5, <1>6, <1>9, <1>11, <2>1, <2>2 DEF Requested, Outbox!Request, outcome, doubt
  <2> QED
    BY <2>3 DEF Outbox!Next
<1>12. CASE HandedOver(d)
  <2>1. Outbox!Accept(d)
    BY <1>4, <1>5, <1>8, <1>9, <1>12 DEF HandedOver, Outbox!Accept, outcome, doubt
  <2> QED
    BY <2>1 DEF Outbox!Next
<1>13. CASE Reported(d)
  <2>1. PICK D \in SUBSET Verdicts : InDoubt(d)' = InDoubt(d) \cup D
    BY <1>13 DEF Reported
  <2>2. Outbox!Report(d, Outcome(d)', D)
    BY <1>3, <1>6, <1>7, <1>9, <1>13, <2>1 DEF Reported, Outbox!Report, outcome, doubt
  <2> QED
    BY <1>13, <2>2 DEF Outbox!Next, Reported, Verdicts, Outbox!Verdicts
<1>14. CASE Doubted(d)
  <2>1. PICK D \in SUBSET Verdicts : InDoubt(d)' = InDoubt(d) \cup D
    BY <1>14 DEF Doubted
  <2>2. Outbox!Doubt(d, D)
    BY <1>3, <1>4, <1>7, <1>9, <1>14, <2>1 DEF Doubted, Outbox!Doubt, outcome, doubt
  <2> QED
    BY <2>2 DEF Outbox!Next, Verdicts, Outbox!Verdicts
<1> QED
  BY <1>10, <1>11, <1>12, <1>13, <1>14 DEF OutboxStep

(* Rows, retries, clones, stalled jobs, overlapping workers and lost        *)
(* answers implement the outbox: mails only while the delivery is open and *)
(* within the budget, sent only for a mail that was taken, a verdict that  *)
(* nothing put in doubt stands, and only what has one is sent again.       *)
THEOREM Refinement == Spec => ImplementsOutbox
<1>1. Init => Outbox!Init
  <2> SUFFICES ASSUME Init PROVE Outbox!Init
    OBVIOUS
  <2>1. \A d \in Deliveries : Outcome(d) = "none" /\ InDoubt(d) = {}
    BY DEF Init, Outcome, InDoubt
  <2> QED
    BY <2>1 DEF Init, Outbox!Init
<1>2. IInv /\ IInv' /\ [Next]_vars => [Outbox!Next]_<<outcome, mails, origin, doubt>>
  <2> SUFFICES ASSUME IInv, IInv', [Next]_vars
               PROVE  Outbox!Next \/ UNCHANGED <<outcome, mails, origin, doubt>>
    OBVIOUS
  <2>1. TypeOK /\ TypeOK'
    BY DEF IInv
  <2>2. CASE UNCHANGED vars
    BY <2>2 DEF vars, outcome, doubt, Outcome, InDoubt
  <2>3. CASE Next
    <3>1. PICK d \in Deliveries : DeliveryStep(d)
      BY <2>1, <2>3, OneDelivery
    <3>2. DInv(d)
      BY DEF IInv
    <3> QED
      BY <2>1, <3>1, <3>2, OutboxDelivery, OutboxOthers
  <2> QED
    BY <2>2, <2>3
<1> QED
  BY <1>1, <1>2, Invariance, PTL DEF Spec, ImplementsOutbox, Outbox!Spec, outcome, doubt
====
