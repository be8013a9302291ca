-------------------------- MODULE ComplaintWorkflow_proof --------------------------
(***************************************************************************)
(* What holds of the complaint workflow for any number of workers, any     *)
(* accounts and roles, and any interleaving and fault.                     *)
(*                                                                         *)
(* The invariants are not inductive alone, because a commit writes what an *)
(* earlier step admitted.  Pending says what a worker waiting to commit    *)
(* still carries from its checks: a part that survives the other workers'  *)
(* steps, because a job belongs to its worker and an owner, once set, is   *)
(* never removed, and a part that holds until the row is written, when the *)
(* worker counts as overtaken.                                             *)
(***************************************************************************)
EXTENDS ComplaintWorkflow, TLAPS

MayAssignSomehow(u) ==
    \/ IsSuperAdmin(u)
    \/ PolicyGrants(u, "complaint:assign")
    \/ PolicyGrants(u, "complaint:assign:self")

PendingAssignment(w) ==
    /\ job[w].action = "ASSIGNED"
    /\ job[w].to = "ASSIGNED"
    /\ job[w].assignee \in Users
    /\ MayAssignSomehow(job[w].actor)
    /\ w \notin overtaken => EvaluateAssign(job[w].actor, row, job[w].assignee)

PendingTransition(w) ==
    /\ job[w].action = "TRANSITIONED"
    /\ <<job[w].from, job[w].to>> \in Graph
    /\ \/ IsSuperAdmin(job[w].actor)
       \/ \E alt \in RulesFor(job[w].from, job[w].to) :
              PolicyGrants(job[w].actor, alt.permission)
    /\ row.assignee = NoUser =>
          job[w].to \in {"SUBMITTED", "TRIAGE", "ASSIGNED"} \/ AssignBypassed
    /\ w \notin overtaken => MayTransition(job[w].actor, job[w].to)

(* After its commit a worker knows its history row by position.            *)
PendingEffect(w) ==
    /\ job[w].at \in DOMAIN history
    /\ history[job[w].at].action = job[w].action
    /\ history[job[w].at].to = job[w].to
    /\ pc[w] = "tracker" => job[w].to = "CLOSED"
    /\ pc[w] = "notify" => job[w].action = "ASSIGNED"
    /\ pc[w] = "mail" => job[w].action = "TRANSITIONED"
    /\ job[w].action \in {"ASSIGNED", "TRANSITIONED"}

PendingAt(w) ==
    /\ pc[w] \in {"assignRead", "assignCommit"} => PendingAssignment(w)
    /\ pc[w] = "assignCommit" =>
          /\ job[w].from \in Assignable
          /\ w \notin overtaken => job[w].from = row.status
    /\ pc[w] = "transitionCommit" => PendingTransition(w)
    /\ pc[w] \in {"tracker", "audit", "notify", "mail"} => PendingEffect(w)

Pending == \A w \in Workers : PendingAt(w)

IInv ==
    /\ TypeOK
    /\ HistoryTracksRow
    /\ HistoryFollowsGraph
    /\ HistoryAuthorised
    /\ CaseHasOwner
    /\ NoPhantomEffects
    /\ Pending

-----------------------------------------------------------------------------
(* A commit appends one well-formed row.                                   *)

LEMMA CommitAppends ==
    ASSUME TypeOK, NEW w \in Workers, NEW r, NEW step, Commit(w, r, step),
           EntryOf(w) \in Entry
    PROVE  /\ history' \in Seq(Entry)
           /\ Len(history') = Len(history) + 1
           /\ history' # <<>>
           /\ \A i \in DOMAIN history : i \in DOMAIN history' /\ history'[i] = history[i]
           /\ Len(history') \in DOMAIN history'
           /\ LastEntry' = EntryOf(w)
           /\ Entries' = Entries \cup {EntryOf(w)}
<1> DEFINE e == EntryOf(w)
<1>1. history \in Seq(Entry) /\ history' = Append(history, e)
  BY DEF TypeOK, Commit
<1>2. /\ history' \in Seq(Entry)
      /\ Len(history') = Len(history) + 1
      /\ \A i \in 1 .. Len(history) : history'[i] = history[i]
      /\ history'[Len(history) + 1] = e
      /\ Len(history) \in Nat
  BY <1>1
<1>3. DOMAIN history = 1 .. Len(history) /\ DOMAIN history' = 1 .. Len(history')
  BY <1>1, <1>2
<1>4. Entries' = Entries \cup {e}
  BY <1>2, <1>3 DEF Entries
<1>5. history' # <<>> /\ LastEntry' = e
  BY <1>2 DEF LastEntry
<1> QED
  BY <1>2, <1>3, <1>4, <1>5

-----------------------------------------------------------------------------
(* Type correctness.                                                       *)

LEMMA PendingEntry ==
    ASSUME TypeOK, Pending, NEW w \in Workers,
           pc[w] \in {"assignCommit", "transitionCommit"}
    PROVE  /\ job[w] \in Job
           /\ EntryOf(w) \in Entry
           /\ Authorised(EntryOf(w))
           /\ <<job[w].from, job[w].to>> \in Graph
<1>1. job[w] \in Job
  BY DEF TypeOK
<1>2. CASE pc[w] = "assignCommit"
  <2>1. PendingAssignment(w) /\ job[w].from \in Assignable
    BY <1>2 DEF Pending, PendingAt
  <2>2. w \notin overtaken => job[w].from = row.status
    BY <1>2 DEF Pending, PendingAt
  <2>3. Authorised(EntryOf(w))
    BY <1>1, <2>1, <2>2 DEF PendingAssignment, MayAssignSomehow, EvaluateAssign, EntryOf,
                            Authorised
  <2> QED
    BY <1>1, <2>1, <2>3 DEF PendingAssignment, EntryOf, Entry, Job, Assignable, Graph
<1>3. CASE pc[w] = "transitionCommit"
  BY <1>1, <1>3 DEF Pending, PendingAt, PendingTransition, EntryOf, Entry, Job, Authorised
<1> QED
  BY <1>1, <1>2, <1>3

LEMMA StartType ==
    ASSUME TypeOK, NEW w \in Workers, NEW j \in Job, NEW step \in Step, Start(w, j, step)
    PROVE  /\ pc' \in [Workers -> Step]
           /\ job' \in [Workers -> Job \cup {NoJob}]
           /\ \A v \in Workers : pc'[v] # "idle" => job'[v] \in Job
           /\ pc'[w] = step /\ job'[w] = j
BY DEF TypeOK, Start

(* The job a commit leaves differs from the one before by its position.    *)
LEMMA CommitJob ==
    ASSUME TypeOK, NEW w \in Workers, job[w] \in Job, NEW r, NEW step \in Step,
           Commit(w, r, step)
    PROVE  /\ pc' \in [Workers -> Step]
           /\ job' \in [Workers -> Job \cup {NoJob}]
           /\ \A v \in Workers : pc'[v] # "idle" => job'[v] \in Job
           /\ pc'[w] = step
           /\ job'[w].at = Len(history) + 1
           /\ job'[w].action = job[w].action
           /\ job'[w].to = job[w].to
<1> DEFINE j == [job[w] EXCEPT !.at = Len(history) + 1]
<1>1. j \in Job /\ j.at = Len(history) + 1
  <2>1. Len(history) \in Nat
    BY DEF TypeOK
  <2> QED
    BY <2>1 DEF Job
<1>2. Start(w, j, step)
  BY DEF Commit
<1>3. job'[w] = j
  BY <1>1, <1>2, StartType
<1>4. job'[w].action = job[w].action /\ job'[w].to = job[w].to
  BY <1>3 DEF Job
<1> QED
  BY <1>1, <1>2, <1>3, <1>4, StartType

CoreType ==
    /\ row \in Row
    /\ history \in Seq(Entry)
    /\ tracker \in {"NONE", "RUNNING", "COMPLETED"}
    /\ audited \subseteq Nat
    /\ inbox \in [ActiveUsers -> {"none", "unread", "read"}]
    /\ mailed \subseteq NotifyStatuses
    /\ pc \in [Workers -> Step]
    /\ job \in [Workers -> Job \cup {NoJob}]
    /\ \A w \in Workers : pc[w] # "idle" => job[w] \in Job
    /\ faults \in [swallowed : Nat, cut : Nat]
    /\ faults.swallowed + faults.cut <= MaxFaults

LEMMA NextCoreType == ASSUME TypeOK, Pending, [Next]_vars PROVE CoreType'
<1> USE ActiveUsersAssumption, NotifyAssumption, BoundsAssumption, NoUserAssumption
<1>1. ASSUME NEW w \in Workers, Request(w) PROVE CoreType'
  <2>1. ASSUME NEW u \in Users, NEW a \in Users, AssignCheck(w, u, a) PROVE CoreType'
    BY <2>1 DEF AssignCheck, Accepts, Start, TypeOK, CoreType, Job, Row, Step, Assignee, Status,
                effects, workflow
  <2>2. ASSUME NEW u \in Users, NEW to \in Status, TransitionRead(w, u, to) PROVE CoreType'
    BY <2>2 DEF TransitionRead, TransitionJob, Accepts, Start, TypeOK, CoreType, Job, Row, Step,
                Assignee, effects, workflow
  <2>3. ASSUME NEW u \in Users, AppealCheck(w, u) PROVE CoreType'
    BY <2>3 DEF AppealCheck, TransitionJob, Accepts, Start, TypeOK, CoreType, Job, Row, Step,
                Assignee, Status, effects, workflow
  <2>4. ASSUME NEW u \in Users, NEW d \in BOOLEAN, MetadataCheck(w, u, d) PROVE CoreType'
    BY <2>4 DEF MetadataCheck, Start, TypeOK, CoreType, Job, Row, Step, Assignee, effects, workflow
  <2> QED
    BY <1>1, <2>1, <2>2, <2>3, <2>4 DEF Request
<1>2. ASSUME NEW w \in Workers, Continue(w) PROVE CoreType'
  <2>1. CASE AssignRead(w)
    <3>1. CASE Start(w, [job[w] EXCEPT !.from = row.status], "assignCommit")
      <4>1. [job[w] EXCEPT !.from = row.status] \in Job /\ "assignCommit" \in Step
        BY <2>1 DEF AssignRead, TypeOK, CoreType, Job, Row, Step
      <4> QED
        BY <2>1, <3>1, <4>1, StartType DEF AssignRead, TypeOK, CoreType, effects, workflow
    <3>2. CASE Finish(w)
      BY <2>1, <3>2 DEF AssignRead, Finish, Start, NoJob, TypeOK, CoreType, Step, effects, workflow
    <3> QED
      BY <2>1, <3>1, <3>2 DEF AssignRead
  <2>2. CASE AssignCommit(w)
    <3>1. history' \in Seq(Entry)
      BY <2>2, PendingEntry, CommitAppends DEF AssignCommit
    <3>2. row' \in Row
      BY <2>2, PendingEntry DEF AssignCommit, Commit, TypeOK, CoreType, Row, Job, Status
    <3> QED
      BY <2>2, <3>1, <3>2, PendingEntry, CommitJob DEF AssignCommit, TypeOK, CoreType, Step, effects
  <2>3. CASE AppealRead(w)
    <3>1. TransitionJob(job[w].actor, "APPEAL") \in Job
      BY <2>3 DEF AppealRead, TransitionJob, TypeOK, CoreType, Job, Row, Assignee, Status
    <3>2. CASE Start(w, TransitionJob(job[w].actor, "APPEAL"), "transitionCommit")
      BY <2>3, <3>1, <3>2 DEF AppealRead, Start, TypeOK, CoreType, Step, effects, workflow
    <3>3. CASE Finish(w)
      BY <2>3, <3>3 DEF AppealRead, Finish, Start, NoJob, TypeOK, CoreType, Step, effects, workflow
    <3> QED
      BY <2>3, <3>2, <3>3 DEF AppealRead
  <2>4. CASE TransitionCommit(w)
    <3>1. history' \in Seq(Entry)
      BY <2>4, PendingEntry, CommitAppends DEF TransitionCommit
    <3>2. row' \in Row
      BY <2>4, PendingEntry DEF TransitionCommit, Commit, TypeOK, CoreType, Row, Job
    <3> QED
      BY <2>4, <3>1, <3>2, PendingEntry, CommitJob
         DEF TransitionCommit, TypeOK, CoreType, Step, effects
  <2>5. CASE MetadataWrite(w)
    BY <2>5 DEF MetadataWrite, Finish, Start, TypeOK, CoreType, Job, NoJob, Row, Step, effects
  <2>6. CASE CompleteTracker(w)
    BY <2>6 DEF CompleteTracker, GoTo, TypeOK, CoreType, Step, workflow
  <2>7. CASE LogEvent(w)
    BY <2>7 DEF LogEvent, AfterAudit, GoTo, TypeOK, CoreType, Job, Step, workflow
  <2>8. CASE NotifyAssignee(w)
    BY <2>8 DEF NotifyAssignee, Finish, Start, NoJob, TypeOK, CoreType, Step, workflow
  <2>9. CASE MailComplainant(w)
    BY <2>9 DEF MailComplainant, Finish, Start, NoJob, TypeOK, CoreType, Step, workflow
  <2> QED
    BY <1>2, <2>1, <2>2, <2>3, <2>4, <2>5, <2>6, <2>7, <2>8, <2>9 DEF Continue
<1>3. ASSUME NEW w \in Workers, Fault(w) PROVE CoreType'
  <2>1. CASE SwallowedFailure(w)
    BY <2>1 DEF SwallowedFailure, AfterAudit, GoTo, TypeOK, CoreType, Step, workflow, effects
  <2>2. CASE Abandon(w)
    BY <2>2 DEF Abandon, Finish, Start, NoJob, TypeOK, CoreType, Step, workflow, effects
  <2> QED
    BY <1>3, <2>1, <2>2 DEF Fault
<1>4. ASSUME NEW u \in ActiveUsers, MarkRead(u) PROVE CoreType'
  BY <1>4 DEF MarkRead, TypeOK, CoreType, workflow
<1>5. CASE UNCHANGED vars
  BY <1>5 DEF vars, TypeOK, CoreType
<1> QED
  BY <1>1, <1>2, <1>3, <1>4, <1>5 DEF Next, Handle

LEMMA NextType == ASSUME TypeOK, Pending, [Next]_vars PROVE TypeOK'
<1>1. overtaken' \subseteq {w \in Workers : pc'[w] \in Waiting}
  BY DEF Next, Overtake, TypeOK, vars
<1> QED
  BY <1>1, NextCoreType DEF TypeOK, CoreType

-----------------------------------------------------------------------------
(* Steps that neither write the row nor add to the history.                *)

Quiet == UNCHANGED <<row, history>>

RowInv == HistoryTracksRow /\ HistoryFollowsGraph /\ HistoryAuthorised /\ CaseHasOwner

LEMMA QuietRow == ASSUME RowInv, Quiet PROVE RowInv'
BY DEF Quiet, RowInv, HistoryTracksRow, HistoryFollowsGraph, HistoryAuthorised,
       CaseHasOwner, AssignBypassed, Entries, LastEntry

WritingStep ==
    \E w \in Workers : AssignCommit(w) \/ TransitionCommit(w) \/ MetadataWrite(w)

LEMMA OnlyWritersWrite == ASSUME [Next]_vars, ~WritingStep PROVE Quiet
BY DEF WritingStep, Next, Handle, Request, Continue, Fault, AssignCheck, TransitionRead,
       AppealCheck, MetadataCheck, AssignRead, AppealRead, CompleteTracker, LogEvent,
       NotifyAssignee, MailComplainant, SwallowedFailure, Abandon, MarkRead,
       Quiet, workflow, vars

(* A commit keeps the row and the history in step.                         *)
LEMMA CommitRow ==
    ASSUME TypeOK, Pending, RowInv, NEW w \in Workers,
           AssignCommit(w) \/ TransitionCommit(w)
    PROVE  RowInv'
<1>1. pc[w] \in {"assignCommit", "transitionCommit"}
  BY DEF AssignCommit, TransitionCommit
<1>2. PICK r, step : Commit(w, r, step)
  BY DEF AssignCommit, TransitionCommit
<1>3. /\ history' # <<>>
      /\ LastEntry' = EntryOf(w)
      /\ Entries' = Entries \cup {EntryOf(w)}
  BY <1>1, <1>2, PendingEntry, CommitAppends
<1>4. row'.status = job[w].to
  BY <1>1 DEF AssignCommit, TransitionCommit, Commit, Pending, PendingAt, PendingAssignment,
              TypeOK, Row
<1>5. HistoryTracksRow'
  BY <1>3, <1>4 DEF HistoryTracksRow, EntryOf
<1>6. HistoryFollowsGraph'
  <2>1. <<EntryOf(w).from, EntryOf(w).to>> \in Graph
    BY <1>1, PendingEntry DEF EntryOf
  <2> QED
    BY <1>3, <2>1 DEF HistoryFollowsGraph, RowInv
<1>7. HistoryAuthorised'
  BY <1>1, <1>3, PendingEntry DEF HistoryAuthorised, RowInv
<1>8. CaseHasOwner'
  <2>1. CASE AssignCommit(w)
    <3>1. row'.assignee \in Users
      BY <2>1 DEF AssignCommit, Commit, Pending, PendingAt, PendingAssignment, TypeOK, Row
    <3> QED
      BY <3>1, NoUserAssumption DEF CaseHasOwner
  <2>2. CASE TransitionCommit(w)
    <3>1. row'.assignee = row.assignee
      BY <2>2 DEF TransitionCommit, Commit, TypeOK, Row
    <3>2. AssignBypassed => AssignBypassed'
      BY <1>3 DEF AssignBypassed
    <3>3. job[w].to = "ASSIGNED" => AssignBypassed'
      <4>1. EntryOf(w).action = "TRANSITIONED" /\ EntryOf(w).to = job[w].to
        BY <2>2 DEF EntryOf, TransitionCommit, Pending, PendingAt, PendingTransition
      <4> QED
        BY <1>3, <4>1 DEF AssignBypassed
    <3> QED
      BY <1>4, <2>2, <3>1, <3>2, <3>3 DEF CaseHasOwner, TransitionCommit, Pending,
                                          PendingAt, PendingTransition
  <2> QED
    BY <2>1, <2>2
<1> QED
  BY <1>5, <1>6, <1>7, <1>8 DEF RowInv

(* Saving a draft touches neither the status nor the owner.                *)
LEMMA MetadataRow ==
    ASSUME TypeOK, RowInv, NEW w \in Workers, MetadataWrite(w)
    PROVE  RowInv'
<1>1. /\ row'.status = row.status
      /\ row'.assignee = row.assignee
      /\ UNCHANGED history
  BY DEF MetadataWrite, TypeOK, Row
<1> QED
  BY <1>1 DEF RowInv, HistoryTracksRow, HistoryFollowsGraph, HistoryAuthorised,
              CaseHasOwner, AssignBypassed, Entries, LastEntry

LEMMA NextRow == ASSUME TypeOK, Pending, RowInv, [Next]_vars PROVE RowInv'
BY CommitRow, MetadataRow, OnlyWritersWrite, QuietRow DEF WritingStep

-----------------------------------------------------------------------------
(* Pending.                                                                *)

(* The history only grows.                                                 *)
LEMMA HistoryGrows ==
    ASSUME TypeOK, Pending, [Next]_vars
    PROVE  \A i \in DOMAIN history : i \in DOMAIN history' /\ history'[i] = history[i]
<1>1. ASSUME NEW w \in Workers, AssignCommit(w) \/ TransitionCommit(w)
      PROVE  \A i \in DOMAIN history : i \in DOMAIN history' /\ history'[i] = history[i]
  <2>1. pc[w] \in {"assignCommit", "transitionCommit"}
    BY <1>1 DEF AssignCommit, TransitionCommit
  <2>2. PICK r, step : Commit(w, r, step)
    BY <1>1 DEF AssignCommit, TransitionCommit
  <2> QED
    BY <2>1, <2>2, PendingEntry, CommitAppends
<1>2. ASSUME NEW w \in Workers, MetadataWrite(w) PROVE UNCHANGED history
  BY <1>2 DEF MetadataWrite
<1>3. CASE ~WritingStep
  BY <1>3, OnlyWritersWrite DEF Quiet
<1> QED
  BY <1>1, <1>2, <1>3 DEF WritingStep

(* Owners are never removed and a bypass is never forgotten, so what a     *)
(* waiting worker carries stays good while others move.                    *)
LEMMA OwnerStays ==
    ASSUME TypeOK, Pending, [Next]_vars
    PROVE  /\ row'.assignee = NoUser => row.assignee = NoUser
           /\ AssignBypassed => AssignBypassed'
<1>1. AssignBypassed => AssignBypassed'
  BY HistoryGrows DEF AssignBypassed, Entries
<1>2. ASSUME NEW w \in Workers, AssignCommit(w) PROVE row'.assignee # NoUser
  <2>1. row' = [row EXCEPT !.status = "ASSIGNED", !.assignee = job[w].assignee]
    BY <1>2 DEF AssignCommit, Commit
  <2>2. row'.assignee = job[w].assignee
    BY <2>1 DEF TypeOK, Row
  <2>3. job[w].assignee \in Users
    BY <1>2 DEF AssignCommit, Pending, PendingAt, PendingAssignment
  <2> QED
    BY <2>2, <2>3, NoUserAssumption
<1>3. ASSUME NEW w \in Workers, TransitionCommit(w) PROVE row'.assignee = row.assignee
  <2>1. row' = [row EXCEPT !.status = job[w].to]
    BY <1>3 DEF TransitionCommit, Commit
  <2> QED
    BY <2>1 DEF TypeOK, Row
<1>4. ASSUME NEW w \in Workers, MetadataWrite(w) PROVE row'.assignee = row.assignee
  <2>1. row' = [row EXCEPT !.draft = job[w].draft]
    BY <1>4 DEF MetadataWrite
  <2> QED
    BY <2>1 DEF TypeOK, Row
<1>5. CASE ~WritingStep
  BY <1>1, <1>5, OnlyWritersWrite DEF Quiet
<1> QED
  BY <1>1, <1>2, <1>3, <1>4, <1>5 DEF WritingStep

(* A waiting worker that is not overtaken by a step was not before, and the *)
(* row it checked is still there.                                          *)
LEMMA NotOvertaken ==
    ASSUME [Next]_vars, NEW v \in Workers, pc'[v] \in Waiting, v \notin overtaken'
    PROVE  row' = row /\ v \notin overtaken
BY DEF Next, Overtake, vars

(* A worker whose job and step do not change keeps what it carries.        *)
LEMMA OthersKeep ==
    ASSUME TypeOK, Pending, [Next]_vars, NEW v \in Workers,
           pc'[v] = pc[v], job'[v] = job[v]
    PROVE  PendingAt(v)'
<1>1. pc[v] \in {"assignRead", "assignCommit"} /\ PendingAssignment(v) => PendingAssignment(v)'
  <2>1. SUFFICES ASSUME pc[v] \in {"assignRead", "assignCommit"}, PendingAssignment(v),
                        v \notin overtaken'
                 PROVE  EvaluateAssign(job'[v].actor, row', job'[v].assignee)
    BY DEF PendingAssignment, MayAssignSomehow
  <2>2. row' = row /\ v \notin overtaken
    BY <2>1, NotOvertaken DEF Waiting
  <2> QED
    BY <2>1, <2>2 DEF PendingAssignment
<1>2. pc[v] = "transitionCommit" /\ PendingTransition(v) => PendingTransition(v)'
  <2>1. SUFFICES ASSUME pc[v] = "transitionCommit", PendingTransition(v), v \notin overtaken'
                 PROVE  MayTransition(job[v].actor, job[v].to)'
    BY OwnerStays DEF PendingTransition
  <2>2. row' = row /\ v \notin overtaken
    BY <2>1, NotOvertaken DEF Waiting
  <2>3. MayTransition(job[v].actor, job[v].to)
    BY <2>1, <2>2 DEF PendingTransition
  <2> QED
    BY <2>2, <2>3 DEF MayTransition, CanAccess, EvaluateTransition, AlternativePasses,
                      IsAssignee
<1>3. PendingEffect(v) => PendingEffect(v)'
  BY HistoryGrows DEF PendingEffect
<1>4. pc[v] = "assignCommit" /\ v \notin overtaken' => row' = row /\ v \notin overtaken
  BY NotOvertaken DEF Waiting
<1> QED
  BY <1>1, <1>2, <1>3, <1>4 DEF Pending, PendingAt

CarryingSteps == {"assignRead", "assignCommit", "transitionCommit",
                  "tracker", "audit", "notify", "mail"}

(* A worker at none of these steps carries nothing.                        *)
LEMMA NothingPending ==
    ASSUME NEW w \in Workers, pc'[w] \notin CarryingSteps
    PROVE  PendingAt(w)'
BY DEF PendingAt, CarryingSteps

(* What a commit leaves for the steps after it.                            *)
LEMMA CommitKnown ==
    ASSUME TypeOK, Pending, NEW w \in Workers,
           pc[w] \in {"assignCommit", "transitionCommit"},
           NEW r, NEW step \in {"tracker", "audit"}, Commit(w, r, step),
           step = "tracker" => job[w].to = "CLOSED"
    PROVE  PendingAt(w)'
<1>1. /\ history' # <<>>
      /\ Len(history') = Len(history) + 1
      /\ Len(history') \in DOMAIN history'
      /\ LastEntry' = EntryOf(w)
  BY PendingEntry, CommitAppends
<1>2. /\ pc'[w] = step
      /\ job'[w].at = Len(history) + 1
      /\ job'[w].to = job[w].to /\ job'[w].action = job[w].action
  BY PendingEntry, CommitJob DEF Step
<1>3. history'[Len(history')].action = job[w].action /\ history'[Len(history')].to = job[w].to
  BY <1>1 DEF LastEntry, EntryOf
<1>4. job[w].action \in {"ASSIGNED", "TRANSITIONED"}
  BY DEF Pending, PendingAt, PendingAssignment, PendingTransition
<1> QED
  BY <1>1, <1>2, <1>3, <1>4 DEF PendingAt, PendingEffect, LastEntry

(* What transitionComplaint's checks establish for the step to its commit. *)
LEMMA TransitionAdmitted ==
    ASSUME TypeOK, RowInv, NEW w \in Workers, NEW u \in Users, NEW to \in Status,
           MayTransition(u, to), Start(w, TransitionJob(u, to), "transitionCommit"),
           Quiet
    PROVE  PendingAt(w)'
<1>1. pc'[w] = "transitionCommit" /\ job'[w] = TransitionJob(u, to)
  BY DEF Start, TypeOK
<1>2. <<row.status, to>> \in Graph
  BY DEF MayTransition
<1>3. \/ IsSuperAdmin(u)
      \/ \E alt \in RulesFor(row.status, to) : PolicyGrants(u, alt.permission)
  BY DEF MayTransition, EvaluateTransition, AlternativePasses
<1>4. row.assignee = NoUser => to \in {"SUBMITTED", "TRIAGE", "ASSIGNED"} \/ AssignBypassed
  BY <1>2 DEF RowInv, CaseHasOwner, Graph
<1>5. (AssignBypassed <=> AssignBypassed') /\ row' = row
  BY DEF Quiet, AssignBypassed, Entries
<1>6. MayTransition(job[w].actor, job[w].to)'
  BY <1>1, <1>5 DEF MayTransition, CanAccess, EvaluateTransition, AlternativePasses,
                    IsAssignee, TransitionJob
<1>7. PendingTransition(w)'
  BY <1>1, <1>2, <1>3, <1>4, <1>5, <1>6 DEF PendingTransition, TransitionJob
<1> QED
  BY <1>1, <1>7 DEF PendingAt

LEMMA NextPending == ASSUME TypeOK, Pending, RowInv, [Next]_vars PROVE Pending'
<1> SUFFICES ASSUME NEW v \in Workers PROVE PendingAt(v)'
  BY DEF Pending
<1>1. ASSUME NEW w \in Workers, Request(w) PROVE PendingAt(v)'
  <2>1. CASE v # w
    <3>1. pc'[v] = pc[v] /\ job'[v] = job[v]
      BY <1>1, <2>1 DEF Request, AssignCheck, TransitionRead, AppealCheck, MetadataCheck,
                        Start, TypeOK
    <3> QED
      BY <3>1, OthersKeep
  <2>2. CASE v = w
    <3>1. ASSUME NEW u \in Users, NEW a \in Users, AssignCheck(v, u, a) PROVE PendingAt(v)'
      <4>1. /\ pc'[v] = "assignRead"
            /\ job'[v] = [actor |-> u, action |-> "ASSIGNED", from |-> row.status,
                          to |-> "ASSIGNED", assignee |-> a, draft |-> FALSE, at |-> 0]
        BY <3>1 DEF AssignCheck, Start, TypeOK
      <4>2. MayAssignSomehow(u) /\ EvaluateAssign(u, row, a) /\ row' = row
        BY <3>1 DEF AssignCheck, EvaluateAssign, MayAssignSomehow, workflow
      <4>3. PendingAssignment(v)'
        BY <4>1, <4>2 DEF PendingAssignment, MayAssignSomehow
      <4> QED
        BY <4>1, <4>3 DEF PendingAt
    <3>2. ASSUME NEW u \in Users, NEW to \in Status, TransitionRead(v, u, to)
          PROVE PendingAt(v)'
      BY <3>2, TransitionAdmitted DEF TransitionRead, Quiet, workflow
    <3>3. ASSUME NEW u \in Users, AppealCheck(v, u) PROVE PendingAt(v)'
      BY <3>3, NothingPending DEF AppealCheck, Start, CarryingSteps, TypeOK
    <3>4. ASSUME NEW u \in Users, NEW d \in BOOLEAN, MetadataCheck(v, u, d)
          PROVE PendingAt(v)'
      BY <3>4, NothingPending DEF MetadataCheck, Start, CarryingSteps, TypeOK
    <3> QED
      BY <1>1, <2>2, <3>1, <3>2, <3>3, <3>4 DEF Request
  <2> QED
    BY <2>1, <2>2
<1>2. ASSUME NEW w \in Workers, Continue(w) PROVE PendingAt(v)'
  <2>1. CASE v # w
    <3>1. pc'[v] = pc[v] /\ job'[v] = job[v]
      BY <1>2, <2>1 DEF Continue, AssignRead, AssignCommit, AppealRead, TransitionCommit,
             MetadataWrite, CompleteTracker, LogEvent, NotifyAssignee, MailComplainant,
             Commit, Finish, Start, GoTo, TypeOK
    <3> QED
      BY <3>1, OthersKeep
  <2>2. CASE v = w
    <3>1. CASE AssignRead(v)
      <4>1. CASE Finish(v)
        BY <4>1, NothingPending DEF Finish, Start, CarryingSteps, TypeOK
      <4>2. CASE /\ row.status \in Assignable
                 /\ Start(v, [job[v] EXCEPT !.from = row.status], "assignCommit")
        <5>1. PendingAssignment(v) /\ job[v] \in Job
          BY <3>1 DEF AssignRead, Pending, PendingAt, TypeOK
        <5>2. /\ pc'[v] = "assignCommit"
              /\ job'[v] = [job[v] EXCEPT !.from = row.status]
          BY <4>2 DEF Start, TypeOK
        <5>3. /\ job'[v].from = row.status
              /\ job'[v].action = job[v].action
              /\ job'[v].actor = job[v].actor
              /\ job'[v].to = job[v].to
              /\ job'[v].assignee = job[v].assignee
          BY <5>1, <5>2 DEF Job
        <5>4. row' = row
          BY <3>1 DEF AssignRead, workflow
        <5>5. v \notin overtaken' => v \notin overtaken
          BY <5>2, NotOvertaken DEF Waiting
        <5>6. PendingAssignment(v)'
          BY <5>1, <5>3, <5>4, <5>5 DEF PendingAssignment, MayAssignSomehow
        <5> QED
          BY <4>2, <5>2, <5>3, <5>4, <5>6 DEF PendingAt
      <4> QED
        BY <3>1, <4>1, <4>2 DEF AssignRead
    <3>2. CASE AppealRead(v)
      <4>1. CASE Finish(v)
        BY <4>1, NothingPending DEF Finish, Start, CarryingSteps, TypeOK
      <4>2. CASE /\ MayTransition(job[v].actor, "APPEAL")
                 /\ Start(v, TransitionJob(job[v].actor, "APPEAL"), "transitionCommit")
        <5>1. job[v].actor \in Users /\ "APPEAL" \in Status
          BY <3>2 DEF AppealRead, TypeOK, Job, Status
        <5> QED
          BY <3>2, <4>2, <5>1, TransitionAdmitted DEF AppealRead, Quiet, workflow
      <4> QED
        BY <3>2, <4>1, <4>2 DEF AppealRead
    <3>3. CASE AssignCommit(v)
      BY <3>3, CommitKnown DEF AssignCommit
    <3>4. CASE TransitionCommit(v)
      BY <3>4, CommitKnown DEF TransitionCommit
    <3>5. CASE CompleteTracker(v)
      <4>1. PendingEffect(v) /\ pc'[v] = "audit" /\ job'[v] = job[v] /\ history' = history
        BY <3>5 DEF CompleteTracker, GoTo, Pending, PendingAt, workflow, TypeOK
      <4> QED
        BY <4>1 DEF PendingAt, PendingEffect
    <3>6. CASE LogEvent(v)
      <4>1. /\ PendingEffect(v)
            /\ pc'[v] = AfterAudit(v) /\ job'[v] = job[v] /\ history' = history
        BY <3>6 DEF LogEvent, GoTo, Pending, PendingAt, workflow, TypeOK
      <4> QED
        BY <4>1 DEF PendingAt, PendingEffect, AfterAudit
    <3>7. CASE MetadataWrite(v) \/ NotifyAssignee(v) \/ MailComplainant(v)
      <4>1. Finish(v)
        BY <3>7 DEF MetadataWrite, NotifyAssignee, MailComplainant
      <4> QED
        BY <4>1, NothingPending DEF Finish, Start, CarryingSteps, TypeOK
    <3> QED
      BY <1>2, <2>2, <3>1, <3>2, <3>3, <3>4, <3>5, <3>6, <3>7 DEF Continue
  <2> QED
    BY <2>1, <2>2
<1>3. ASSUME NEW w \in Workers, Fault(w) PROVE PendingAt(v)'
  <2>1. CASE v # w
    <3>1. pc'[v] = pc[v] /\ job'[v] = job[v]
      BY <1>3, <2>1 DEF Fault, SwallowedFailure, Abandon, Finish, Start, GoTo, TypeOK
    <3> QED
      BY <3>1, OthersKeep
  <2>2. CASE v = w
    <3>1. CASE Abandon(v)
      BY <3>1, NothingPending DEF Abandon, Finish, Start, CarryingSteps, TypeOK
    <3>2. CASE SwallowedFailure(v)
      <4>1. /\ PendingEffect(v)
            /\ pc'[v] \in {"audit", AfterAudit(v)}
            /\ job'[v] = job[v] /\ history' = history
        BY <3>2 DEF SwallowedFailure, GoTo, Pending, PendingAt, workflow, TypeOK
      <4> QED
        BY <4>1 DEF PendingAt, PendingEffect, AfterAudit
    <3> QED
      BY <1>3, <2>2, <3>1, <3>2 DEF Fault
  <2> QED
    BY <2>1, <2>2
<1>4. ASSUME NEW u \in ActiveUsers, MarkRead(u) PROVE PendingAt(v)'
  BY <1>4, OthersKeep DEF MarkRead
<1>5. CASE UNCHANGED vars
  BY <1>5, OthersKeep DEF vars
<1> QED
  BY <1>1, <1>2, <1>3, <1>4, <1>5 DEF Next, Handle

-----------------------------------------------------------------------------
(* Effects.                                                                *)

(* More history cannot make an effect a phantom.                           *)
LEMMA EffectsKept ==
    ASSUME TypeOK, Pending, NoPhantomEffects, [Next]_vars, UNCHANGED effects
    PROVE  NoPhantomEffects'
<1>1. Entries \subseteq Entries' /\ DOMAIN history \subseteq DOMAIN history'
  BY HistoryGrows DEF Entries
<1> QED
  BY <1>1 DEF NoPhantomEffects, effects

LEMMA NextEffects ==
    ASSUME TypeOK, Pending, NoPhantomEffects, [Next]_vars
    PROVE  NoPhantomEffects'
<1>1. ASSUME NEW w \in Workers, CompleteTracker(w) PROVE NoPhantomEffects'
  <2>1. \E h \in Entries : h.to = "CLOSED"
    BY <1>1 DEF CompleteTracker, Pending, PendingAt, PendingEffect, Entries
  <2> QED
    BY <1>1, <2>1 DEF CompleteTracker, NoPhantomEffects, Entries, workflow
<1>2. ASSUME NEW w \in Workers, LogEvent(w) PROVE NoPhantomEffects'
  <2>1. job[w].at \in DOMAIN history
    BY <1>2 DEF LogEvent, Pending, PendingAt, PendingEffect
  <2> QED
    BY <1>2, <2>1 DEF LogEvent, NoPhantomEffects, Entries, workflow
<1>3. ASSUME NEW w \in Workers, NotifyAssignee(w) PROVE NoPhantomEffects'
  <2>1. \E h \in Entries : h.action = "ASSIGNED"
    BY <1>3 DEF NotifyAssignee, Pending, PendingAt, PendingEffect, Entries
  <2> QED
    BY <1>3, <2>1 DEF NotifyAssignee, NoPhantomEffects, Entries, workflow
<1>4. ASSUME NEW w \in Workers, MailComplainant(w) PROVE NoPhantomEffects'
  <2>1. \E h \in Entries : h.to = job[w].to /\ h.action = "TRANSITIONED"
    BY <1>4 DEF MailComplainant, Pending, PendingAt, PendingEffect, Entries
  <2> QED
    BY <1>4, <2>1 DEF MailComplainant, NoPhantomEffects, Entries, workflow
<1>5. ASSUME NEW u \in ActiveUsers, MarkRead(u) PROVE NoPhantomEffects'
  BY <1>5 DEF MarkRead, NoPhantomEffects, Entries, TypeOK, workflow
<1>6. CASE UNCHANGED effects
  BY <1>6, EffectsKept
<1> QED
  BY <1>1, <1>2, <1>3, <1>4, <1>5, <1>6
     DEF Next, Handle, Request, Continue, Fault, AssignCheck, TransitionRead, AppealCheck,
         MetadataCheck, AssignRead, AssignCommit, AppealRead, TransitionCommit,
         MetadataWrite, SwallowedFailure, Abandon, vars, effects

-----------------------------------------------------------------------------
(* The theorems.                                                           *)

LEMMA InitIInv == Init => IInv
<1> SUFFICES ASSUME Init PROVE IInv
  OBVIOUS
<1>1. TypeOK
  BY BoundsAssumption DEF Init, TypeOK, Row, Status, Assignee, Step
<1>2. Entries = {}
  BY DEF Init, Entries
<1> QED
  BY <1>1, <1>2 DEF Init, IInv, HistoryTracksRow, HistoryFollowsGraph, HistoryAuthorised,
                    CaseHasOwner, NoPhantomEffects, Pending, PendingAt

LEMMA NextIInv == IInv /\ [Next]_vars => IInv'
BY NextType, NextRow, NextEffects, NextPending DEF IInv, RowInv

(* The inductive invariant holds in every reachable state.                *)
THEOREM Invariance == Spec => []IInv
BY InitIInv, NextIInv, PTL DEF Spec

(* Every variable keeps its type, with any number of workers and faults.   *)
THEOREM TypeCorrect == Spec => []TypeOK
<1>1. IInv => TypeOK
  BY DEF IInv
<1> QED
  BY <1>1, Invariance, PTL

(* The complaint's status is always the last one its history records.      *)
THEOREM StatusIsRecorded == Spec => []HistoryTracksRow
<1>1. IInv => HistoryTracksRow
  BY DEF IInv
<1> QED
  BY <1>1, Invariance, PTL

(* No interleaving of handlers records an edge outside the status graph.   *)
THEOREM RecordedEdgesLegal == Spec => []HistoryFollowsGraph
<1>1. IInv => HistoryFollowsGraph
  BY DEF IInv
<1> QED
  BY <1>1, Invariance, PTL

(* Every recorded edge was made by an account whose roles allow it.        *)
THEOREM RecordedEdgesAuthorised == Spec => []HistoryAuthorised
<1>1. IInv => HistoryAuthorised
  BY DEF IInv
<1> QED
  BY <1>1, Invariance, PTL

(* A case past triage has an owner unless the super administrator's plain   *)
(* transition to ASSIGNED brought it there.                                *)
THEOREM CasesHaveOwners == Spec => []CaseHasOwner
<1>1. IInv => CaseHasOwner
  BY DEF IInv
<1> QED
  BY <1>1, Invariance, PTL

(* No tracker completion, mail, notification or audit event without the    *)
(* committed transaction it is about, wherever a handler dies.             *)
THEOREM EffectsFollowCommits == Spec => []NoPhantomEffects
<1>1. IInv => NoPhantomEffects
  BY DEF IInv
<1> QED
  BY <1>1, Invariance, PTL

(* Ownership moves only with a recorded assignment and never to nobody.    *)
LEMMA NextOwner == IInv /\ [Next]_vars => [OwnerStep]_vars
<1> SUFFICES ASSUME IInv, [Next]_vars PROVE OwnerStep
  OBVIOUS
<1>1. ASSUME NEW w \in Workers, AssignCommit(w) PROVE OwnerStep
  <2>1. pc[w] = "assignCommit" /\ job[w].assignee \in Users /\ job[w].action = "ASSIGNED"
    BY <1>1 DEF AssignCommit, IInv, Pending, PendingAt, PendingAssignment
  <2>2. row' = [row EXCEPT !.status = "ASSIGNED", !.assignee = job[w].assignee]
    BY <1>1 DEF AssignCommit, Commit
  <2>3. row'.status = "ASSIGNED" /\ row'.assignee \in Users
    BY <2>1, <2>2 DEF IInv, TypeOK, Row
  <2>4. PICK r, step : Commit(w, r, step)
    BY <1>1 DEF AssignCommit
  <2>5. Len(history') = Len(history) + 1 /\ LastEntry' = EntryOf(w)
    BY <2>1, <2>4, PendingEntry, CommitAppends DEF IInv
  <2> QED
    BY <2>1, <2>3, <2>5, NoUserAssumption DEF OwnerStep, EntryOf
<1>2. ASSUME NEW w \in Workers, TransitionCommit(w) PROVE OwnerStep
  <2>1. row' = [row EXCEPT !.status = job[w].to]
    BY <1>2 DEF TransitionCommit, Commit
  <2> QED
    BY <2>1 DEF IInv, TypeOK, Row, OwnerStep
<1>3. ASSUME NEW w \in Workers, MetadataWrite(w) PROVE OwnerStep
  <2>1. row' = [row EXCEPT !.draft = job[w].draft]
    BY <1>3 DEF MetadataWrite
  <2> QED
    BY <2>1 DEF IInv, TypeOK, Row, OwnerStep
<1>4. CASE ~WritingStep
  BY <1>4, OnlyWritersWrite DEF Quiet, OwnerStep
<1> QED
  BY <1>1, <1>2, <1>3, <1>4 DEF WritingStep

(* The owner changes only in a committed, recorded assignment.            *)
THEOREM OwnershipRecorded == Spec => OwnerChangesByAssignment
BY Invariance, NextOwner, PTL DEF Spec, OwnerChangesByAssignment

-----------------------------------------------------------------------------
(* The rules of the workflow on the row.  Whoever commits without having    *)
(* been overtaken commits on the row it checked; a write by anyone who was  *)
(* overtaken is the exception each rule names.                             *)

RuleStep == StatusStep /\ WorkStep /\ TakeoverStep /\ ReviewStep

LEMMA NextRules ==
    ASSUME IInv, [Next]_vars
    PROVE  OvertakenCommits \/ RuleStep
<1>1. ASSUME NEW w \in Workers, AssignCommit(w) PROVE OvertakenCommits \/ RuleStep
  <2>0. PICK r, step : Commit(w, r, step)
    BY <1>1 DEF AssignCommit
  <2>1. CASE w \in overtaken
    <3>1. pc[w] = "assignCommit" /\ pc'[w] = "audit"
      BY <1>1 DEF AssignCommit, Commit, Start, IInv, TypeOK
    <3> QED
      BY <2>1, <3>1 DEF OvertakenCommits
  <2>2. CASE w \notin overtaken
    <3>1. /\ row.status \in Assignable
          /\ EvaluateAssign(job[w].actor, row, job[w].assignee)
      BY <1>1, <2>2 DEF AssignCommit, IInv, Pending, PendingAt, PendingAssignment
    <3>2. row' = [row EXCEPT !.status = "ASSIGNED", !.assignee = job[w].assignee]
      BY <1>1 DEF AssignCommit, Commit
    <3>3. row'.status = "ASSIGNED" /\ row'.assignee = job[w].assignee
      BY <3>2 DEF IInv, TypeOK, Row
    <3>4. LastEntry' = EntryOf(w)
      BY <1>1, <2>0, PendingEntry, CommitAppends DEF AssignCommit, IInv
    <3>5. LastEntry'.actor = job[w].actor
      BY <3>4 DEF EntryOf
    <3>6. TakeoverStep
      BY <3>1, <3>3, <3>5 DEF TakeoverStep, EvaluateAssign, MayManage
    <3> QED
      BY <3>1, <3>3, <3>6 DEF RuleStep, StatusStep, WorkStep, ReviewStep, StatusChanged,
                              Assignable, Graph
  <2> QED
    BY <2>1, <2>2
<1>2. ASSUME NEW w \in Workers, TransitionCommit(w) PROVE OvertakenCommits \/ RuleStep
  <2>0. PICK r, step : Commit(w, r, step)
    BY <1>2 DEF TransitionCommit
  <2>1. CASE w \in overtaken
    <3>1. pc[w] = "transitionCommit" /\ pc'[w] \in {"tracker", "audit"}
      BY <1>2 DEF TransitionCommit, Commit, Start, IInv, TypeOK
    <3> QED
      BY <2>1, <3>1 DEF OvertakenCommits
  <2>2. CASE w \notin overtaken
    <3>1. MayTransition(job[w].actor, job[w].to)
      BY <1>2, <2>2 DEF TransitionCommit, IInv, Pending, PendingAt, PendingTransition
    <3>2. row' = [row EXCEPT !.status = job[w].to]
      BY <1>2 DEF TransitionCommit, Commit
    <3>3. row'.status = job[w].to /\ row'.assignee = row.assignee
      BY <3>2 DEF IInv, TypeOK, Row
    <3>4. LastEntry' = EntryOf(w)
      BY <1>2, <2>0, PendingEntry, CommitAppends DEF TransitionCommit, IInv
    <3>5. LastEntry'.actor = job[w].actor
      BY <3>4 DEF EntryOf
    <3>6. <<row.status, job[w].to>> \in Graph
      BY <3>1 DEF MayTransition
    <3>7. ReviewStep
      BY <3>1, <3>3, <3>6 DEF MayTransition, ReviewStep, StatusChanged, Graph
    <3>8. WorkStep
      <4>1. SUFFICES ASSUME job[w].to \in {"IN_INVESTIGATION", "QA_LEGAL_REVIEW"}
                     PROVE  job[w].actor = row.assignee \/ MayManage(job[w].actor)
        BY <3>3, <3>5 DEF WorkStep
      <4>2. \A alt \in RulesFor(row.status, job[w].to) : alt.assigneeOnly = TRUE
        BY <4>1 DEF RulesFor, TransitionRules, Alternative
      <4> QED
        BY <3>1, <4>2 DEF MayTransition, EvaluateTransition, AlternativePasses, IsAssignee,
                          MayManage
    <3> QED
      BY <3>3, <3>6, <3>7, <3>8 DEF RuleStep, StatusStep, TakeoverStep
  <2> QED
    BY <2>1, <2>2
<1>3. ASSUME NEW w \in Workers, MetadataWrite(w) PROVE RuleStep
  <2>1. row' = [row EXCEPT !.draft = job[w].draft]
    BY <1>3 DEF MetadataWrite
  <2>2. row'.status = row.status /\ row'.assignee = row.assignee
    BY <2>1 DEF IInv, TypeOK, Row
  <2> QED
    BY <2>2 DEF RuleStep, StatusStep, WorkStep, TakeoverStep, ReviewStep, StatusChanged
<1>4. CASE ~WritingStep
  BY <1>4, OnlyWritersWrite DEF Quiet, RuleStep, StatusStep, WorkStep, TakeoverStep,
                                ReviewStep, StatusChanged
<1> QED
  BY <1>1, <1>2, <1>3, <1>4 DEF WritingStep

LEMMA RuleSteps == Spec => [][OvertakenCommits \/ RuleStep]_vars
<1>1. IInv /\ [Next]_vars => [OvertakenCommits \/ RuleStep]_vars
  BY NextRules
<1> QED
  BY <1>1, Invariance, PTL DEF Spec

(* The status leaves the graph only in a commit of an overtaken handler, so *)
(* a closed complaint is opened again only by one that read it before.     *)
THEOREM StatusLeavesGraphOnlyOvertaken == Spec => GraphUnlessOvertaken
<1>1. OvertakenCommits \/ RuleStep => OvertakenCommits \/ StatusStep
  BY DEF RuleStep
<1> QED
  BY <1>1, RuleSteps, PTL DEF GraphUnlessOvertaken

(* Investigation steps are the current owner's or a manager's unless the    *)
(* row was written between the officer's read and his commit.              *)
THEOREM OwnersWork == Spec => OwnerDoesTheWork
<1>1. OvertakenCommits \/ RuleStep => OvertakenCommits \/ WorkStep
  BY DEF RuleStep
<1> QED
  BY <1>1, RuleSteps, PTL DEF OwnerDoesTheWork

(* An officer takes only a free case in triage, and for himself, unless the *)
(* row was written between his check and his commit.                       *)
THEOREM NoTakeover == Spec => SelfAssignTakesUnowned
<1>1. OvertakenCommits \/ RuleStep => OvertakenCommits \/ TakeoverStep
  BY DEF RuleStep
<1> QED
  BY <1>1, RuleSteps, PTL DEF SelfAssignTakesUnowned

(* A response enters QA review without its draft only if the row was       *)
(* written between the check and the commit.                               *)
THEOREM DraftedUnlessOvertaken == Spec => DraftBeforeReview
<1>1. OvertakenCommits \/ RuleStep => OvertakenCommits \/ ReviewStep
  BY DEF RuleStep
<1> QED
  BY <1>1, RuleSteps, PTL DEF DraftBeforeReview
====
