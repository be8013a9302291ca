----------------------------- MODULE ComplaintWorkflow -----------------------------
(***************************************************************************)
(* The life of one complaint: the handlers of ComplaintsService that       *)
(* assign it, move it through the status graph, appeal it and edit its     *)
(* response draft, run by concurrent API workers against one database row. *)
(*                                                                         *)
(* A handler is cut at its awaits.  The database runs at READ COMMITTED    *)
(* and every write is "UPDATE ... WHERE id", so inside a transaction the   *)
(* read and the commit are separate steps and the commit checks nothing    *)
(* again; the row update and the history insert become visible together.   *)
(* What follows the commit (SLA tracker, audit log, inbox, mail) is one    *)
(* step each, and any of them may be lost.                                 *)
(***************************************************************************)
EXTENDS ComplaintPolicy, Naturals, Sequences, FiniteSets

CONSTANTS
    Workers,        \* requests the API serves at the same time
    ActiveUsers,    \* accounts with isActive; only they get inbox messages
    NotifyStatuses, \* NOTIFY_TRANSITION_STATUSES
    MaxHistory,     \* bound: no status request is accepted past this many rows
    MaxFaults       \* bound: crashes, database errors and swallowed failures

ASSUME ActiveUsersAssumption == ActiveUsers \subseteq Users
ASSUME NotifyAssumption      == NotifyStatuses \subseteq Status
ASSUME BoundsAssumption      == MaxHistory \in Nat /\ MaxFaults \in Nat

VARIABLES
    row,        \* the complaints row
    history,    \* complaint_history, in insertion order
    tracker,    \* the complaint_sla row, as far as closing touches it
    audited,    \* positions in history with an event in the audit log
    inbox,      \* each account's "complaint assigned" notification
    mailed,     \* statuses the complainant has a mail queued about
    pc,         \* where each worker is in its handler
    job,        \* what its handler holds
    overtaken,  \* history variable: workers whose last read of the row is stale
    faults      \* failures swallowed and handlers cut off so far

workflow == <<row, history>>
effects  == <<tracker, audited, inbox, mailed>>
vars     == <<row, history, tracker, audited, inbox, mailed, pc, job, overtaken, faults>>

Assignee == Users \cup {NoUser}
Row      == [status : Status, assignee : Assignee, draft : BOOLEAN]
Entry    == [action : {"ASSIGNED", "TRANSITIONED"}, from : Status, to : Status,
             actor : Users, late : BOOLEAN]
Job      == [actor : Users, action : {"ASSIGNED", "TRANSITIONED", "UPDATED"},
             from : Status, to : Status, assignee : Assignee, draft : BOOLEAN,
             at : Nat]
Step     == {"idle", "assignRead", "assignCommit", "appealRead", "transitionCommit",
             "metadataWrite", "tracker", "audit", "notify", "mail"}

(* Between a handler's checks and its commit the row may be written by     *)
(* another; the checks are then about a row that no longer exists.         *)
Waiting == {"assignRead", "assignCommit", "transitionCommit"}

NoJob == [actor |-> NoUser]

TypeOK ==
    /\ row \in Row
    /\ history \in Seq(Entry)
    /\ tracker \in {"NONE", "RUNNING", "COMPLETED"}
    /\ audited \subseteq Nat
    /\ inbox \in [ActiveUsers -> {"none", "unread", "read"}]
    /\ mailed \subseteq NotifyStatuses
    /\ pc \in [Workers -> Step]
    /\ job \in [Workers -> Job \cup {NoJob}]
    /\ \A w \in Workers : pc[w] # "idle" => job[w] \in Job
    /\ overtaken \subseteq {w \in Workers : pc[w] \in Waiting}
    /\ faults \in [swallowed : Nat, cut : Nat]
    /\ faults.swallowed + faults.cut <= MaxFaults

(* create() has committed; whether the SLA tracker was started is best     *)
(* effort, so both outcomes are initial.                                   *)
Init ==
    /\ row = [status |-> "SUBMITTED", assignee |-> NoUser, draft |-> FALSE]
    /\ history = <<>>
    /\ tracker \in {"NONE", "RUNNING"}
    /\ audited = {}
    /\ inbox = [u \in ActiveUsers |-> "none"]
    /\ mailed = {}
    /\ pc = [w \in Workers |-> "idle"]
    /\ job = [w \in Workers |-> NoJob]
    /\ overtaken = {}
    /\ faults = [swallowed |-> 0, cut |-> 0]

-----------------------------------------------------------------------------
Accepts(w) == pc[w] = "idle" /\ Len(history) < MaxHistory

Start(w, j, step) ==
    /\ job' = [job EXCEPT ![w] = j]
    /\ pc'  = [pc EXCEPT ![w] = step]

GoTo(w, step) == pc' = [pc EXCEPT ![w] = step] /\ UNCHANGED job

Finish(w) == Start(w, NoJob, "idle")

(* late is not in the database: it says that the row had been written      *)
(* between the checks and this commit.                                     *)
EntryOf(w) == [action |-> job[w].action, from |-> job[w].from, to |-> job[w].to,
               actor |-> job[w].actor, late |-> w \in overtaken]

(* Variant: the history row quotes the status read before the update.      *)
CommitQuotingOldStatus(w, newRow, step) ==
    /\ row' = newRow
    /\ history' = Append(history, [EntryOf(w) EXCEPT !.to = row.status])
    /\ Start(w, [job[w] EXCEPT !.at = Len(history) + 1], step)

Commit(w, newRow, step) ==
    /\ row' = newRow
    /\ history' = Append(history, EntryOf(w))
    /\ Start(w, [job[w] EXCEPT !.at = Len(history) + 1], step)

-----------------------------------------------------------------------------
(* assignComplaint: policy and row access are checked on a read outside    *)
(* the transaction; inside it only the status is looked at.                *)

AssignCheck(w, u, a) ==
    /\ Accepts(w)
    /\ GuardAllows(u, "workflow:transition")
    /\ EvaluateAssign(u, row, a)
    /\ CanAccess(u, row)
    /\ Start(w, [actor |-> u, action |-> "ASSIGNED", from |-> row.status,
                 to |-> "ASSIGNED", assignee |-> a, draft |-> FALSE, at |-> 0],
             "assignRead")
    /\ UNCHANGED <<workflow, effects, faults>>

(* Variant: the status is not looked at again inside the transaction.      *)
AssignReadUnchecked(w) ==
    /\ pc[w] = "assignRead"
    /\ Start(w, [job[w] EXCEPT !.from = row.status], "assignCommit")
    /\ UNCHANGED <<workflow, effects, faults>>

AssignRead(w) ==
    /\ pc[w] = "assignRead"
    /\ IF row.status \in Assignable
       THEN Start(w, [job[w] EXCEPT !.from = row.status], "assignCommit")
       ELSE Finish(w)
    /\ UNCHANGED <<workflow, effects, faults>>

AssignCommit(w) ==
    /\ pc[w] = "assignCommit"
    /\ Commit(w, [row EXCEPT !.status = "ASSIGNED", !.assignee = job[w].assignee], "audit")
    /\ UNCHANGED <<effects, faults>>

-----------------------------------------------------------------------------
(* transitionComplaint: every check is made on the read that opens the     *)
(* transaction.                                                            *)

(* Variant: no draft check.                                                *)
MayTransitionNoDraft(u, to) ==
    /\ CanAccess(u, row)
    /\ EvaluateTransition(u, row, row.status, to)
    /\ <<row.status, to>> \in Graph

MayTransition(u, to) ==
    /\ CanAccess(u, row)
    /\ EvaluateTransition(u, row, row.status, to)
    /\ <<row.status, to>> \in Graph
    /\ (row.status = "DRAFT_RESPONSE" /\ to = "QA_LEGAL_REVIEW") => row.draft

TransitionJob(u, to) ==
    [actor |-> u, action |-> "TRANSITIONED", from |-> row.status, to |-> to,
     assignee |-> NoUser, draft |-> FALSE, at |-> 0]

TransitionRead(w, u, to) ==
    /\ Accepts(w)
    /\ GuardAllows(u, "workflow:transition")
    /\ MayTransition(u, to)
    /\ Start(w, TransitionJob(u, to), "transitionCommit")
    /\ UNCHANGED <<workflow, effects, faults>>

(* appealComplaint: a first read and check, then transitionComplaint.      *)
AppealCheck(w, u) ==
    /\ Accepts(w)
    /\ GuardAllows(u, "complaint:escalate")
    /\ CanAccess(u, row)
    /\ EvaluateTransition(u, [status |-> row.status, assignee |-> NoUser],
                          row.status, "APPEAL")
    /\ Start(w, TransitionJob(u, "APPEAL"), "appealRead")
    /\ UNCHANGED <<workflow, effects, faults>>

AppealRead(w) ==
    /\ pc[w] = "appealRead"
    /\ IF MayTransition(job[w].actor, "APPEAL")
       THEN Start(w, TransitionJob(job[w].actor, "APPEAL"), "transitionCommit")
       ELSE Finish(w)
    /\ UNCHANGED <<workflow, effects, faults>>

TransitionCommit(w) ==
    /\ pc[w] = "transitionCommit"
    /\ Commit(w, [row EXCEPT !.status = job[w].to],
              IF job[w].to = "CLOSED" THEN "tracker" ELSE "audit")
    /\ UNCHANGED <<effects, faults>>

-----------------------------------------------------------------------------
(* updateComplaintMetadata: a read for the access check, then a write of    *)
(* the fields given, whatever the status is by then.  draft says whether    *)
(* the response draft has the twenty characters QA review asks for; the other *)
(* fields and the audit event of the edit bear on no property here.          *)

MetadataCheck(w, u, d) ==
    /\ pc[w] = "idle"
    /\ GuardAllows(u, "complaint:update")
    /\ CanAccess(u, row)
    /\ Start(w, [actor |-> u, action |-> "UPDATED", from |-> row.status,
                 to |-> row.status, assignee |-> NoUser, draft |-> d, at |-> 0],
             "metadataWrite")
    /\ UNCHANGED <<workflow, effects, faults>>

MetadataWrite(w) ==
    /\ pc[w] = "metadataWrite"
    /\ row' = [row EXCEPT !.draft = job[w].draft]
    /\ Finish(w)
    /\ UNCHANGED <<history, effects, faults>>

-----------------------------------------------------------------------------
(* After the commit.                                                       *)

AfterAudit(w) == IF job[w].action = "ASSIGNED" THEN "notify" ELSE "mail"

CompleteTracker(w) ==
    /\ pc[w] = "tracker"
    /\ tracker' = IF tracker = "NONE" THEN "NONE" ELSE "COMPLETED"
    /\ GoTo(w, "audit")
    /\ UNCHANGED <<workflow, audited, inbox, mailed, faults>>

LogEvent(w) ==
    /\ pc[w] = "audit"
    /\ audited' = audited \cup {job[w].at}
    /\ GoTo(w, AfterAudit(w))
    /\ UNCHANGED <<workflow, tracker, inbox, mailed, faults>>

(* notify() upserts on (user, complaint_assigned:<id>) and makes an already  *)
(* read message unread again; an inactive or unknown account gets nothing.   *)
(* (Variant first: a message that exists already is left as it is.)          *)
NotifyAssigneeOnce(w) ==
    /\ pc[w] = "notify"
    /\ inbox' = [u \in ActiveUsers |->
                   IF u = job[w].assignee /\ inbox[u] = "none" THEN "unread" ELSE inbox[u]]
    /\ Finish(w)
    /\ UNCHANGED <<workflow, tracker, audited, mailed, faults>>

NotifyAssignee(w) ==
    /\ pc[w] = "notify"
    /\ inbox' = [u \in ActiveUsers |-> IF u = job[w].assignee THEN "unread" ELSE inbox[u]]
    /\ Finish(w)
    /\ UNCHANGED <<workflow, tracker, audited, mailed, faults>>

MailComplainant(w) ==
    /\ pc[w] = "mail"
    /\ mailed' = mailed \cup ({job[w].to} \cap NotifyStatuses)
    /\ Finish(w)
    /\ UNCHANGED <<workflow, tracker, audited, inbox, faults>>

(* The officer opens the notification.                                     *)
MarkRead(u) ==
    /\ inbox[u] = "unread"
    /\ inbox' = [inbox EXCEPT ![u] = "read"]
    /\ UNCHANGED <<workflow, tracker, audited, mailed, pc, job, faults>>

-----------------------------------------------------------------------------
(* completeTracker's and logEvent's errors are swallowed: the handler goes on. *)
SwallowedFailure(w) ==
    /\ faults.swallowed + faults.cut < MaxFaults
    /\ \/ pc[w] = "tracker" /\ GoTo(w, "audit")
       \/ pc[w] = "audit"   /\ GoTo(w, AfterAudit(w))
    /\ faults' = [faults EXCEPT !.swallowed = @ + 1]
    /\ UNCHANGED <<workflow, effects>>

(* The process dies or the database refuses: the handler goes no further.  *)
Abandon(w) ==
    /\ faults.swallowed + faults.cut < MaxFaults
    /\ pc[w] # "idle"
    /\ Finish(w)
    /\ faults' = [faults EXCEPT !.cut = @ + 1]
    /\ UNCHANGED <<workflow, effects>>

-----------------------------------------------------------------------------
Request(w) ==
    \E u \in Users :
        \/ \E a \in Users : AssignCheck(w, u, a)
        \/ \E to \in Status : TransitionRead(w, u, to)
        \/ AppealCheck(w, u)
        \/ \E d \in BOOLEAN : MetadataCheck(w, u, d)

Continue(w) ==
    \/ AssignRead(w)
    \/ AssignCommit(w)
    \/ AppealRead(w)
    \/ TransitionCommit(w)
    \/ MetadataWrite(w)
    \/ CompleteTracker(w)
    \/ LogEvent(w)
    \/ NotifyAssignee(w)
    \/ MailComplainant(w)

Fault(w) == SwallowedFailure(w) \/ Abandon(w)

Handle ==
    \/ \E w \in Workers : Request(w) \/ Continue(w) \/ Fault(w)
    \/ \E u \in ActiveUsers : MarkRead(u)

(* Whoever waits to commit while the row changes is overtaken until it has  *)
(* committed or given up.                                                  *)
Overtake ==
    overtaken' = {w \in Workers : /\ pc'[w] \in Waiting
                                  /\ row' # row \/ w \in overtaken}

Next == Handle /\ Overtake

Spec == Init /\ [][Next]_vars

(* Node runs a started handler to its end; nobody is obliged to send one.  *)
Fairness == \A w \in Workers : WF_vars(Continue(w) /\ Overtake)

FairSpec == Spec /\ Fairness

-----------------------------------------------------------------------------
(* Safety.                                                                 *)

Entries == {history[i] : i \in DOMAIN history}
LastEntry == history[Len(history)]

(* The row shows what the last committed handler wrote: after any mix of   *)
(* concurrent assignments, transitions, appeals and draft edits, the status *)
(* is the last history row's toStatus (update and insert share a           *)
(* transaction), and SUBMITTED as long as there is none.                   *)
HistoryTracksRow ==
    row.status = IF history = <<>> THEN "SUBMITTED" ELSE LastEntry.to

(* Each history row records a legal edge of the status graph between its   *)
(* own fromStatus and toStatus, an appeal that was checked twice and an    *)
(* assignment that was re-read inside its transaction included.            *)
HistoryFollowsGraph ==
    \A h \in Entries : <<h.from, h.to>> \in Graph

Authorised(h) ==
    \/ IsSuperAdmin(h.actor)
    \/ /\ h.action = "TRANSITIONED"
       /\ \E alt \in RulesFor(h.from, h.to) : PolicyGrants(h.actor, alt.permission)
    \/ /\ h.action = "ASSIGNED"
       /\ \/ PolicyGrants(h.actor, "complaint:assign")
          \/ /\ PolicyGrants(h.actor, "complaint:assign:self")
             /\ h.from = "TRIAGE" \/ h.late

(* Every history row was made by an account whose roles allow that very     *)
(* edge: an officer's self-assignment starts in triage only, never from an  *)
(* appeal.  The one way round it is a commit that came late: assignComplaint *)
(* decides on a read outside its transaction and looks only at the status   *)
(* inside it, so a self-assignment checked in triage may commit on the      *)
(* appeal the case has reached since.                                       *)
HistoryAuthorised == \A h \in Entries : Authorised(h)

(* A case past triage has an owner, whatever order the handlers commit in. *)
(* The one way round it is the super administrator's plain transition to   *)
(* ASSIGNED, which no rule covers and which leaves the assignee null.      *)
AssignBypassed ==
    \E h \in Entries : h.action = "TRANSITIONED" /\ h.to = "ASSIGNED"

CaseHasOwner ==
    row.assignee = NoUser =>
        row.status \in {"SUBMITTED", "TRIAGE"} \/ AssignBypassed

(* No effect without its transaction: the tracker is complete only if a    *)
(* close committed, a mail is about a status some committed transition set, *)
(* a notification follows a committed assignment and every audit event is   *)
(* about a committed history row, whichever step a handler dies at.        *)
NoPhantomEffects ==
    /\ tracker = "COMPLETED" => \E h \in Entries : h.to = "CLOSED"
    /\ \A s \in mailed : \E h \in Entries : h.to = s /\ h.action = "TRANSITIONED"
    /\ \A u \in ActiveUsers :
          inbox[u] # "none" => \E h \in Entries : h.action = "ASSIGNED"
    /\ audited \subseteq DOMAIN history

(* Ownership moves only with a recorded assignment, and never back to      *)
(* nobody: no transition, appeal or draft edit touches the assignee.       *)
OwnerStep ==
    row'.assignee # row.assignee =>
        /\ row'.assignee # NoUser
        /\ row'.status = "ASSIGNED"
        /\ Len(history') = Len(history) + 1
        /\ LastEntry'.action = "ASSIGNED"

OwnerChangesByAssignment == [][OwnerStep]_vars

-----------------------------------------------------------------------------
(* The rules of the workflow on the row itself.  A handler that commits    *)
(* after the row was written behind its back breaks them; nothing else may. *)

OvertakenCommits == \E w \in overtaken : pc'[w] # pc[w]

StatusChanged == row'.status # row.status

(* The status itself, and not only the pair a history row quotes, moves    *)
(* along the graph; CLOSED has no way out.                                 *)
StatusStep == StatusChanged => <<row.status, row'.status>> \in Graph

(* What the documents promise of every transition.                         *)
StatusFollowsGraph == [][StatusStep]_vars

(* What the code keeps of it, with any number of handlers: a step off the  *)
(* graph is always the commit of an overtaken one.                         *)
GraphUnlessOvertaken == [][OvertakenCommits \/ StatusStep]_vars

(* Investigation steps are taken by the officer who owns the case at that  *)
(* moment, or by someone who may assign cases: a former owner does nothing *)
(* more after an appeal gave the case to another.                          *)
MayManage(u) == IsSuperAdmin(u) \/ PolicyGrants(u, "complaint:assign")

WorkStep ==
    (StatusChanged /\ row'.status \in {"IN_INVESTIGATION", "QA_LEGAL_REVIEW"}) =>
        LastEntry'.actor = row.assignee \/ MayManage(LastEntry'.actor)

OwnerDoesTheWork == [][OvertakenCommits \/ WorkStep]_vars

(* An officer who may not assign cases takes only a case in triage that    *)
(* nobody owns, and only for himself.                                      *)
TakeoverStep ==
    row'.assignee # row.assignee =>
        \/ MayManage(LastEntry'.actor)
        \/ /\ row.status = "TRIAGE" /\ row.assignee = NoUser
           /\ row'.assignee = LastEntry'.actor

SelfAssignTakesUnowned == [][OvertakenCommits \/ TakeoverStep]_vars

(* A response goes to QA review only with its draft in place: the draft    *)
(* may be gone by the commit only if an edit came in between.              *)
ReviewStep == (StatusChanged /\ row'.status = "QA_LEGAL_REVIEW") => row.draft

DraftBeforeReview == [][OvertakenCommits \/ ReviewStep]_vars

-----------------------------------------------------------------------------
(* Liveness.                                                               *)

(* An assignment that committed reaches the officer's inbox, a second one  *)
(* after an appeal included, although the message of the first was read,   *)
(* and although the audit log refused its event: only a handler that was   *)
(* cut off may leave the officer untold.                                   *)
AssigneeTold ==
    \A w \in Workers, u \in ActiveUsers :
        (pc[w] = "audit" /\ job[w].action = "ASSIGNED" /\ job[w].assignee = u)
            ~> inbox[u] = "unread" \/ faults.cut > 0
====
