-------------------------------- MODULE SlaTracker --------------------------------
(***************************************************************************)
(* The SLA clocks of the complaints: create() starts a tracker, the        *)
(* repeatable monitor job (SlaService.evaluateActive) warns about it and   *)
(* marks it breached, the handler that closes the complaint completes it.  *)
(*                                                                         *)
(* The monitor reads every active tracker once, with the owner of its      *)
(* complaint, and then works through that list with one database call a    *)
(* step; complaints are assigned and closed meanwhile, and a run that is   *)
(* slow or taken for stalled overlaps the next one.  Audit events and log  *)
(* lines are left out.                                                     *)
(***************************************************************************)
EXTENDS Naturals, FiniteSets

CONSTANTS
    Complaints,
    Users,          \* active staff accounts
    NoUser,         \* the null assignee
    Escalation,     \* holders of the config's escalation role
    Monitors,       \* workers of the sla-monitor queue
    Never,          \* the null timestamp
    WarnAfter,      \* targetHours * warningThresholdPct / 100, in ticks
    TargetAfter,    \* targetHours, in ticks
    MaxTime,        \* bound on the clock
    MaxFaults       \* bound: crashes of a run, failures of completeTracker

ASSUME NullAssumption       == NoUser \notin Users /\ Never \notin Nat
ASSUME EscalationAssumption == Escalation \subseteq Users
ASSUME DeadlineAssumption   ==
    /\ WarnAfter \in Nat /\ TargetAfter \in Nat
    /\ WarnAfter <= TargetAfter
ASSUME BoundsAssumption     == MaxTime \in Nat /\ MaxFaults \in Nat

VARIABLES
    clock,
    complaint,  \* phase and owner of each complaint
    tracker,    \* the ComplaintSla row of each complaint
    inbox,      \* the sla_warning and sla_breached notifications
    closing,    \* where the handler that closed a complaint is
    run,        \* where each monitor is in its run
    faults

vars == <<clock, complaint, tracker, inbox, closing, run, faults>>

Assignee  == Users \cup {NoUser}
Timestamp == Nat \cup {Never}
Alert     == Users \X Complaints \X {"warning", "breach"}

Tracker == [status : {"ABSENT", "ACTIVE", "BREACHED", "COMPLETED"},
            warningAt : Timestamp, targetAt : Timestamp,
            warnedAt : Timestamp, breachedAt : Timestamp, completedAt : Timestamp]

NoTracker == [status |-> "ABSENT", warningAt |-> Never, targetAt |-> Never,
              warnedAt |-> Never, breachedAt |-> Never, completedAt |-> Never]

(* What findMany returned about one tracker and its complaint.             *)
Snapshot == [of : Complaints, warnedAt : Timestamp, breachedAt : Timestamp,
             assignee : Assignee]

NoItem == [of |-> NoUser]
NoRun  == [pc |-> "idle", now |-> 0, todo |-> {}, item |-> NoItem, left |-> {}]

Run == [pc : {"idle", "next", "warn", "notifyOwner", "breach"}, now : Nat,
        todo : SUBSET Snapshot, item : Snapshot \cup {NoItem}, left : SUBSET Users]

HasItem(r) ==
    r.pc \in {"warn", "notifyOwner", "breach"} \/ r.left # {} => r.item \in Snapshot

TypeOK ==
    /\ clock \in Nat
    /\ complaint \in [Complaints -> [phase : {"new", "open", "closed"}, assignee : Assignee]]
    /\ tracker \in [Complaints -> Tracker]
    /\ inbox \in [Alert -> {"none", "unread", "read"}]
    /\ closing \in [Complaints -> {"none", "read", "write"}]
    /\ run \in [Monitors -> Run]
    /\ \A m \in Monitors : HasItem(run[m])
    /\ faults \in Nat

Init ==
    /\ clock = 0
    /\ complaint = [c \in Complaints |-> [phase |-> "new", assignee |-> NoUser]]
    /\ tracker = [c \in Complaints |-> NoTracker]
    /\ inbox = [a \in Alert |-> "none"]
    /\ closing = [c \in Complaints |-> "none"]
    /\ run = [m \in Monitors |-> NoRun]
    /\ faults = 0

-----------------------------------------------------------------------------
(* The complaint side.                                                     *)

Tick ==
    /\ clock < MaxTime
    /\ clock' = clock + 1
    /\ UNCHANGED <<complaint, tracker, inbox, closing, run, faults>>

Started == [NoTracker EXCEPT !.status = "ACTIVE",
                             !.warningAt = clock + WarnAfter,
                             !.targetAt = clock + TargetAfter]

(* create(): without an active config, or on an error, there is no tracker. *)
Submit(c) ==
    /\ complaint[c].phase = "new"
    /\ complaint' = [complaint EXCEPT ![c].phase = "open"]
    /\ tracker' \in {tracker, [tracker EXCEPT ![c] = Started]}
    /\ UNCHANGED <<clock, inbox, closing, run, faults>>

Assign(c, u) ==
    /\ complaint[c].phase = "open"
    /\ complaint' = [complaint EXCEPT ![c].assignee = u]
    /\ UNCHANGED <<clock, tracker, inbox, closing, run, faults>>

Close(c) ==
    /\ complaint[c].phase = "open"
    /\ complaint' = [complaint EXCEPT ![c].phase = "closed"]
    /\ closing' = [closing EXCEPT ![c] = "read"]
    /\ UNCHANGED <<clock, tracker, inbox, run, faults>>

(* completeTracker: a read, an early return, and an unconditional update.   *)
CompleteRead(c) ==
    /\ closing[c] = "read"
    /\ closing' = [closing EXCEPT ![c] =
                     IF tracker[c].status \in {"ABSENT", "COMPLETED"} THEN "none" ELSE "write"]
    /\ UNCHANGED <<clock, complaint, tracker, inbox, run, faults>>

CompleteWrite(c) ==
    /\ closing[c] = "write"
    /\ tracker' = [tracker EXCEPT ![c].status = "COMPLETED", ![c].completedAt = clock]
    /\ closing' = [closing EXCEPT ![c] = "none"]
    /\ UNCHANGED <<clock, complaint, inbox, run, faults>>

MarkRead(a) ==
    /\ inbox[a] = "unread"
    /\ inbox' = [inbox EXCEPT ![a] = "read"]
    /\ UNCHANGED <<clock, complaint, tracker, closing, run, faults>>

-----------------------------------------------------------------------------
(* evaluateActive.                                                         *)

SnapshotOf(c) == [of |-> c, warnedAt |-> tracker[c].warnedAt,
                  breachedAt |-> tracker[c].breachedAt, assignee |-> complaint[c].assignee]

(* Variant: only trackers that were not warned about are read.             *)
BeginRunUnwarned(m) ==
    /\ run[m].pc = "idle"
    /\ run' = [run EXCEPT ![m] =
         [pc |-> "next", now |-> clock, item |-> NoItem, left |-> {},
          todo |-> {SnapshotOf(c) : c \in {d \in Complaints :
                       tracker[d].status = "ACTIVE" /\ tracker[d].warnedAt = Never}}]]
    /\ UNCHANGED <<clock, complaint, tracker, inbox, closing, faults>>

BeginRun(m) ==
    /\ run[m].pc = "idle"
    /\ run' = [run EXCEPT ![m] =
         [pc |-> "next", now |-> clock, item |-> NoItem, left |-> {},
          todo |-> {SnapshotOf(c) : c \in {d \in Complaints : tracker[d].status = "ACTIVE"}}]]
    /\ UNCHANGED <<clock, complaint, tracker, inbox, closing, faults>>

NextTracker(m) ==
    /\ run[m].pc = "next"
    /\ run[m].left = {}
    /\ \E s \in run[m].todo :
          run' = [run EXCEPT ![m].item = s, ![m].todo = @ \ {s}, ![m].pc = "warn"]
    /\ UNCHANGED <<clock, complaint, tracker, inbox, closing, faults>>

EndRun(m) ==
    /\ run[m].pc = "next"
    /\ run[m].left = {}
    /\ run[m].todo = {}
    /\ run' = [run EXCEPT ![m] = NoRun]
    /\ UNCHANGED <<clock, complaint, tracker, inbox, closing, faults>>

Of(m) == run[m].item.of

WarningDue(m) == run[m].item.warnedAt = Never /\ run[m].now >= tracker[Of(m)].warningAt

BreachDue(m) == run[m].item.breachedAt = Never /\ run[m].now >= tracker[Of(m)].targetAt

SkipWarning(m) ==
    /\ run[m].pc = "warn"
    /\ ~WarningDue(m)
    /\ run' = [run EXCEPT ![m].pc = "breach"]
    /\ UNCHANGED <<clock, complaint, tracker, inbox, closing, faults>>

(* updateMany where warnedAt is null; the notification follows in any case. *)
(* (Variant first: only owned cases are warned about.)                     *)
WriteWarningOwned(m) ==
    /\ run[m].pc = "warn"
    /\ WarningDue(m)
    /\ IF run[m].item.assignee = NoUser
       THEN /\ run' = [run EXCEPT ![m].pc = "breach"]
            /\ UNCHANGED tracker
       ELSE /\ run' = [run EXCEPT ![m].pc = "notifyOwner"]
            /\ tracker' = [tracker EXCEPT ![Of(m)].warnedAt =
                              IF @ = Never THEN run[m].now ELSE @]
    /\ UNCHANGED <<clock, complaint, inbox, closing, faults>>

WriteWarning(m) ==
    /\ run[m].pc = "warn"
    /\ WarningDue(m)
    /\ tracker' = [tracker EXCEPT ![Of(m)].warnedAt = IF @ = Never THEN run[m].now ELSE @]
    /\ run' = [run EXCEPT ![m].pc =
                 IF run[m].item.assignee = NoUser THEN "breach" ELSE "notifyOwner"]
    /\ UNCHANGED <<clock, complaint, inbox, closing, faults>>

NotifyOwner(m) ==
    /\ run[m].pc = "notifyOwner"
    /\ inbox' = [inbox EXCEPT ![<<run[m].item.assignee, Of(m), "warning">>] = "unread"]
    /\ run' = [run EXCEPT ![m].pc = "breach"]
    /\ UNCHANGED <<clock, complaint, tracker, closing, faults>>

SkipBreach(m) ==
    /\ run[m].pc = "breach"
    /\ ~BreachDue(m)
    /\ run' = [run EXCEPT ![m].pc = "next"]
    /\ UNCHANGED <<clock, complaint, tracker, inbox, closing, faults>>

Breached(t, now) ==
    IF t.breachedAt = Never THEN [t EXCEPT !.status = "BREACHED", !.breachedAt = now] ELSE t

(* Variant: only the owner is told.                                        *)
RecipientsOwnerOnly(m) == {run[m].item.assignee} \cap Users

Recipients(m) == ({run[m].item.assignee} \cap Users) \cup Escalation

(* updateMany where breachedAt is null: the status is not looked at.        *)
WriteBreach(m) ==
    /\ run[m].pc = "breach"
    /\ BreachDue(m)
    /\ tracker' = [tracker EXCEPT ![Of(m)] = Breached(@, run[m].now)]
    /\ run' = [run EXCEPT ![m].pc = "next", ![m].left = Recipients(m)]
    /\ UNCHANGED <<clock, complaint, inbox, closing, faults>>

NotifyBreach(m) ==
    /\ run[m].pc = "next"
    /\ \E u \in run[m].left :
          /\ inbox' = [inbox EXCEPT ![<<u, Of(m), "breach">>] = "unread"]
          /\ run' = [run EXCEPT ![m].left = @ \ {u}]
    /\ UNCHANGED <<clock, complaint, tracker, closing, faults>>

-----------------------------------------------------------------------------
(* A database error or a crash ends a run; the next one starts afresh.     *)
AbortRun(m) ==
    /\ faults < MaxFaults
    /\ run[m].pc # "idle"
    /\ run' = [run EXCEPT ![m] = NoRun]
    /\ faults' = faults + 1
    /\ UNCHANGED <<clock, complaint, tracker, inbox, closing>>

(* The handler dies after the close, or completeTracker's error is swallowed. *)
LoseCompletion(c) ==
    /\ faults < MaxFaults
    /\ closing[c] # "none"
    /\ closing' = [closing EXCEPT ![c] = "none"]
    /\ faults' = faults + 1
    /\ UNCHANGED <<clock, complaint, tracker, inbox, run>>

Staff(c) ==
    \/ Submit(c)
    \/ \E u \in Users : Assign(c, u)
    \/ Close(c)

Complete(c) == CompleteRead(c) \/ CompleteWrite(c)

Evaluate(m) ==
    \/ BeginRun(m)
    \/ NextTracker(m)
    \/ EndRun(m)
    \/ SkipWarning(m)
    \/ WriteWarning(m)
    \/ NotifyOwner(m)
    \/ SkipBreach(m)
    \/ WriteBreach(m)
    \/ NotifyBreach(m)

Next ==
    \/ Tick
    \/ \E c \in Complaints : Staff(c) \/ Complete(c) \/ LoseCompletion(c)
    \/ \E m \in Monitors : Evaluate(m) \/ AbortRun(m)
    \/ \E a \in Alert : MarkRead(a)

Spec == Init /\ [][Next]_vars

(* The repeatable job starts runs for ever and a started run, like the     *)
(* handler that closed a complaint, goes on to its end.                    *)
Fairness ==
    /\ \A m \in Monitors : WF_vars(Evaluate(m))
    /\ \A c \in Complaints : WF_vars(Complete(c))

FairSpec == Spec /\ Fairness

-----------------------------------------------------------------------------
(* Properties.                                                             *)

(* A breach is never recorded without its warning: a run that finds both   *)
(* due warns first, and overlapping runs with older snapshots keep it so.  *)
BreachAfterWarning ==
    \A c \in Complaints : tracker[c].breachedAt # Never => tracker[c].warnedAt # Never

(* Nobody is alerted early or about nothing: an alert in an inbox has its  *)
(* stamp in the tracker, and the stamp is not before the deadline.         *)
AlertsAreDue ==
    \A u \in Users, c \in Complaints :
        /\ inbox[<<u, c, "warning">>] # "none" =>
              tracker[c].warnedAt # Never /\ tracker[c].warnedAt >= tracker[c].warningAt
        /\ inbox[<<u, c, "breach">>] # "none" =>
              tracker[c].breachedAt # Never /\ tracker[c].breachedAt >= tracker[c].targetAt

(* warnedAt and breachedAt are written once: a run with an older list, or  *)
(* a slower one, never moves the time another run recorded.                *)
StampStep ==
    \A c \in Complaints :
        /\ tracker[c].warnedAt # Never => tracker'[c].warnedAt = tracker[c].warnedAt
        /\ tracker[c].breachedAt # Never => tracker'[c].breachedAt = tracker[c].breachedAt

StampsAreFinal == [][StampStep]_vars

(* A tracker past its target does not stay active, whatever fails.         *)
OverdueIsBreached ==
    \A c \in Complaints :
        (tracker[c].status = "ACTIVE" /\ clock >= tracker[c].targetAt)
            ~> tracker[c].status # "ACTIVE"

(* Each holder of the escalation role hears of each breach, unless a run   *)
(* ended between its stamp and its alerts: no later run takes the tracker   *)
(* again.                                                                  *)
EscalationTold ==
    \A c \in Complaints, u \in Escalation :
        tracker[c].breachedAt # Never ~> inbox[<<u, c, "breach">>] # "none" \/ faults > 0
====
