----------------------------- MODULE SlaTracker_proof -----------------------------
(***************************************************************************)
(* What holds of the SLA clocks for any number of complaints, accounts and *)
(* overlapping runs of the monitor, with any crash in between.             *)
(*                                                                         *)
(* A run acts on what it read at its start, so the invariant says how that *)
(* snapshot may have aged: its tracker exists, its deadlines are as they   *)
(* were, and a warning it saw is still there.                              *)
(***************************************************************************)
EXTENDS SlaTracker, TLAPS

Scheduled(c) ==
    tracker[c].status # "ABSENT" =>
        /\ tracker[c].warningAt \in Nat
        /\ tracker[c].targetAt \in Nat
        /\ tracker[c].warningAt <= tracker[c].targetAt

Unstarted(c) ==
    /\ tracker[c].status = "ABSENT" =>
          tracker[c].warnedAt = Never /\ tracker[c].breachedAt = Never
    /\ complaint[c].phase = "new" => tracker[c].status = "ABSENT"
    /\ closing[c] # "none" => complaint[c].phase = "closed"
    /\ closing[c] = "write" => tracker[c].status # "ABSENT"

(* What a snapshot still says of the tracker it was taken of.              *)
Aged(s) ==
    /\ s.of \in Complaints
    /\ tracker[s.of].status # "ABSENT"
    /\ s.warnedAt # Never => tracker[s.of].warnedAt # Never

StampsDue(c) ==
    /\ tracker[c].warnedAt # Never => tracker[c].warnedAt >= tracker[c].warningAt
    /\ tracker[c].breachedAt # Never => tracker[c].breachedAt >= tracker[c].targetAt

RunInv(m) ==
    /\ \A s \in run[m].todo : Aged(s)
    /\ run[m].pc \in {"warn", "notifyOwner", "breach"} => Aged(run[m].item)
    /\ run[m].pc = "notifyOwner" => tracker[Of(m)].warnedAt # Never
    /\ run[m].pc = "breach" =>
          tracker[Of(m)].warnedAt # Never \/ ~(run[m].now >= tracker[Of(m)].warningAt)
    /\ run[m].left # {} => tracker[Of(m)].breachedAt # Never

TrackerInv == \A c \in Complaints : Scheduled(c) /\ Unstarted(c) /\ StampsDue(c)
RunsInv    == \A m \in Monitors : RunInv(m)

IInv == TypeOK /\ TrackerInv /\ BreachAfterWarning /\ AlertsAreDue /\ RunsInv

-----------------------------------------------------------------------------
(* A tracker, once there, keeps its deadlines and its stamps.              *)

Kept(c) ==
    tracker[c].status # "ABSENT" =>
        /\ tracker'[c].status # "ABSENT"
        /\ tracker'[c].warningAt = tracker[c].warningAt
        /\ tracker'[c].targetAt = tracker[c].targetAt
        /\ tracker[c].warnedAt # Never => tracker'[c].warnedAt = tracker[c].warnedAt
        /\ tracker[c].breachedAt # Never => tracker'[c].breachedAt = tracker[c].breachedAt

LEMMA RunType ==
    ASSUME TypeOK, NEW m \in Monitors
    PROVE  /\ run[m] \in Run
           /\ run[m].now \in Nat
           /\ run[m].pc \in {"idle", "next", "warn", "notifyOwner", "breach"}
           /\ run[m].todo \in SUBSET Snapshot
           /\ run[m].left \in SUBSET Users
           /\ run[m].item \in Snapshot \cup {NoItem}
BY DEF TypeOK, Run

LEMMA TrackerType ==
    ASSUME TypeOK, NEW c \in Complaints
    PROVE  /\ tracker[c] \in Tracker
           /\ tracker[c].status \in {"ABSENT", "ACTIVE", "BREACHED", "COMPLETED"}
           /\ tracker[c].warningAt \in Timestamp
           /\ tracker[c].targetAt \in Timestamp
           /\ tracker[c].warnedAt \in Timestamp
           /\ tracker[c].breachedAt \in Timestamp
           /\ tracker[c].completedAt \in Timestamp
BY DEF TypeOK, Tracker

LEMMA SnapshotType ==
    ASSUME TypeOK, NEW c \in Complaints
    PROVE  SnapshotOf(c) \in Snapshot
BY TrackerType DEF TypeOK, SnapshotOf, Snapshot, Assignee

LEMMA StartedType == TypeOK => Started \in Tracker
<1> SUFFICES ASSUME TypeOK PROVE Started \in Tracker
  OBVIOUS
<1>1. clock + WarnAfter \in Nat /\ clock + TargetAfter \in Nat
  BY DeadlineAssumption DEF TypeOK
<1> QED
  BY <1>1 DEF Started, NoTracker, Tracker, Timestamp

LEMMA BreachedType ==
    ASSUME TypeOK, NEW c \in Complaints, NEW now \in Nat
    PROVE  Breached(tracker[c], now) \in Tracker
BY TrackerType DEF Breached, Tracker, Timestamp

LEMMA RunStep ==
    ASSUME TypeOK, NEW m \in Monitors, NEW r \in Run, HasItem(r),
           run' = [run EXCEPT ![m] = r]
    PROVE  run' \in [Monitors -> Run] /\ \A n \in Monitors : HasItem(run'[n])
BY DEF TypeOK

-----------------------------------------------------------------------------
(* Types.                                                                  *)

LEMMA InitType == Init => TypeOK
<1> SUFFICES ASSUME Init PROVE TypeOK
  OBVIOUS
<1>1. NoTracker \in Tracker
  BY DEF NoTracker, Tracker, Timestamp
<1>2. NoRun \in Run /\ HasItem(NoRun)
  BY DEF NoRun, Run, HasItem
<1>3. complaint \in [Complaints -> [phase : {"new", "open", "closed"}, assignee : Assignee]]
  BY DEF Init, Assignee
<1> QED
  BY <1>1, <1>2, <1>3 DEF Init, TypeOK

LEMMA NextType == TypeOK /\ [Next]_vars => TypeOK'
<1> SUFFICES ASSUME TypeOK, [Next]_vars PROVE TypeOK'
  OBVIOUS
<1>1. CASE Tick
  BY <1>1 DEF Tick, TypeOK
<1>2. ASSUME NEW c \in Complaints, Submit(c) PROVE TypeOK'
  BY <1>2, StartedType DEF Submit, TypeOK
<1>3. ASSUME NEW c \in Complaints, NEW u \in Users, Assign(c, u) PROVE TypeOK'
  BY <1>3 DEF Assign, TypeOK, Assignee
<1>4. ASSUME NEW c \in Complaints, Close(c) PROVE TypeOK'
  BY <1>4 DEF Close, TypeOK
<1>5. ASSUME NEW c \in Complaints, CompleteRead(c) PROVE TypeOK'
  BY <1>5 DEF CompleteRead, TypeOK
<1>6. ASSUME NEW c \in Complaints, CompleteWrite(c) PROVE TypeOK'
  <2>1. [tracker[c] EXCEPT !.status = "COMPLETED", !.completedAt = clock] \in Tracker
    BY TrackerType DEF Tracker, Timestamp, TypeOK
  <2>2. tracker' = [tracker EXCEPT ![c] =
                      [tracker[c] EXCEPT !.status = "COMPLETED", !.completedAt = clock]]
    BY <1>6 DEF CompleteWrite, TypeOK
  <2>3. tracker' \in [Complaints -> Tracker]
    BY <2>1, <2>2 DEF TypeOK
  <2> QED
    BY <1>6, <2>3 DEF CompleteWrite, TypeOK
<1>7. ASSUME NEW a \in Alert, MarkRead(a) PROVE TypeOK'
  BY <1>7 DEF MarkRead, TypeOK
<1>8. ASSUME NEW m \in Monitors, BeginRun(m) PROVE TypeOK'
  <2> DEFINE todo == {SnapshotOf(c) : c \in {d \in Complaints : tracker[d].status = "ACTIVE"}}
             r == [pc |-> "next", now |-> clock, item |-> NoItem, left |-> {}, todo |-> todo]
  <2>1. todo \in SUBSET Snapshot
    BY SnapshotType
  <2>2. r \in Run /\ HasItem(r)
    BY <2>1 DEF Run, TypeOK, HasItem
  <2>3. run' = [run EXCEPT ![m] = r]
    BY <1>8 DEF BeginRun
  <2> HIDE DEF r
  <2> QED
    BY <1>8, <2>2, <2>3, RunStep DEF BeginRun, TypeOK
<1>9. ASSUME NEW m \in Monitors, NextTracker(m) PROVE TypeOK'
  <2> USE RunType
  <2>1. PICK s \in run[m].todo :
            run' = [run EXCEPT ![m].item = s, ![m].todo = @ \ {s}, ![m].pc = "warn"]
    BY <1>9 DEF NextTracker
  <2>2. s \in Snapshot
    BY <2>1
  <2> DEFINE r == [run[m] EXCEPT !.item = s, !.todo = run[m].todo \ {s}, !.pc = "warn"]
  <2>3. run' = [run EXCEPT ![m] = r]
    BY <2>1 DEF TypeOK
  <2>4. r \in Run /\ HasItem(r)
    BY <2>2 DEF Run, HasItem
  <2> HIDE DEF r
  <2> QED
    BY <1>9, <2>3, <2>4, RunStep DEF NextTracker, TypeOK
<1>10. ASSUME NEW m \in Monitors, EndRun(m) \/ AbortRun(m) PROVE TypeOK'
  <2>1. NoRun \in Run /\ HasItem(NoRun)
    BY DEF NoRun, Run, HasItem
  <2>2. run' = [run EXCEPT ![m] = NoRun]
    BY <1>10 DEF EndRun, AbortRun
  <2>3. run' \in [Monitors -> Run] /\ \A n \in Monitors : HasItem(run'[n])
    BY <2>1, <2>2, RunStep
  <2> QED
    BY <1>10, <2>3 DEF EndRun, AbortRun, TypeOK
<1>11. ASSUME NEW m \in Monitors, SkipWarning(m) \/ SkipBreach(m) PROVE TypeOK'
  <2> USE RunType
  <2>1. PICK step \in {"breach", "next"} : run' = [run EXCEPT ![m].pc = step]
    BY <1>11 DEF SkipWarning, SkipBreach
  <2> DEFINE r == [run[m] EXCEPT !.pc = step]
  <2>2. r \in Run /\ HasItem(r)
    BY <1>11 DEF Run, HasItem, TypeOK, SkipWarning, SkipBreach
  <2>3. run' = [run EXCEPT ![m] = r]
    BY <2>1 DEF TypeOK
  <2> HIDE DEF r
  <2>4. run' \in [Monitors -> Run] /\ \A n \in Monitors : HasItem(run'[n])
    BY <2>2, <2>3, RunStep
  <2> QED
    BY <1>11, <2>4 DEF SkipWarning, SkipBreach, TypeOK
<1>12. ASSUME NEW m \in Monitors, WriteWarning(m) PROVE TypeOK'
  <2> USE RunType
  <2>1. Of(m) \in Complaints
    BY <1>12 DEF WriteWarning, TypeOK, HasItem, Of, Snapshot
  <2> DEFINE stamp == IF tracker[Of(m)].warnedAt = Never THEN run[m].now
                      ELSE tracker[Of(m)].warnedAt
             r == [run[m] EXCEPT !.pc = IF run[m].item.assignee = NoUser THEN "breach"
                                        ELSE "notifyOwner"]
  <2>2. tracker' = [tracker EXCEPT ![Of(m)] = [tracker[Of(m)] EXCEPT !.warnedAt = stamp]]
    BY <1>12, <2>1 DEF WriteWarning, TypeOK
  <2>3. [tracker[Of(m)] EXCEPT !.warnedAt = stamp] \in Tracker
    BY <2>1, TrackerType DEF Tracker, Timestamp
  <2>4. tracker' \in [Complaints -> Tracker]
    BY <2>1, <2>2, <2>3 DEF TypeOK
  <2>5. r \in Run /\ HasItem(r)
    BY <1>12 DEF Run, HasItem, TypeOK, WriteWarning
  <2>6. run' = [run EXCEPT ![m] = r]
    BY <1>12 DEF WriteWarning, TypeOK
  <2> HIDE DEF r
  <2>7. run' \in [Monitors -> Run] /\ \A n \in Monitors : HasItem(run'[n])
    BY <2>5, <2>6, RunStep
  <2> QED
    BY <1>12, <2>4, <2>7 DEF WriteWarning, TypeOK
<1>13. ASSUME NEW m \in Monitors, NotifyOwner(m) PROVE TypeOK'
  <2> USE RunType
  <2> DEFINE r == [run[m] EXCEPT !.pc = "breach"]
  <2>1. r \in Run /\ HasItem(r)
    BY <1>13 DEF Run, HasItem, TypeOK, NotifyOwner
  <2>2. run' = [run EXCEPT ![m] = r]
    BY <1>13 DEF NotifyOwner, TypeOK
  <2> HIDE DEF r
  <2>3. run' \in [Monitors -> Run] /\ \A n \in Monitors : HasItem(run'[n])
    BY <2>1, <2>2, RunStep
  <2>4. inbox' \in [Alert -> {"none", "unread", "read"}]
    BY <1>13 DEF NotifyOwner, TypeOK
  <2> QED
    BY <1>13, <2>3, <2>4 DEF NotifyOwner, TypeOK
<1>14. ASSUME NEW m \in Monitors, WriteBreach(m) PROVE TypeOK'
  <2> USE RunType
  <2>1. run[m].item \in Snapshot /\ Of(m) \in Complaints
    BY <1>14 DEF WriteBreach, TypeOK, HasItem, Of, Snapshot
  <2>2. tracker' \in [Complaints -> Tracker]
    BY <1>14, <2>1, BreachedType DEF WriteBreach, TypeOK
  <2>3. Recipients(m) \in SUBSET Users
    BY EscalationAssumption DEF Recipients
  <2> DEFINE r == [run[m] EXCEPT !.pc = "next", !.left = Recipients(m)]
  <2>4. r \in Run /\ HasItem(r)
    BY <2>1, <2>3 DEF Run, HasItem
  <2>5. run' = [run EXCEPT ![m] = r]
    BY <1>14 DEF WriteBreach, TypeOK
  <2> HIDE DEF r
  <2>6. run' \in [Monitors -> Run] /\ \A n \in Monitors : HasItem(run'[n])
    BY <2>4, <2>5, RunStep
  <2> QED
    BY <1>14, <2>2, <2>6 DEF WriteBreach, TypeOK
<1>15. ASSUME NEW m \in Monitors, NotifyBreach(m) PROVE TypeOK'
  <2> USE RunType
  <2>1. PICK u \in run[m].left :
            /\ inbox' = [inbox EXCEPT ![<<u, Of(m), "breach">>] = "unread"]
            /\ run' = [run EXCEPT ![m].left = @ \ {u}]
    BY <1>15 DEF NotifyBreach
  <2> DEFINE r == [run[m] EXCEPT !.left = run[m].left \ {u}]
  <2>2. r \in Run /\ HasItem(r)
    BY <2>1 DEF Run, HasItem, TypeOK
  <2>3. run' = [run EXCEPT ![m] = r]
    BY <2>1 DEF TypeOK
  <2> HIDE DEF r
  <2>4. run' \in [Monitors -> Run] /\ \A n \in Monitors : HasItem(run'[n])
    BY <2>2, <2>3, RunStep
  <2>5. inbox' \in [Alert -> {"none", "unread", "read"}]
    BY <2>1 DEF TypeOK
  <2> QED
    BY <1>15, <2>4, <2>5 DEF NotifyBreach, TypeOK
<1>16. ASSUME NEW c \in Complaints, LoseCompletion(c) PROVE TypeOK'
  BY <1>16 DEF LoseCompletion, TypeOK
<1>17. CASE UNCHANGED vars
  BY <1>17 DEF vars, TypeOK
<1> QED
  BY <1>1, <1>2, <1>3, <1>4, <1>5, <1>6, <1>7, <1>8, <1>9, <1>10, <1>11, <1>12, <1>13,
     <1>14, <1>15, <1>16, <1>17 DEF Next, Staff, Complete, Evaluate

-----------------------------------------------------------------------------
(* What a step does to the trackers.                                       *)

LEMMA StepKeeps ==
    ASSUME TypeOK, TrackerInv, [Next]_vars, RunsInv, NEW c \in Complaints
    PROVE  Kept(c)
<1> USE TrackerType DEF Kept
<1>1. CASE tracker' = tracker
  BY <1>1
<1>2. ASSUME NEW d \in Complaints, Submit(d) PROVE Kept(c)
  BY <1>2 DEF Submit, TrackerInv, Unstarted, TypeOK
<1>3. ASSUME NEW d \in Complaints, CompleteWrite(d) PROVE Kept(c)
  BY <1>3 DEF CompleteWrite, TypeOK, Tracker
<1>4. ASSUME NEW m \in Monitors, WriteWarning(m) PROVE Kept(c)
  BY <1>4 DEF WriteWarning, TypeOK, Tracker
<1>5. ASSUME NEW m \in Monitors, WriteBreach(m) PROVE Kept(c)
  BY <1>5 DEF WriteBreach, Breached, TypeOK, Tracker
<1> QED
  BY <1>1, <1>2, <1>3, <1>4, <1>5
     DEF Next, Staff, Complete, Evaluate, vars, Tick, Assign, Close, CompleteRead, MarkRead,
         BeginRun, NextTracker, EndRun, SkipWarning, NotifyOwner, SkipBreach, NotifyBreach,
         AbortRun, LoseCompletion

LEMMA NextTrackers == TypeOK /\ TrackerInv /\ RunsInv /\ [Next]_vars => TrackerInv'
<1> SUFFICES ASSUME TypeOK, TrackerInv, RunsInv, [Next]_vars, NEW c \in Complaints
             PROVE  (Scheduled(c) /\ Unstarted(c) /\ StampsDue(c))'
  BY DEF TrackerInv
<1> USE TrackerType DEF Scheduled, Unstarted, StampsDue
<1>1. Scheduled(c) /\ Unstarted(c) /\ StampsDue(c)
  BY DEF TrackerInv
<1>2. CASE tracker' = tracker /\ complaint' = complaint /\ closing' = closing
  BY <1>1, <1>2
<1>3. ASSUME NEW d \in Complaints, Submit(d)
      PROVE (Scheduled(c) /\ Unstarted(c) /\ StampsDue(c))'
  <2>1. complaint[d].phase = "new" /\ complaint'[d].phase = "open" /\ closing' = closing
    BY <1>3 DEF Submit, TypeOK
  <2>2. /\ Started.status = "ACTIVE"
        /\ Started.warnedAt = Never /\ Started.breachedAt = Never
        /\ Started.warningAt = clock + WarnAfter
        /\ Started.targetAt = clock + TargetAfter
    BY DEF Started, NoTracker
  <2>3. CASE tracker'[c] = tracker[c]
    BY <1>1, <1>3, <2>3 DEF Submit, TypeOK
  <2>4. CASE c = d /\ tracker'[c] = Started
    <3>1. closing[c] = "none"
      BY <1>1, <2>1, <2>4
    <3> QED
      BY <2>1, <2>2, <2>4, <3>1, DeadlineAssumption DEF TypeOK
  <2> QED
    BY <1>3, <2>3, <2>4 DEF Submit, TypeOK
<1>4. ASSUME NEW d \in Complaints, Close(d)
      PROVE (Scheduled(c) /\ Unstarted(c) /\ StampsDue(c))'
  BY <1>1, <1>4 DEF Close, TypeOK
<1>5. ASSUME NEW d \in Complaints, CompleteWrite(d)
      PROVE (Scheduled(c) /\ Unstarted(c) /\ StampsDue(c))'
  <2>1. closing[d] = "write" /\ Unstarted(d) /\ Scheduled(d)
    BY <1>5 DEF CompleteWrite, TrackerInv
  <2>2. CASE c # d
    BY <1>1, <1>5, <2>2 DEF CompleteWrite, TypeOK
  <2>3. CASE c = d
    <3>1. /\ tracker'[c].status = "COMPLETED"
          /\ tracker'[c].warningAt = tracker[c].warningAt
          /\ tracker'[c].targetAt = tracker[c].targetAt
          /\ tracker'[c].warnedAt = tracker[c].warnedAt
          /\ tracker'[c].breachedAt = tracker[c].breachedAt
          /\ closing'[c] = "none"
          /\ complaint' = complaint
      BY <1>5, <2>3 DEF CompleteWrite, TypeOK, Tracker
    <3>2. complaint[c].phase # "new" /\ tracker[c].status # "ABSENT"
      BY <2>1, <2>3
    <3> QED
      BY <1>1, <3>1, <3>2
  <2> QED
    BY <2>2, <2>3
<1>6. ASSUME NEW m \in Monitors, WriteWarning(m)
      PROVE (Scheduled(c) /\ Unstarted(c) /\ StampsDue(c))'
  BY <1>1, <1>6, RunType DEF WriteWarning, WarningDue, TypeOK, Tracker, RunsInv, RunInv, Aged, Of
<1>7. ASSUME NEW m \in Monitors, WriteBreach(m)
      PROVE (Scheduled(c) /\ Unstarted(c) /\ StampsDue(c))'
  BY <1>1, <1>7, RunType DEF WriteBreach, BreachDue, Breached, TypeOK, Tracker, RunsInv, RunInv, Aged, Of
<1>8. ASSUME NEW d \in Complaints, NEW u \in Users, Assign(d, u)
      PROVE (Scheduled(c) /\ Unstarted(c) /\ StampsDue(c))'
  BY <1>1, <1>8 DEF Assign, TypeOK
<1>9. ASSUME NEW d \in Complaints, CompleteRead(d) \/ LoseCompletion(d)
      PROVE (Scheduled(c) /\ Unstarted(c) /\ StampsDue(c))'
  BY <1>1, <1>9 DEF CompleteRead, LoseCompletion, TypeOK
<1> QED
  BY <1>2, <1>3, <1>4, <1>5, <1>6, <1>7, <1>8, <1>9
     DEF Next, Staff, Complete, Evaluate, vars, Tick, MarkRead,
         BeginRun, NextTracker, EndRun, SkipWarning, NotifyOwner, SkipBreach, NotifyBreach,
         AbortRun

LEMMA NextWarned ==
    TypeOK /\ TrackerInv /\ RunsInv /\ BreachAfterWarning /\ [Next]_vars => BreachAfterWarning'
<1> SUFFICES ASSUME TypeOK, TrackerInv, RunsInv, BreachAfterWarning, [Next]_vars,
                    NEW c \in Complaints
             PROVE  (tracker[c].breachedAt # Never => tracker[c].warnedAt # Never)'
  BY DEF BreachAfterWarning
<1> USE TrackerType
<1>1. tracker[c].breachedAt # Never => tracker[c].warnedAt # Never
  BY DEF BreachAfterWarning
<1>2. CASE tracker' = tracker
  BY <1>1, <1>2
<1>3. ASSUME NEW d \in Complaints, Submit(d) \/ CompleteWrite(d)
      PROVE (tracker[c].breachedAt # Never => tracker[c].warnedAt # Never)'
  <2>1. Started.breachedAt = Never
    BY DEF Started, NoTracker
  <2>2. CASE Submit(d)
    BY <1>1, <2>1, <2>2 DEF Submit, TypeOK
  <2>3. CASE CompleteWrite(d)
    BY <1>1, <2>3 DEF CompleteWrite, TypeOK, Tracker
  <2> QED
    BY <1>3, <2>2, <2>3
<1>4. ASSUME NEW m \in Monitors, WriteWarning(m)
      PROVE (tracker[c].breachedAt # Never => tracker[c].warnedAt # Never)'
  BY <1>1, <1>4, RunType, NullAssumption DEF WriteWarning, TypeOK, Tracker
<1>5. ASSUME NEW m \in Monitors, WriteBreach(m)
      PROVE (tracker[c].breachedAt # Never => tracker[c].warnedAt # Never)'
  <2>1. Aged(run[m].item) /\ Of(m) \in Complaints /\ Scheduled(Of(m))
    BY <1>5 DEF WriteBreach, RunsInv, RunInv, Aged, Of, TrackerInv
  <2>2. run[m].now >= tracker[Of(m)].targetAt
    BY <1>5 DEF WriteBreach, BreachDue
  <2>3. run[m].now >= tracker[Of(m)].warningAt
    BY <2>1, <2>2, RunType DEF Scheduled, Aged, Of
  <2>4. tracker[Of(m)].warnedAt # Never
    BY <1>5, <2>3 DEF WriteBreach, RunsInv, RunInv
  <2> QED
    BY <1>1, <1>5, <2>1, <2>4 DEF WriteBreach, Breached, TypeOK, Tracker
<1> QED
  BY <1>2, <1>3, <1>4, <1>5
     DEF Next, Staff, Complete, Evaluate, vars, Tick, Assign, Close, CompleteRead, MarkRead,
         BeginRun, NextTracker, EndRun, SkipWarning, NotifyOwner, SkipBreach, NotifyBreach,
         AbortRun, LoseCompletion

-----------------------------------------------------------------------------
(* Runs.                                                                   *)

(* A snapshot ages well: whatever it said of its tracker stays true.       *)
LEMMA AgedStep ==
    ASSUME TypeOK, TrackerInv, RunsInv, [Next]_vars, NEW s \in Snapshot, Aged(s)
    PROVE  Aged(s)'
<1>1. s.of \in Complaints /\ tracker[s.of].status # "ABSENT"
  BY DEF Aged
<1>2. Kept(s.of)
  BY <1>1, StepKeeps
<1> QED
  BY <1>1, <1>2 DEF Aged, Kept

(* What a run knows survives any step that leaves the run itself alone.    *)
LEMMA RunInvStep ==
    ASSUME TypeOK, TrackerInv, RunsInv, [Next]_vars, NEW m \in Monitors,
           run'[m] = run[m]
    PROVE  RunInv(m)'
<1> USE RunType
<1>1. RunInv(m)
  BY DEF RunsInv
<1>2. \A s \in run[m].todo : Aged(s)'
  BY <1>1, AgedStep DEF RunInv
<1>3. HasItem(run[m])
  BY DEF TypeOK
<1>4. CASE run[m].pc \in {"warn", "notifyOwner", "breach"}
  <2>1. run[m].item \in Snapshot /\ Aged(run[m].item)
    BY <1>1, <1>3, <1>4 DEF HasItem, RunInv
  <2> PICK s \in Snapshot : s = run[m].item
    BY <2>1
  <2>2. Aged(run[m].item)'
    BY <2>1, AgedStep DEF Aged
  <2>3. Kept(Of(m)) /\ tracker[Of(m)].status # "ABSENT" /\ Of(m)' = Of(m)
    BY <2>1, StepKeeps DEF Aged, Of
  <2>4. CASE run[m].left = {}
    BY <1>1, <1>2, <2>2, <2>3, <2>4 DEF RunInv, Kept
  <2>5. CASE run[m].left # {}
    BY <1>1, <1>2, <2>2, <2>3, <2>5 DEF RunInv, Kept
  <2> QED
    BY <2>4, <2>5
<1>5. CASE run[m].pc \in {"idle", "next"}
  <2>1. CASE run[m].left = {}
    BY <1>2, <1>5, <2>1 DEF RunInv
  <2>2. CASE run[m].left # {}
    <3>1. run[m].item \in Snapshot /\ Of(m) \in Complaints
      BY <1>3, <2>2 DEF HasItem, Of, Snapshot
    <3>2. tracker[Of(m)].breachedAt # Never /\ Of(m)' = Of(m)
      BY <1>1, <2>2 DEF RunInv, Of
    <3>3. tracker[Of(m)].status # "ABSENT"
      BY <3>1, <3>2 DEF TrackerInv, Unstarted
    <3>4. tracker'[Of(m)].breachedAt # Never
      BY <3>1, <3>2, <3>3, StepKeeps DEF Kept
    <3> QED
      BY <1>2, <1>5, <3>2, <3>4 DEF RunInv
  <2> QED
    BY <2>1, <2>2
<1> QED
  BY <1>4, <1>5

LEMMA NextRuns == TypeOK /\ TrackerInv /\ RunsInv /\ [Next]_vars => RunsInv'
<1> SUFFICES ASSUME TypeOK, TrackerInv, RunsInv, [Next]_vars, NEW n \in Monitors
             PROVE  RunInv(n)'
  BY DEF RunsInv
<1> USE RunType
<1>1. CASE run'[n] = run[n]
  BY <1>1, RunInvStep
<1>2. RunInv(n) /\ HasItem(run[n])
  BY DEF RunsInv, TypeOK
<1>3. CASE BeginRun(n)
  <2>1. /\ run'[n].pc = "next" /\ run'[n].left = {}
        /\ run'[n].todo = {SnapshotOf(c) : c \in {d \in Complaints : tracker[d].status = "ACTIVE"}}
        /\ tracker' = tracker
    BY <1>3 DEF BeginRun, TypeOK
  <2>2. ASSUME NEW s \in run'[n].todo PROVE Aged(s)'
    BY <2>1, <2>2 DEF Aged, SnapshotOf
  <2>3. \A s \in run'[n].todo : Aged(s)'
    BY <2>2
  <2> QED
    BY <2>1, <2>3 DEF RunInv
<1>4. CASE NextTracker(n)
  <2>1. PICK s \in run[n].todo :
            /\ run'[n].item = s /\ run'[n].todo = run[n].todo \ {s}
            /\ run'[n].pc = "warn" /\ run'[n].left = {}
            /\ tracker' = tracker
    BY <1>4 DEF NextTracker, TypeOK, Run
  <2>2. \A t \in run[n].todo : Aged(t)'
    BY <1>2, <2>1 DEF RunInv, Aged
  <2> QED
    BY <2>1, <2>2 DEF RunInv
<1>5. CASE EndRun(n) \/ AbortRun(n)
  BY <1>5 DEF EndRun, AbortRun, NoRun, RunInv, TypeOK
<1>6. CASE SkipWarning(n)
  <2>1. /\ run'[n].pc = "breach" /\ run'[n].todo = run[n].todo /\ run'[n].left = run[n].left
        /\ run'[n].item = run[n].item /\ run'[n].now = run[n].now
        /\ tracker' = tracker /\ Of(n)' = Of(n)
    BY <1>6 DEF SkipWarning, TypeOK, Run, Of
  <2>2. tracker[Of(n)].warnedAt # Never \/ ~(run[n].now >= tracker[Of(n)].warningAt)
    BY <1>2, <1>6 DEF SkipWarning, WarningDue, RunInv, Aged, Of
  <2> QED
    BY <1>2, <1>6, <2>1, <2>2 DEF RunInv, Aged, SkipWarning
<1>7. CASE WriteWarning(n)
  <2>1. Aged(run[n].item) /\ Of(n) \in Complaints
    BY <1>2, <1>7 DEF WriteWarning, RunInv, Aged, Of
  <2>2. /\ run'[n].pc \in {"breach", "notifyOwner"} /\ run'[n].todo = run[n].todo
        /\ run'[n].left = run[n].left /\ run'[n].item = run[n].item
        /\ Of(n)' = Of(n)
    BY <1>7 DEF WriteWarning, TypeOK, Run, Of
  <2>3. tracker'[Of(n)].warnedAt # Never
    BY <1>7, <2>1, TrackerType, NullAssumption DEF WriteWarning, TypeOK, Tracker
  <2>4. \A s \in run[n].todo : Aged(s)'
    BY <1>2, AgedStep DEF RunInv
  <2>5. PICK s \in Snapshot : s = run[n].item
    BY <1>2, <1>7 DEF WriteWarning, HasItem
  <2>6. Aged(s)' /\ s = run'[n].item
    BY <2>1, <2>2, <2>5, AgedStep
  <2>7. run[n].left # {} => tracker'[Of(n)].breachedAt # Never
    BY <1>2, <2>1, StepKeeps DEF RunInv, Kept, Aged, Of
  <2> QED
    BY <2>2, <2>3, <2>4, <2>6, <2>7 DEF RunInv, Aged
<1>8. CASE NotifyOwner(n)
  <2>1. /\ run'[n].pc = "breach" /\ run'[n].todo = run[n].todo /\ run'[n].left = run[n].left
        /\ run'[n].item = run[n].item /\ tracker' = tracker /\ Of(n)' = Of(n)
    BY <1>8 DEF NotifyOwner, TypeOK, Run, Of
  <2> QED
    BY <1>2, <1>8, <2>1 DEF RunInv, Aged, NotifyOwner
<1>9. CASE SkipBreach(n)
  <2>1. /\ run'[n].pc = "next" /\ run'[n].todo = run[n].todo /\ run'[n].left = run[n].left
        /\ run'[n].item = run[n].item /\ tracker' = tracker /\ Of(n)' = Of(n)
    BY <1>9 DEF SkipBreach, TypeOK, Run, Of
  <2> QED
    BY <1>2, <1>9, <2>1 DEF RunInv, Aged, SkipBreach
<1>10. CASE WriteBreach(n)
  <2>1. Aged(run[n].item) /\ Of(n) \in Complaints
    BY <1>2, <1>10 DEF WriteBreach, RunInv, Aged, Of
  <2>2. /\ run'[n].pc = "next" /\ run'[n].todo = run[n].todo /\ Of(n)' = Of(n)
    BY <1>10 DEF WriteBreach, TypeOK, Run, Of
  <2>3. tracker'[Of(n)].breachedAt # Never
    BY <1>10, <2>1, TrackerType, NullAssumption DEF WriteBreach, Breached, TypeOK, Tracker
  <2>4. \A s \in run[n].todo : Aged(s)'
    BY <1>2, AgedStep DEF RunInv
  <2> QED
    BY <2>2, <2>3, <2>4 DEF RunInv
<1>11. CASE NotifyBreach(n)
  <2>1. /\ run'[n].pc = "next" /\ run'[n].todo = run[n].todo /\ run[n].left # {}
        /\ tracker' = tracker /\ Of(n)' = Of(n)
    BY <1>11 DEF NotifyBreach, TypeOK, Run, Of
  <2> QED
    BY <1>2, <2>1 DEF RunInv, Aged
<1>12. ASSUME NEW m \in Monitors, Evaluate(m) \/ AbortRun(m), m # n PROVE run'[n] = run[n]
  BY <1>12 DEF Evaluate, AbortRun, BeginRun, NextTracker, EndRun, SkipWarning, WriteWarning,
               NotifyOwner, SkipBreach, WriteBreach, NotifyBreach, TypeOK
<1>13. CASE run' = run
  BY <1>1, <1>13
<1> QED
  BY <1>1, <1>3, <1>4, <1>5, <1>6, <1>7, <1>8, <1>9, <1>10, <1>11, <1>12, <1>13
     DEF Next, Staff, Complete, Evaluate, vars, Tick, Submit, Assign, Close, CompleteRead,
         CompleteWrite, MarkRead, LoseCompletion

(* Alerts.                                                                 *)
LEMMA NextAlerts ==
    TypeOK /\ TrackerInv /\ RunsInv /\ AlertsAreDue /\ [Next]_vars => AlertsAreDue'
<1> SUFFICES ASSUME TypeOK, TrackerInv, RunsInv, AlertsAreDue, [Next]_vars,
                    NEW u \in Users, NEW c \in Complaints
    PROVE /\ inbox'[<<u, c, "warning">>] # "none" =>
                tracker'[c].warnedAt # Never /\ tracker'[c].warnedAt >= tracker'[c].warningAt
          /\ inbox'[<<u, c, "breach">>] # "none" =>
                tracker'[c].breachedAt # Never /\ tracker'[c].breachedAt >= tracker'[c].targetAt
  BY DEF AlertsAreDue
<1>1. StampsDue(c)'
  BY NextTrackers DEF TrackerInv
<1>2. Kept(c) /\ Unstarted(c)
  BY StepKeeps DEF TrackerInv
<1>3. CASE inbox' = inbox
  BY <1>1, <1>2, <1>3 DEF AlertsAreDue, Kept, Unstarted, StampsDue
<1>4. ASSUME NEW a \in Alert, MarkRead(a)
      PROVE /\ inbox'[<<u, c, "warning">>] # "none" => inbox[<<u, c, "warning">>] # "none"
            /\ inbox'[<<u, c, "breach">>] # "none" => inbox[<<u, c, "breach">>] # "none"
  BY <1>4 DEF MarkRead, TypeOK
<1>5. ASSUME NEW m \in Monitors, NotifyOwner(m)
      PROVE /\ inbox'[<<u, c, "warning">>] # "none" =>
                  inbox[<<u, c, "warning">>] # "none" \/ tracker[c].warnedAt # Never
            /\ inbox'[<<u, c, "breach">>] # "none" => inbox[<<u, c, "breach">>] # "none"
  BY <1>5 DEF NotifyOwner, TypeOK, RunsInv, RunInv
<1>6. ASSUME NEW m \in Monitors, NotifyBreach(m)
      PROVE /\ inbox'[<<u, c, "warning">>] # "none" => inbox[<<u, c, "warning">>] # "none"
            /\ inbox'[<<u, c, "breach">>] # "none" =>
                  inbox[<<u, c, "breach">>] # "none" \/ tracker[c].breachedAt # Never
  BY <1>6 DEF NotifyBreach, TypeOK, RunsInv, RunInv
<1>7. /\ inbox[<<u, c, "warning">>] # "none" => tracker[c].warnedAt # Never
      /\ inbox[<<u, c, "breach">>] # "none" => tracker[c].breachedAt # Never
  BY DEF AlertsAreDue
<1>8. /\ inbox'[<<u, c, "warning">>] # "none" => tracker[c].warnedAt # Never \/ inbox' = inbox
      /\ inbox'[<<u, c, "breach">>] # "none" => tracker[c].breachedAt # Never \/ inbox' = inbox
  BY <1>4, <1>5, <1>6, <1>7
     DEF Next, Staff, Complete, Evaluate, vars, Tick, Submit, Assign, Close, CompleteRead,
         CompleteWrite, BeginRun, NextTracker, EndRun, SkipWarning, WriteWarning, SkipBreach,
         WriteBreach, AbortRun, LoseCompletion
<1> QED
  BY <1>1, <1>2, <1>3, <1>8 DEF Kept, Unstarted, StampsDue

-----------------------------------------------------------------------------
(* The theorems.                                                           *)

LEMMA InitIInv == Init => IInv
<1> SUFFICES ASSUME Init PROVE IInv
  OBVIOUS
<1>1. \A c \in Complaints : tracker[c] = NoTracker
  BY DEF Init
<1>2. TrackerInv /\ BreachAfterWarning
  BY <1>1 DEF Init, TrackerInv, Scheduled, Unstarted, StampsDue, NoTracker, BreachAfterWarning
<1>3. AlertsAreDue
  BY DEF Init, AlertsAreDue, Alert
<1>4. RunsInv
  BY DEF Init, RunsInv, RunInv, NoRun
<1> QED
  BY <1>2, <1>3, <1>4, InitType DEF IInv

LEMMA NextIInv == IInv /\ [Next]_vars => IInv'
BY NextType, NextTrackers, NextWarned, NextRuns, NextAlerts DEF IInv

(* The inductive invariant holds in every reachable state.                 *)
THEOREM Invariance == Spec => []IInv
BY InitIInv, NextIInv, PTL DEF Spec

(* Every variable keeps its type, with any number of overlapping runs.     *)
THEOREM TypeCorrect == Spec => []TypeOK
<1>1. IInv => TypeOK
  BY DEF IInv
<1> QED
  BY <1>1, Invariance, PTL

(* A breach is never recorded without its warning.                         *)
THEOREM WarnedBeforeBreached == Spec => []BreachAfterWarning
<1>1. IInv => BreachAfterWarning
  BY DEF IInv
<1> QED
  BY <1>1, Invariance, PTL

(* Nobody is alerted early or about nothing.                               *)
THEOREM NoEarlyAlert == Spec => []AlertsAreDue
<1>1. IInv => AlertsAreDue
  BY DEF IInv
<1> QED
  BY <1>1, Invariance, PTL

(* No run moves a time another run recorded.                               *)
THEOREM StampsWrittenOnce == Spec => StampsAreFinal
<1>1. IInv /\ [Next]_vars => StampStep
  <2> SUFFICES ASSUME IInv, [Next]_vars, NEW c \in Complaints
      PROVE /\ tracker[c].warnedAt # Never => tracker'[c].warnedAt = tracker[c].warnedAt
            /\ tracker[c].breachedAt # Never => tracker'[c].breachedAt = tracker[c].breachedAt
    BY DEF StampStep
  <2>1. Kept(c) /\ Unstarted(c)
    BY StepKeeps DEF IInv, TrackerInv
  <2> QED
    BY <2>1 DEF Kept, Unstarted
<1> QED
  BY <1>1, Invariance, PTL DEF StampsAreFinal, Spec
====
