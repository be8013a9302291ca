--------------------------------- MODULE MailOutbox ---------------------------------
(***************************************************************************)
(* What the outgoing mail promises, whatever queue, worker and retry logic *)
(* stand behind it.  A requested mail is handed to the mail server a       *)
(* bounded number of times and is reported sent only after the server took *)
(* it.  Once a verdict is out nothing more is handed over and the verdict  *)
(* stands, unless it has come into doubt; and only what has a verdict is   *)
(* requested once more.                                                    *)
(***************************************************************************)
EXTENDS Naturals

CONSTANTS Deliveries, None, Budget

VARIABLES
    outcome, accepted,
    origin,     \* the delivery this one repeats, or None
    doubt       \* the verdicts on this delivery that need not stand

Verdicts == {"sent", "failed"}

Init ==
    /\ outcome = [d \in Deliveries |-> "none"]
    /\ accepted = [d \in Deliveries |-> 0]
    /\ origin = [d \in Deliveries |-> None]
    /\ doubt = [d \in Deliveries |-> {}]

Open(d) == outcome[d] = "pending" \/ outcome[d] \in doubt[d]

Request(d, o) ==
    /\ outcome[d] = "none"
    /\ o # None => outcome[o] \in Verdicts
    /\ outcome' = [outcome EXCEPT ![d] = "pending"]
    /\ origin' = [origin EXCEPT ![d] = o]
    /\ UNCHANGED <<accepted, doubt>>

Accept(d) ==
    /\ Open(d)
    /\ accepted[d] < Budget
    /\ accepted' = [accepted EXCEPT ![d] = accepted[d] + 1]
    /\ UNCHANGED <<outcome, origin, doubt>>

(* A report may be in doubt from the start.                                *)
Report(d, v, D) ==
    /\ Open(d)
    /\ v = "sent" => accepted[d] > 0
    /\ outcome' = [outcome EXCEPT ![d] = v]
    /\ doubt' = [doubt EXCEPT ![d] = doubt[d] \cup D]
    /\ UNCHANGED <<accepted, origin>>

(* Doubt comes up, and is never put aside.                                 *)
Doubt(d, D) ==
    /\ doubt' = [doubt EXCEPT ![d] = doubt[d] \cup D]
    /\ UNCHANGED <<outcome, accepted, origin>>

Next ==
    \E d \in Deliveries :
        \/ \E o \in Deliveries \cup {None} : Request(d, o)
        \/ Accept(d)
        \/ \E D \in SUBSET Verdicts :
              Doubt(d, D) \/ \E v \in Verdicts \cup {"pending"} : Report(d, v, D)

Spec == Init /\ [][Next]_<<outcome, accepted, origin, doubt>>
====
