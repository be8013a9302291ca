------------------------------ MODULE PublicSubmission ------------------------------
(***************************************************************************)
(* A member of the public files one complaint from one browser tab, and    *)
(* may attach evidence to it afterwards: the wizard with its draft in      *)
(* sessionStorage, the evidence panel with its upload loop, and the two    *)
(* public endpoints behind them.  Neither endpoint recognises a request it *)
(* has served before.                                                      *)
(*                                                                         *)
(* What is written is abstracted to the parts of the form the wizard asks  *)
(* for and to the category; a draft is younger than its hour.  The loop    *)
(* takes the files in any order.  While an upload runs the tab may be      *)
(* reloaded, but the person does not go to another page of the site and    *)
(* back.                                                                   *)
(***************************************************************************)
EXTENDS Naturals, FiniteSets

CONSTANTS
    Files,          \* what can be picked for evidence
    NoFile,         \* what an upload not yet sent carries
    MaxFiles,       \* claims.maxFiles
    MaxSends,       \* bound: complaints sent
    MaxUploads,     \* bound: uploads sent
    MaxLeaves,      \* bound: reloads, and visits to another page
    MaxFaults       \* bound: lost answers, failures after the row is written

ASSUME LimitsAssumption ==
    /\ MaxFiles \in Nat \ {0} /\ MaxSends \in Nat /\ MaxUploads \in Nat
    /\ MaxLeaves \in Nat /\ MaxFaults \in Nat

VARIABLES
    phase, step, form,  \* the wizard
    draft,              \* sessionStorage: the step and the form, or NoDraft
    shown,              \* state.submitted: which send it came from, 0 if none
    send,               \* of each send: where it is and who waits for it
    complaints,         \* the sends of which a complaint is stored
    stale,              \* the complaints whose upload session has run out
    panel, list,        \* the evidence panel: its state, the status of each file
    batch, todo, failed,\* uploadAll: updated, what is left of it, hadError
    upload,             \* of each upload: what it carries, where it is
    documents,          \* the uploads of which a document is stored
    current,            \* the upload the loop awaits, 0 if none
    leaves, faults

wizard  == <<phase, step, form, draft, shown>>
intake  == <<send, complaints>>
loop    == <<panel, list, batch, todo, failed, current>>
store   == <<upload, documents>>
bounds  == <<leaves, faults>>
vars    == <<wizard, intake, stale, loop, store, bounds>>

Sends   == 1 .. MaxSends
Uploads == 1 .. MaxUploads
Required == {"text", "consent"}
Parts   == Required \cup {"category"}
Status  == {"off", "pending", "uploading", "done", "error"}
Draft   == [step : 1 .. 3, form : SUBSET Parts]
Blank   == [step |-> 1, form |-> {}]
NoDraft == [step |-> 0, form |-> {}]
Send    == [at : {"none", "sent", "stored", "failed", "over"},
            heard : {"wizard", "page", "nobody"}]
Upload  == [at : {"none", "sent", "counted", "stored", "late", "failed"},
            file : Files \cup {NoFile}, complaint : Sends \cup {0}, heard : BOOLEAN]
NoFiles == [f \in Files |-> "off"]

TypeOK ==
    /\ phase \in {"wizard", "submitting", "success", "evidence", "expired", "left"}
    /\ step \in 1 .. 3 /\ form \subseteq Parts
    /\ draft \in Draft \cup {NoDraft}
    /\ shown \in Sends \cup {0}
    /\ send \in [Sends -> Send]
    /\ complaints \subseteq Sends
    /\ stale \subseteq Sends
    /\ panel \in {"idle", "uploading", "complete"}
    /\ list \in [Files -> Status] /\ batch \in [Files -> Status]
    /\ todo \subseteq Files
    /\ failed \in BOOLEAN
    /\ upload \in [Uploads -> Upload]
    /\ documents \subseteq Uploads
    /\ current \in Uploads \cup {0}
    /\ leaves \in Nat /\ faults \in Nat

Init ==
    /\ phase = "wizard" /\ step = 1 /\ form = {} /\ draft = Blank
    /\ shown = 0
    /\ send = [s \in Sends |-> [at |-> "none", heard |-> "nobody"]]
    /\ complaints = {}
    /\ stale = {}
    /\ panel = "idle" /\ list = NoFiles /\ batch = NoFiles
    /\ todo = {} /\ failed = FALSE
    /\ upload = [u \in Uploads |-> [at |-> "none", file |-> NoFile, complaint |-> 0,
                                     heard |-> FALSE]]
    /\ documents = {} /\ current = 0
    /\ leaves = 0 /\ faults = 0

-----------------------------------------------------------------------------
(* The wizard.  Every change of it is written to the draft by an effect.    *)

Show(s, f) == step' = s /\ form' = f /\ draft' = [step |-> s, form |-> f]

Edit(p) ==
    /\ phase = "wizard"
    /\ step = IF p = "consent" THEN 2 ELSE 1
    /\ Show(step, IF p \in form THEN form \ {p} ELSE form \cup {p})
    /\ UNCHANGED <<phase, shown, intake, stale, loop, store, bounds>>

(* onNext, after validateStep1 and validateStep2.                           *)
Next1 == step = 1 /\ "text" \in form /\ Show(2, form)
Next2 == step = 2 /\ "consent" \in form /\ Show(3, form)
Back  == step > 1 /\ Show(step - 1, form)

Turn ==
    /\ phase = "wizard"
    /\ Next1 \/ Next2 \/ Back
    /\ UNCHANGED <<phase, shown, intake, stale, loop, store, bounds>>

Cancel ==
    /\ phase = "wizard" /\ step = 1
    /\ phase' = "left" /\ draft' = NoDraft
    /\ UNCHANGED <<step, form, shown, intake, stale, loop, store, bounds>>

(* Variants first: the draft is cleared before the await; the button stays   *)
(* enabled.                                                                *)
SubmitClearing(s) ==
    /\ phase = "wizard" /\ step = 3
    /\ Required \subseteq form
    /\ \A r \in Sends : send[r].at = "none" <=> r >= s
    /\ phase' = "submitting"
    /\ draft' = NoDraft
    /\ send' = [send EXCEPT ![s] = [at |-> "sent", heard |-> "wizard"]]
    /\ UNCHANGED <<step, form, shown, complaints, stale, loop, store, bounds>>

SubmitEnabled(s) ==
    /\ phase \in {"wizard", "submitting"} /\ step = 3
    /\ Required \subseteq form
    /\ \A r \in Sends : send[r].at = "none" <=> r >= s
    /\ phase' = "submitting"
    /\ draft' = [step |-> step, form |-> form]
    /\ send' = [send EXCEPT ![s] = [at |-> "sent", heard |-> "wizard"]]
    /\ UNCHANGED <<step, form, shown, complaints, stale, loop, store, bounds>>

(* submitComplaint up to its await.                                        *)
Submit(s) ==
    /\ phase = "wizard" /\ step = 3
    /\ Required \subseteq form
    /\ \A r \in Sends : send[r].at = "none" <=> r >= s
    /\ phase' = "submitting"
    /\ draft' = [step |-> step, form |-> form]
    /\ send' = [send EXCEPT ![s] = [at |-> "sent", heard |-> "wizard"]]
    /\ UNCHANGED <<step, form, shown, complaints, stale, loop, store, bounds>>

At(s, to) == send' = [send EXCEPT ![s] = [at |-> to, heard |-> send[s].heard]]
Over(s)   == send' = [send EXCEPT ![s] = [at |-> "over", heard |-> "nobody"]]

(* The answer.  The draft is cleared by whatever code still runs, the      *)
(* reducer only hears its own wizard.                                      *)
Accepted(s) ==
    /\ send[s].at = "stored" /\ send[s].heard # "nobody"
    /\ Over(s)
    /\ draft' = NoDraft
    /\ IF send[s].heard = "wizard"
       THEN phase' = "success" /\ shown' = s
       ELSE UNCHANGED <<phase, shown>>
    /\ UNCHANGED <<step, form, complaints, stale, loop, store, bounds>>

NotAccepted(s) ==
    /\ send[s].at = "failed" /\ send[s].heard # "nobody"
    /\ Over(s)
    /\ IF send[s].heard = "wizard" THEN phase' = "wizard" /\ Show(step, form)
       ELSE UNCHANGED <<phase, step, form, draft>>
    /\ UNCHANGED <<shown, complaints, stale, loop, store, bounds>>

(* The evidence panel is not there, or mounted with an empty list.          *)
NoPanel ==
    /\ panel' = "idle" /\ list' = NoFiles /\ batch' = NoFiles
    /\ todo' = {} /\ failed' = FALSE /\ current' = 0

(* RESTORE_DRAFT drops the category.  The effect that writes the draft is   *)
(* held back until the next animation frame, so what was restored may or   *)
(* may not be written at once.                                             *)
Restore ==
    /\ step' = draft.step /\ form' = draft.form \ {"category"}
    /\ draft' \in {draft, [step |-> step', form |-> form']}

(* The wizard is mounted again, with the draft or blank, by a visit to      *)
(* another page and back or by a reload, which also ends what code of the  *)
(* page was still waiting.                                                 *)
Mount ==
    /\ phase # "left"
    /\ phase' = "wizard" /\ shown' = 0
    /\ IF draft = NoDraft THEN Show(1, {}) ELSE Restore
    /\ NoPanel
    /\ leaves < MaxLeaves /\ leaves' = leaves + 1
    /\ upload' = [u \in Uploads |-> [at |-> upload[u].at, file |-> upload[u].file,
                     complaint |-> upload[u].complaint, heard |-> FALSE]]
    /\ UNCHANGED <<complaints, stale, documents, faults>>

Visit ==
    /\ panel # "uploading"
    /\ send' = [s \in Sends |-> IF send[s].heard = "wizard"
                                THEN [at |-> send[s].at, heard |-> "page"] ELSE send[s]]
    /\ Mount

Reload ==
    /\ send' = [s \in Sends |-> [at |-> send[s].at, heard |-> "nobody"]]
    /\ Mount

-----------------------------------------------------------------------------
(* POST /complaints.  The clock, the audit entry and the acknowledgement    *)
(* that follow the transaction cannot fail the request.                    *)

StoreComplaint(s) ==
    /\ send[s].at = "sent"
    /\ At(s, "stored")
    /\ complaints' = complaints \cup {s}
    /\ UNCHANGED <<wizard, stale, loop, store, bounds>>

(* Lost on the way, throttled, not valid, a category gone inactive.         *)
RefuseComplaint(s) ==
    /\ send[s].at = "sent"
    /\ At(s, "failed")
    /\ UNCHANGED <<wizard, complaints, stale, loop, store, bounds>>

LoseAnswer(s) ==
    /\ send[s].at = "stored"
    /\ faults < MaxFaults /\ faults' = faults + 1
    /\ At(s, "failed")
    /\ UNCHANGED <<wizard, complaints, stale, loop, store, leaves>>

-----------------------------------------------------------------------------
(* The evidence panel.                                                      *)

ExpireSession ==
    /\ shown \in Sends \ stale
    /\ stale' = stale \cup {shown}
    /\ UNCHANGED <<wizard, intake, loop, store, bounds>>

OpenEvidence ==
    /\ phase = "success"
    /\ phase' = IF shown \in stale THEN "expired" ELSE "evidence"
    /\ NoPanel
    /\ UNCHANGED <<step, form, draft, shown, intake, stale, store, bounds>>

CloseEvidence ==
    /\ phase = "evidence" /\ panel = "idle"
    /\ phase' = "success"
    /\ UNCHANGED <<step, form, draft, shown, intake, stale, loop, store, bounds>>

Finish ==
    /\ phase \in {"success", "evidence", "expired"}
    /\ panel # "uploading"
    /\ phase' = "left"
    /\ UNCHANGED <<step, form, draft, shown, intake, stale, loop, store, bounds>>

Listed(l) == {f \in Files : l[f] # "off"}

(* addFiles: the drop zone stays live during an upload.                     *)
AddFile(f) ==
    /\ phase = "evidence" /\ panel # "complete"
    /\ list[f] = "off"
    /\ Cardinality(Listed(list)) < MaxFiles
    /\ list' = [list EXCEPT ![f] = "pending"]
    /\ UNCHANGED <<wizard, intake, stale, panel, batch, todo, failed, current, store, bounds>>

RemoveFile(f) ==
    /\ phase = "evidence" /\ panel # "complete"
    /\ list[f] \notin {"off", "uploading"}
    /\ list' = [list EXCEPT ![f] = "off"]
    /\ UNCHANGED <<wizard, intake, stale, panel, batch, todo, failed, current, store, bounds>>

(* One round of the loop of uploadAll, from after its await to its next, with *)
(* b for updated, t for what it has not come to and e for hadError: setFiles *)
(* puts b in the place of whatever the list has become.                    *)
Round(b, t, e) ==
    \/ /\ t = {}
       /\ panel' = IF e THEN "idle" ELSE "complete"
       /\ list' = b
       /\ batch' = NoFiles /\ todo' = {} /\ failed' = FALSE /\ current' = 0
       /\ UNCHANGED upload
    \/ \E f \in t, u \in Uploads :
          /\ \A v \in Uploads : upload[v].at = "none" <=> v >= u
          /\ upload' = [upload EXCEPT ![u] = [at |-> "sent", file |-> f,
                                              complaint |-> shown, heard |-> TRUE]]
          /\ panel' = "uploading"
          /\ batch' = [b EXCEPT ![f] = "uploading"]
          /\ list' = [b EXCEPT ![f] = "uploading"]
          /\ todo' = t \ {f} /\ failed' = e /\ current' = u

(* The bound on uploads leaves one for each file of the list.               *)
UploadAll ==
    /\ phase = "evidence" /\ panel = "idle"
    /\ Listed(list) # {}
    /\ Cardinality(Listed(list)) <= Cardinality({u \in Uploads : upload[u].at = "none"})
    /\ Round(list, {f \in Listed(list) : list[f] # "done"}, FALSE)
    /\ UNCHANGED <<wizard, intake, stale, documents, bounds>>

Uploaded ==
    /\ current # 0
    /\ upload[current].at = "stored" /\ upload[current].heard
    /\ Round([batch EXCEPT ![upload[current].file] = "done"], todo, failed)
    /\ UNCHANGED <<wizard, intake, stale, documents, bounds>>

(* Variant first: hadError is not set.                                      *)
NotUploadedUnnoted ==
    /\ current # 0
    /\ upload[current].at = "failed" \/ ~upload[current].heard
    /\ Round([batch EXCEPT ![upload[current].file] = "error"], todo, failed)
    /\ UNCHANGED <<wizard, intake, stale, documents, bounds>>

NotUploaded ==
    /\ current # 0
    /\ upload[current].at = "failed" \/ ~upload[current].heard
    /\ Round([batch EXCEPT ![upload[current].file] = "error"], todo, TRUE)
    /\ UNCHANGED <<wizard, intake, stale, documents, bounds>>

-----------------------------------------------------------------------------
(* POST /complaints/:id/evidence.                                          *)

Of(s) == {u \in documents : upload[u].complaint = s}

Reach(u, to) == upload' = [upload EXCEPT ![u] = [at |-> to, file |-> upload[u].file,
                             complaint |-> upload[u].complaint, heard |-> upload[u].heard]]

(* The token is verified, then the documents are counted.                   *)
Count(u) ==
    /\ upload[u].at = "sent"
    /\ Reach(u, IF upload[u].complaint \in stale \/ Cardinality(Of(upload[u].complaint)) >= MaxFiles
                THEN "failed" ELSE "counted")
    /\ UNCHANGED <<wizard, intake, stale, loop, documents, bounds>>

(* documentsService.upload, which may be late: nobody waits any more.       *)
StoreDocument(u) ==
    /\ upload[u].at = "counted"
    /\ Reach(u, IF upload[u].heard THEN "stored" ELSE "late")
    /\ documents' = documents \cup {u}
    /\ UNCHANGED <<wizard, intake, stale, loop, bounds>>

(* Not a type that is taken, or the storage or the database fails.          *)
RefuseDocument(u) ==
    /\ upload[u].at \in {"sent", "counted"}
    /\ Reach(u, "failed")
    /\ UNCHANGED <<wizard, intake, stale, loop, documents, bounds>>

(* The connection breaks, or the job cannot be added after the row is in.   *)
LoseUpload(u) ==
    /\ u = current
    /\ upload[u].at \in {"sent", "counted", "stored"} /\ upload[u].heard
    /\ faults < MaxFaults /\ faults' = faults + 1
    /\ upload' = [upload EXCEPT ![u] = [at |-> upload[u].at, file |-> upload[u].file,
                                        complaint |-> upload[u].complaint, heard |-> FALSE]]
    /\ UNCHANGED <<wizard, intake, stale, loop, documents, leaves>>

-----------------------------------------------------------------------------
Server(s)    == StoreComplaint(s) \/ RefuseComplaint(s)
Answer(s)    == Accepted(s) \/ NotAccepted(s)
Evidence(u)  == Count(u) \/ StoreDocument(u) \/ RefuseDocument(u)
LoopGoesOn   == Uploaded \/ NotUploaded

Next ==
    \/ \E p \in Parts : Edit(p)
    \/ Turn \/ Cancel \/ Visit \/ Reload
    \/ \E s \in Sends : Submit(s) \/ Server(s) \/ LoseAnswer(s) \/ Answer(s)
    \/ ExpireSession \/ OpenEvidence \/ CloseEvidence \/ Finish
    \/ \E f \in Files : AddFile(f) \/ RemoveFile(f)
    \/ UploadAll \/ LoopGoesOn
    \/ \E u \in Uploads : Evidence(u) \/ LoseUpload(u)

Spec == Init /\ [][Next]_vars

-----------------------------------------------------------------------------
(* What the page tells the person is so: the reference on the screen is    *)
(* that of a stored complaint, a file marked as uploaded is stored with it, *)
(* and the panel reports success only with every file of its list stored   *)
(* (SET_SUBMITTED, uploadAll).                                             *)
ShownIsTrue ==
    /\ phase \in {"success", "evidence", "expired"} => shown \in complaints
    /\ phase = "evidence" =>
         \A f \in Listed(list) :
            list[f] = "done" \/ panel = "complete" =>
               \E u \in documents : upload[u].file = f /\ upload[u].complaint = shown

(* What is on the form is in the draft, the category perhaps cleared.       *)
InDraft ==
    phase \in {"wizard", "submitting"} =>
        /\ draft.step = step
        /\ form \subseteq draft.form /\ draft.form \subseteq form \cup {"category"}

(* The answer to a wizard that was left reaches the one mounted since.      *)
LateAnswer ==
    \E s \in Sends : send[s].at = "stored" /\ send[s].heard = "page" /\ send'[s].at = "over"

(* What was written survives a reload, a visit to another page and a failed *)
(* submission, but for the category, which has to be picked again (Mount). *)
(* While the wizard goes on only one thing takes the draft away: the answer *)
(* of a wizard that was left before (submitComplaint clears whatever draft  *)
(* there is).  The form itself stays, and the next change to it is kept.   *)
FormStep ==
    /\ InDraft /\ ~LateAnswer => InDraft'
    /\ <<step', form'>> # <<step, form>> => InDraft'
    /\ LateAnswer => UNCHANGED <<phase, step, form>>
    /\ InDraft /\ phase \in {"wizard", "submitting"} /\ leaves' # leaves =>
          step' = step /\ form' = form \ {"category"}

FormKept == InDraft /\ [][FormStep]_vars

(* One press of the button, one complaint: a person who keeps to the page  *)
(* and whose answers arrive files once (submitComplaint, the disabled      *)
(* buttons of ComplaintStepReview).  There is no idempotency key: each     *)
(* lost answer and each time the page is left can add one more.            *)
OneComplaint == Cardinality(complaints) <= 1 + leaves + faults

(* The documents of a complaint stay within maxFiles although they are     *)
(* counted before the upload and not again (uploadPublicEvidence): a panel *)
(* sends one file at a time and a reload loses the token.  Only uploads    *)
(* that were given up on while they ran can come in beside them.           *)
FileLimit ==
    \A s \in Sends : Cardinality({u \in Of(s) : upload[u].at = "stored"}) <= MaxFiles
====
