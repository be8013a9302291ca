----------------------------- MODULE PublicSubmission_proof -----------------------------
(***************************************************************************)
(* What the public can rely on, for any number of files, sends, uploads,   *)
(* reloads and faults.                                                     *)
(*                                                                         *)
(* Two facts carry the rest: at most one send is awaited by the wizard, and*)
(* the upload the loop awaits is the only one that can still be stored in  *)
(* time.  Complaints are counted together with the sends on their way; a   *)
(* second one is paid for by a lost answer or by leaving the page.         *)
(***************************************************************************)
EXTENDS PublicSubmission, RecoveryState, FiniteSetTheorems, TLAPS

Awaited(s) == send[s].heard = "wizard"

SendInv ==
    /\ \A s \in Sends :
          /\ send[s].at \in {"none", "sent"} => s \notin complaints
          /\ send[s].at = "stored" => s \in complaints
          /\ Awaited(s) => phase = "submitting" /\ send[s].at \in {"sent", "stored", "failed"}
    /\ \A r, s \in Sends : Awaited(r) /\ Awaited(s) => r = s

ReferenceInv == phase \in {"success", "evidence", "expired"} => shown \in complaints

(* The complaints there are and may come.                                  *)
Coming == complaints \cup {s \in Sends : send[s].at = "sent"}

Spent == IF phase = "wizard" \/ \E s \in Sends : Awaited(s) /\ send[s].at = "failed"
         THEN 0 ELSE 1

CountInv == Cardinality(Coming) <= leaves + faults + Spent

IntakeInv == SendInv /\ ReferenceInv /\ CountInv

Kept(f) == \E u \in documents : upload[u].file = f /\ upload[u].complaint = shown

LoopInv ==
    /\ panel = "uploading" <=> current # 0
    /\ current # 0 => phase = "evidence" /\ upload[current].complaint = shown
    /\ phase = "evidence" => \A f \in Files : "done" \in {list[f], batch[f]} => Kept(f)
    /\ phase = "evidence" /\ panel = "complete" => \A f \in Listed(list) : list[f] = "done"
    /\ current # 0 /\ ~failed =>
          \A f \in Files : batch[f] \in {"off", "done"} \/ f \in todo \/ f = upload[current].file

InTime(s) == {u \in Of(s) : upload[u].at = "stored"}

Running(u) == upload[u].heard /\ upload[u].at \in {"sent", "counted"}

UploadInv ==
    \A u \in Uploads :
        /\ u \in documents <=> upload[u].at \in {"stored", "late"}
        /\ Running(u) => u = current
        /\ Running(u) /\ upload[u].at = "counted" =>
              \A s \in Sends : upload[u].complaint = s => Cardinality(InTime(s)) < MaxFiles

EvidenceInv == LoopInv /\ UploadInv /\ FileLimit

IInv == TypeOK /\ IntakeInv /\ EvidenceInv

-----------------------------------------------------------------------------
(* Types.                                                                  *)

LEMMA InitType == Init => TypeOK
<1> SUFFICES ASSUME Init PROVE TypeOK
  OBVIOUS
<1>1. draft \in Draft \cup {NoDraft} /\ step \in 1 .. 3 /\ form \subseteq Parts
  BY DEF Init, Draft, Blank
<1>2. list \in [Files -> Status] /\ batch \in [Files -> Status]
  BY DEF Init, NoFiles, Status
<1>3. send \in [Sends -> Send] /\ upload \in [Uploads -> Upload]
  BY DEF Init, Send, Upload
<1> QED
  BY <1>1, <1>2, <1>3 DEF Init, TypeOK

LEMMA ShowType ==
    ASSUME NEW s \in 1 .. 3, NEW f \in SUBSET Parts, Show(s, f)
    PROVE  step' \in 1 .. 3 /\ form' \subseteq Parts /\ draft' \in Draft \cup {NoDraft}
BY DEF Show, Draft

LEMMA SendChange ==
    ASSUME TypeOK, NEW s \in Sends, NEW a \in {"none", "sent", "stored", "failed", "over"},
           NEW h \in {"wizard", "page", "nobody"},
           send' = [send EXCEPT ![s] = [at |-> a, heard |-> h]]
    PROVE  /\ send' \in [Sends -> Send]
           /\ send'[s].at = a /\ send'[s].heard = h
           /\ \A r \in Sends : r # s => send'[r] = send[r]
BY DEF TypeOK, Send

LEMMA SendType ==
    ASSUME TypeOK, NEW s \in Sends
    PROVE  /\ send[s].at \in {"none", "sent", "stored", "failed", "over"}
           /\ send[s].heard \in {"wizard", "page", "nobody"}
BY DEF TypeOK, Send

LEMMA UploadType ==
    ASSUME TypeOK, NEW u \in Uploads
    PROVE  /\ upload[u].at \in {"none", "sent", "counted", "stored", "late", "failed"}
           /\ upload[u].file \in Files \cup {NoFile}
           /\ upload[u].complaint \in Sends \cup {0} /\ upload[u].heard \in BOOLEAN
BY DEF TypeOK, Upload

LEMMA UploadChange ==
    ASSUME TypeOK, NEW u \in Uploads,
           NEW a \in {"none", "sent", "counted", "stored", "late", "failed"},
           NEW f \in Files \cup {NoFile}, NEW c \in Sends \cup {0}, NEW h \in BOOLEAN,
           upload' = [upload EXCEPT ![u] = [at |-> a, file |-> f, complaint |-> c, heard |-> h]]
    PROVE  /\ upload' \in [Uploads -> Upload]
           /\ upload'[u].at = a /\ upload'[u].file = f
           /\ upload'[u].complaint = c /\ upload'[u].heard = h
           /\ \A v \in Uploads : v # u => upload'[v] = upload[v]
BY DEF TypeOK, Upload

(* Mount: every request goes on unheard.                                   *)
LEMMA Unheard ==
    ASSUME TypeOK, Mount
    PROVE  /\ upload' \in [Uploads -> Upload]
           /\ \A u \in Uploads : /\ upload'[u].at = upload[u].at
                                 /\ upload'[u].file = upload[u].file
                                 /\ upload'[u].complaint = upload[u].complaint
                                 /\ ~upload'[u].heard
BY DEF TypeOK, Upload, Mount

LEMMA MountSends ==
    ASSUME TypeOK, Visit \/ Reload
    PROVE  /\ send' \in [Sends -> Send]
           /\ \A s \in Sends : send'[s].at = send[s].at /\ send'[s].heard # "wizard"
BY DEF TypeOK, Send, Visit, Reload

LEMMA RoundType ==
    ASSUME TypeOK, NEW b \in [Files -> Status], NEW t \in SUBSET Files, NEW e \in BOOLEAN,
           Round(b, t, e)
    PROVE  /\ panel' \in {"idle", "uploading", "complete"}
           /\ list' \in [Files -> Status] /\ batch' \in [Files -> Status]
           /\ todo' \subseteq Files /\ failed' \in BOOLEAN
           /\ upload' \in [Uploads -> Upload] /\ current' \in Uploads \cup {0}
<1>1. CASE t = {} /\ upload' = upload /\ panel' = (IF e THEN "idle" ELSE "complete") /\ list' = b
           /\ batch' = NoFiles /\ todo' = {} /\ failed' = FALSE /\ current' = 0
  BY <1>1 DEF TypeOK, NoFiles, Status
<1>2. ASSUME NEW f \in t, NEW u \in Uploads,
             upload' = [upload EXCEPT ![u] = [at |-> "sent", file |-> f,
                                              complaint |-> shown, heard |-> TRUE]],
             panel' = "uploading", batch' = [b EXCEPT ![f] = "uploading"],
             list' = [b EXCEPT ![f] = "uploading"], todo' = t \ {f}, failed' = e, current' = u
      PROVE  /\ panel' \in {"idle", "uploading", "complete"}
             /\ list' \in [Files -> Status] /\ batch' \in [Files -> Status]
             /\ todo' \subseteq Files /\ failed' \in BOOLEAN
             /\ upload' \in [Uploads -> Upload] /\ current' \in Uploads \cup {0}
  <2>1. shown \in Sends \cup {0}
    BY DEF TypeOK
  <2>2. upload' \in [Uploads -> Upload]
    BY <1>2, <2>1, UploadChange
  <2> QED
    BY <1>2, <2>2 DEF Status
<1> QED
  BY <1>1, <1>2 DEF Round

LEMMA NextType == TypeOK /\ [Next]_vars => TypeOK'
<1> SUFFICES ASSUME TypeOK, [Next]_vars PROVE TypeOK'
  OBVIOUS
<1> USE DEF intake, wizard, loop, store, bounds
<1>1. ASSUME NEW p \in Parts, Edit(p) PROVE TypeOK'
  <2>1. PICK f \in SUBSET Parts : Show(step, f)
    BY <1>1 DEF Edit, TypeOK
  <2> QED
    BY <1>1, <2>1, ShowType DEF Edit, TypeOK
<1>2. CASE Turn
  <2>1. PICK s \in 1 .. 3 : Show(s, form)
    BY <1>2 DEF Turn, Next1, Next2, Back, TypeOK
  <2> QED
    BY <1>2, <2>1, ShowType DEF Turn, TypeOK
<1>3. CASE Cancel
  BY <1>3 DEF Cancel, TypeOK
<1>4. ASSUME NEW s \in Sends, Submit(s) PROVE TypeOK'
  BY <1>4, SendChange DEF Submit, TypeOK, Draft
<1>5. ASSUME NEW s \in Sends, Accepted(s) PROVE TypeOK'
  BY <1>5, SendChange DEF Accepted, Over, TypeOK
<1>6. ASSUME NEW s \in Sends, NotAccepted(s) PROVE TypeOK'
  <2>1. send' \in [Sends -> Send]
    BY <1>6, SendChange DEF NotAccepted, Over
  <2>2. step' \in 1 .. 3 /\ form' \subseteq Parts /\ draft' \in Draft \cup {NoDraft}
    BY <1>6, ShowType DEF NotAccepted, TypeOK
  <2> QED
    BY <1>6, <2>1, <2>2 DEF NotAccepted, TypeOK
<1>7. CASE Visit \/ Reload
  <2>1. Mount
    BY <1>7 DEF Visit, Reload
  <2>2. step' \in 1 .. 3 /\ form' \subseteq Parts /\ draft' \in Draft \cup {NoDraft}
    <3>1. CASE draft = NoDraft
      <4>1. Show(1, {}) /\ {} \in SUBSET Parts
        BY <2>1, <3>1 DEF Mount
      <4> QED
        BY <4>1, ShowType
    <3>2. CASE draft # NoDraft
      BY <2>1, <3>2 DEF Mount, Restore, TypeOK, Draft
    <3> QED
      BY <3>1, <3>2
  <2>3. panel' \in {"idle", "uploading", "complete"} /\ list' \in [Files -> Status]
        /\ batch' \in [Files -> Status] /\ todo' \subseteq Files /\ failed' \in BOOLEAN
        /\ current' \in Uploads \cup {0}
    BY <2>1 DEF Mount, NoPanel, NoFiles, Status
  <2> QED
    BY <1>7, <2>1, <2>2, <2>3, Unheard, MountSends DEF Mount, TypeOK
<1>8. ASSUME NEW s \in Sends, Server(s) \/ LoseAnswer(s) PROVE TypeOK'
  <2>1. send' \in [Sends -> Send]
    BY <1>8, SendChange, SendType DEF Server, StoreComplaint, RefuseComplaint, LoseAnswer, At
  <2> QED
    BY <1>8, <2>1 DEF Server, StoreComplaint, RefuseComplaint, LoseAnswer, TypeOK
<1>9. CASE ExpireSession \/ CloseEvidence \/ Finish
  BY <1>9 DEF ExpireSession, CloseEvidence, Finish, TypeOK
<1>10. CASE OpenEvidence
  BY <1>10 DEF OpenEvidence, NoPanel, NoFiles, Status, TypeOK
<1>11. ASSUME NEW f \in Files, AddFile(f) \/ RemoveFile(f) PROVE TypeOK'
  BY <1>11 DEF AddFile, RemoveFile, Status, TypeOK
<1>12. CASE UploadAll
  <2>1. Round(list, {f \in Listed(list) : list[f] # "done"}, FALSE)
    BY <1>12 DEF UploadAll
  <2>2. list \in [Files -> Status] /\ {f \in Listed(list) : list[f] # "done"} \in SUBSET Files
    BY DEF TypeOK, Listed
  <2> QED
    BY <1>12, <2>1, <2>2, RoundType DEF UploadAll, TypeOK
<1>13. CASE LoopGoesOn
  <2>1. PICK r \in {"done", "error"}, e \in BOOLEAN :
           Round([batch EXCEPT ![upload[current].file] = r], todo, e)
    BY <1>13 DEF LoopGoesOn, Uploaded, NotUploaded, TypeOK
  <2>2. [batch EXCEPT ![upload[current].file] = r] \in [Files -> Status] /\ todo \in SUBSET Files
    BY DEF TypeOK, Status
  <2>3. /\ panel' \in {"idle", "uploading", "complete"}
        /\ list' \in [Files -> Status] /\ batch' \in [Files -> Status]
        /\ todo' \subseteq Files /\ failed' \in BOOLEAN
        /\ upload' \in [Uploads -> Upload] /\ current' \in Uploads \cup {0}
    BY <2>1, <2>2, RoundType
  <2>4. UNCHANGED <<wizard, intake, stale, documents, bounds>>
    BY <1>13 DEF LoopGoesOn, Uploaded, NotUploaded
  <2> QED
    BY <2>3, <2>4 DEF TypeOK
<1>14. ASSUME NEW u \in Uploads, Evidence(u) \/ LoseUpload(u) PROVE TypeOK'
  <2>1. PICK a \in {"none", "sent", "counted", "stored", "late", "failed"}, h \in BOOLEAN :
           upload' = [upload EXCEPT ![u] = [at |-> a, file |-> upload[u].file,
                                            complaint |-> upload[u].complaint, heard |-> h]]
    BY <1>14, UploadType DEF Evidence, Count, StoreDocument, RefuseDocument, LoseUpload, Reach
  <2>2. upload' \in [Uploads -> Upload]
    BY <2>1, UploadChange, UploadType
  <2> QED
    BY <1>14, <2>2 DEF Evidence, Count, StoreDocument, RefuseDocument, LoseUpload, TypeOK
<1>15. CASE UNCHANGED vars
  BY <1>15 DEF vars, TypeOK
<1> QED
  BY <1>1, <1>2, <1>3, <1>4, <1>5, <1>6, <1>7, <1>8, <1>9, <1>10, <1>11, <1>12, <1>13, <1>14,
     <1>15 DEF Next, Answer

(* Type correctness.                                                       *)
THEOREM Types == Spec => []TypeOK
BY InitType, NextType, PTL DEF Spec

-----------------------------------------------------------------------------
(* The sends.                                                              *)

LEMMA SetOfSends ==
    ASSUME NEW S \in SUBSET Sends
    PROVE  IsFiniteSet(S) /\ Cardinality(S) \in Nat
<1>1. IsFiniteSet(Sends)
  BY LimitsAssumption, FS_Interval DEF Sends
<1> QED
  BY <1>1, FS_Subset, FS_CardinalityType

LEMMA InitIntake == Init => IntakeInv
<1> SUFFICES ASSUME Init PROVE IntakeInv
  OBVIOUS
<1>1. Coming = {}
  BY DEF Init, Coming
<1>2. Cardinality(Coming) = 0 /\ Spent = 0
  BY <1>1, FS_EmptySet DEF Init, Spent
<1>3. SendInv /\ ReferenceInv
  BY DEF Init, SendInv, Awaited, ReferenceInv
<1> QED
  BY <1>2, <1>3 DEF Init, IntakeInv, CountInv

(* Steps that leave the sends and the complaints alone.                    *)
LEMMA OtherSteps ==
    ASSUME TypeOK, IntakeInv, UNCHANGED <<send, complaints, leaves, faults>>,
           \/ phase' = phase
           \/ phase = "wizard" /\ phase' = "left"
           \/ phase \in {"success", "evidence", "expired"} /\
                 phase' \in {"success", "evidence", "expired", "left"},
           phase' \in {"success", "evidence", "expired"} => shown' = shown
    PROVE  IntakeInv'
<1>1. SendInv'
  <2>1. phase = "submitting" => phase' = "submitting"
    OBVIOUS
  <2> QED
    BY <2>1 DEF IntakeInv, SendInv, Awaited
<1>2. ReferenceInv'
  BY DEF IntakeInv, ReferenceInv
<1>3. Coming' = Coming /\ Spent \in {0, 1} /\ Spent' \in {0, 1} /\ (Spent = 1 => Spent' = 1)
  BY DEF Coming, Spent, Awaited
<1>4. Cardinality(Coming) \in Nat /\ leaves \in Nat /\ faults \in Nat
  BY SetOfSends DEF TypeOK, Coming
<1>5. CountInv'
  BY <1>3, <1>4 DEF IntakeInv, CountInv
<1> QED
  BY <1>1, <1>2, <1>5 DEF IntakeInv

LEMMA SendStep ==
    ASSUME TypeOK, TypeOK', IntakeInv, NEW s \in Sends,
           Submit(s) \/ Server(s) \/ LoseAnswer(s) \/ Answer(s)
    PROVE  IntakeInv'
<1> USE DEF Awaited
<1>1. SendInv /\ ReferenceInv /\ CountInv
  BY DEF IntakeInv
<1>2. /\ Coming \in SUBSET Sends /\ Coming' \in SUBSET Sends
      /\ leaves \in Nat /\ faults \in Nat
      /\ Spent \in {0, 1} /\ Spent' \in {0, 1}
  BY DEF TypeOK, Coming, Spent
<1>3. IsFiniteSet(Coming) /\ Cardinality(Coming) \in Nat /\ Cardinality(Coming') \in Nat
  BY <1>2, SetOfSends
<1>4. CASE Submit(s)
  <2>1. /\ send[s].at = "none" /\ phase = "wizard" /\ phase' = "submitting"
        /\ send' = [send EXCEPT ![s] = [at |-> "sent", heard |-> "wizard"]]
        /\ UNCHANGED <<complaints, leaves, faults>>
    BY <1>4 DEF Submit, bounds, Sends
  <2>2. /\ send'[s].at = "sent" /\ send'[s].heard = "wizard"
        /\ \A r \in Sends : r # s => send'[r] = send[r]
    BY <2>1, SendChange
  <2>3. SendInv'
    BY <1>1, <2>1, <2>2 DEF SendInv
  <2>4. Coming' = Coming \cup {s} /\ s \notin Coming
    BY <1>1, <2>1, <2>2 DEF Coming, SendInv
  <2>5. Cardinality(Coming') = Cardinality(Coming) + 1
    BY <1>3, <2>4, FS_AddElement
  <2>6. Spent = 0 /\ Spent' = 1
    BY <1>1, <2>1, <2>2 DEF Spent, SendInv
  <2>7. CountInv'
    BY <1>1, <1>2, <1>3, <2>1, <2>5, <2>6 DEF CountInv
  <2> QED
    BY <2>1, <2>3, <2>7 DEF IntakeInv, ReferenceInv
<1>5. CASE StoreComplaint(s)
  <2>1. /\ send[s].at = "sent" /\ complaints' = complaints \cup {s}
        /\ send' = [send EXCEPT ![s] = [at |-> "stored", heard |-> send[s].heard]]
        /\ UNCHANGED <<phase, shown, leaves, faults>>
    BY <1>5 DEF StoreComplaint, At, bounds, wizard
  <2>2. /\ send'[s].at = "stored" /\ send'[s].heard = send[s].heard
        /\ \A r \in Sends : r # s => send'[r] = send[r]
    BY <2>1, SendChange, SendType
  <2>3. SendInv'
    BY <1>1, <2>1, <2>2 DEF SendInv
  <2>4. Coming' = Coming
    BY <1>1, <2>1, <2>2 DEF Coming
  <2>5. Spent' = Spent
    BY <1>1, <2>1, <2>2 DEF Spent
  <2>6. CountInv'
    BY <1>1, <2>1, <2>4, <2>5 DEF CountInv
  <2> QED
    BY <1>1, <2>1, <2>3, <2>6 DEF IntakeInv, ReferenceInv
<1>6. CASE RefuseComplaint(s)
  <2>1. /\ send[s].at = "sent"
        /\ send' = [send EXCEPT ![s] = [at |-> "failed", heard |-> send[s].heard]]
        /\ UNCHANGED <<complaints, phase, shown, leaves, faults>>
    BY <1>6 DEF RefuseComplaint, At, bounds, wizard
  <2>2. /\ send'[s].at = "failed" /\ send'[s].heard = send[s].heard
        /\ \A r \in Sends : r # s => send'[r] = send[r]
    BY <2>1, SendChange, SendType
  <2>3. SendInv'
    BY <1>1, <2>1, <2>2 DEF SendInv
  <2>4. Coming' = Coming \ {s} /\ s \in Coming
    BY <1>1, <2>1, <2>2 DEF Coming, SendInv
  <2>5. Cardinality(Coming') = Cardinality(Coming) - 1
    BY <1>3, <2>4, FS_RemoveElement
  <2>6. CountInv'
    BY <1>1, <1>2, <1>3, <2>1, <2>5 DEF CountInv
  <2> QED
    BY <1>1, <2>1, <2>3, <2>6 DEF IntakeInv, ReferenceInv
<1>7. CASE LoseAnswer(s)
  <2>1. /\ send[s].at = "stored" /\ faults' = faults + 1
        /\ send' = [send EXCEPT ![s] = [at |-> "failed", heard |-> send[s].heard]]
        /\ UNCHANGED <<complaints, phase, shown, leaves>>
    BY <1>7 DEF LoseAnswer, At, wizard
  <2>2. /\ send'[s].at = "failed" /\ send'[s].heard = send[s].heard
        /\ \A r \in Sends : r # s => send'[r] = send[r]
    BY <2>1, SendChange, SendType
  <2>3. SendInv'
    BY <1>1, <2>1, <2>2 DEF SendInv
  <2>4. Coming' = Coming
    BY <1>1, <2>1, <2>2 DEF Coming
  <2>5. CountInv'
    BY <1>1, <1>2, <1>3, <2>1, <2>4 DEF CountInv
  <2> QED
    BY <1>1, <2>1, <2>3, <2>5 DEF IntakeInv, ReferenceInv
<1>8. CASE Accepted(s)
  <2>1. /\ send[s].at = "stored" /\ UNCHANGED <<complaints, leaves, faults>>
        /\ send' = [send EXCEPT ![s] = [at |-> "over", heard |-> "nobody"]]
        /\ \/ send[s].heard = "wizard" /\ phase' = "success" /\ shown' = s
           \/ send[s].heard # "wizard" /\ phase' = phase /\ shown' = shown
    BY <1>8 DEF Accepted, Over, bounds
  <2>2. /\ send'[s].at = "over" /\ send'[s].heard = "nobody"
        /\ \A r \in Sends : r # s => send'[r] = send[r]
    BY <2>1, SendChange
  <2>3. s \in complaints
    BY <1>1, <2>1 DEF SendInv
  <2>4. SendInv'
    BY <1>1, <2>1, <2>2, <2>3 DEF SendInv
  <2>5. Coming' = Coming
    BY <2>1, <2>2 DEF Coming
  <2>6. Spent' = 1 \/ Spent' = Spent
    BY <1>1, <2>1, <2>2 DEF Spent, SendInv
  <2>7. CountInv'
    BY <1>1, <1>2, <1>3, <2>1, <2>5, <2>6 DEF CountInv
  <2> QED
    BY <1>1, <2>1, <2>3, <2>4, <2>7 DEF IntakeInv, ReferenceInv
<1>9. CASE NotAccepted(s)
  <2>1. /\ send[s].at = "failed" /\ UNCHANGED <<complaints, shown, leaves, faults>>
        /\ send' = [send EXCEPT ![s] = [at |-> "over", heard |-> "nobody"]]
        /\ \/ send[s].heard = "wizard" /\ phase' = "wizard"
           \/ send[s].heard # "wizard" /\ phase' = phase
    BY <1>9 DEF NotAccepted, Over, bounds
  <2>2. /\ send'[s].at = "over" /\ send'[s].heard = "nobody"
        /\ \A r \in Sends : r # s => send'[r] = send[r]
    BY <2>1, SendChange
  <2>3. SendInv'
    BY <1>1, <2>1, <2>2 DEF SendInv
  <2>4. Coming' = Coming
    BY <2>1, <2>2 DEF Coming
  <2>5. Spent' = Spent
    BY <1>1, <2>1, <2>2 DEF Spent, SendInv
  <2>6. CountInv'
    BY <1>1, <2>1, <2>4, <2>5 DEF CountInv
  <2> QED
    BY <1>1, <2>1, <2>3, <2>6 DEF IntakeInv, ReferenceInv
<1> QED
  BY <1>4, <1>5, <1>6, <1>7, <1>8, <1>9 DEF Server, Answer

(* Leaving the page pays for the send that may be filed beside a second one. *)
LEMMA MountIntake ==
    ASSUME TypeOK, TypeOK', IntakeInv, Visit \/ Reload
    PROVE  IntakeInv'
<1>1. SendInv /\ CountInv /\ leaves \in Nat /\ faults \in Nat
  BY DEF IntakeInv, TypeOK
<1>2. /\ phase' = "wizard"
      /\ complaints' = complaints /\ leaves' = leaves + 1 /\ faults' = faults
  BY DEF Visit, Reload, Mount
<1>3. \A s \in Sends : send'[s].at = send[s].at /\ send'[s].heard # "wizard"
  BY MountSends
<1>4. SendInv'
  BY <1>1, <1>2, <1>3 DEF SendInv, Awaited
<1>5. Coming' = Coming /\ Spent' = 0 /\ Spent \in {0, 1}
  BY <1>2, <1>3 DEF Coming, Spent
<1>6. Cardinality(Coming) \in Nat
  BY SetOfSends DEF Coming, TypeOK
<1>7. CountInv'
  BY <1>1, <1>2, <1>5, <1>6 DEF CountInv
<1> QED
  BY <1>2, <1>4, <1>7 DEF IntakeInv, ReferenceInv

LEMMA NextIntake == TypeOK /\ TypeOK' /\ IntakeInv /\ [Next]_vars => IntakeInv'
<1> SUFFICES ASSUME TypeOK, TypeOK', IntakeInv, [Next]_vars PROVE IntakeInv'
  OBVIOUS
<1>2. CASE \/ \E p \in Parts : Edit(p)
           \/ Turn \/ Cancel
  <2>1. /\ UNCHANGED <<send, complaints, leaves, faults, shown>>
        /\ phase = "wizard" /\ phase' \in {"wizard", "left"}
    BY <1>2 DEF Edit, Turn, Cancel, intake, bounds
  <2> QED
    BY <2>1, OtherSteps
<1>3. CASE \/ ExpireSession \/ OpenEvidence \/ CloseEvidence \/ Finish \/ UploadAll \/ LoopGoesOn
           \/ \E f \in Files : AddFile(f) \/ RemoveFile(f)
           \/ \E u \in Uploads : Evidence(u)
  <2>1. /\ UNCHANGED <<send, complaints, leaves, faults, shown>>
        /\ \/ phase' = phase
           \/ phase \in {"success", "evidence", "expired"} /\
                 phase' \in {"success", "evidence", "expired", "left"}
    BY <1>3 DEF ExpireSession, OpenEvidence, CloseEvidence, Finish, UploadAll, LoopGoesOn,
                Uploaded, NotUploaded, AddFile, RemoveFile, Evidence, Count, StoreDocument,
                RefuseDocument, intake, wizard, bounds
  <2> QED
    BY <2>1, OtherSteps
<1>4. ASSUME NEW u \in Uploads, LoseUpload(u) PROVE IntakeInv'
  <2>1. /\ UNCHANGED <<send, complaints, shown, phase, leaves>>
        /\ faults' = faults + 1
    BY <1>4 DEF LoseUpload, intake, wizard, bounds
  <2>2. Coming' = Coming /\ Spent' = Spent /\ Spent \in {0, 1}
    BY <2>1 DEF Coming, Spent, Awaited
  <2>3. Cardinality(Coming) \in Nat /\ leaves \in Nat /\ faults \in Nat
    BY SetOfSends DEF Coming, TypeOK
  <2>4. CountInv'
    BY <2>1, <2>2, <2>3 DEF IntakeInv, CountInv
  <2> QED
    BY <2>1, <2>4 DEF IntakeInv, SendInv, Awaited, ReferenceInv, FormKept
<1>5. CASE UNCHANGED vars
  <2>1. UNCHANGED <<send, complaints, leaves, faults, shown, phase>>
    BY <1>5 DEF vars, intake, wizard, bounds
  <2> QED
    BY <2>1, OtherSteps
<1> QED
  BY <1>2, <1>3, <1>4, <1>5, SendStep, MountIntake DEF Next

-----------------------------------------------------------------------------
(* The uploads.                                                            *)

LEMMA SetOfUploads ==
    ASSUME NEW S \in SUBSET Uploads
    PROVE  IsFiniteSet(S) /\ Cardinality(S) \in Nat
<1>1. IsFiniteSet(Uploads)
  BY LimitsAssumption, FS_Interval DEF Uploads
<1> QED
  BY <1>1, FS_Subset, FS_CardinalityType

LEMMA InitEvidence == Init => EvidenceInv
<1> SUFFICES ASSUME Init PROVE EvidenceInv
  OBVIOUS
<1>1. LoopInv
  BY DEF Init, LoopInv
<1>2. UploadInv
  BY DEF Init, UploadInv, Running
<1>3. ASSUME NEW s \in Sends PROVE Cardinality(InTime(s)) <= MaxFiles
  <2>1. InTime(s) = {}
    BY DEF Init, InTime, Of
  <2> QED
    BY <2>1, FS_EmptySet, LimitsAssumption
<1> QED
  BY <1>1, <1>2, <1>3 DEF EvidenceInv, FileLimit, InTime

(* What is known of the uploads, if none is stored and none begins.        *)
LEMMA UploadsKept ==
    ASSUME EvidenceInv, documents' = documents,
           \A u \in Uploads : /\ upload'[u].complaint = upload[u].complaint
                              /\ upload'[u].at = upload[u].at
                              /\ Running(u)' => Running(u) /\ current' = current,
           documents \subseteq Uploads
    PROVE  UploadInv' /\ FileLimit'
<1>1. \A s : InTime(s)' = InTime(s)
  BY DEF InTime, Of
<1>2. FileLimit'
  BY <1>1 DEF EvidenceInv, FileLimit, InTime
<1>3. UploadInv'
  BY <1>1 DEF EvidenceInv, UploadInv
<1> QED
  BY <1>2, <1>3

(* What is known of the loop, if only the server moves.                    *)
LEMMA LoopKept ==
    ASSUME TypeOK, LoopInv, UNCHANGED <<panel, list, batch, todo, failed, current>>,
           phase' = phase, shown' = shown, documents \subseteq documents',
           \A u \in Uploads : /\ upload'[u].file = upload[u].file
                              /\ upload'[u].complaint = upload[u].complaint
    PROVE  LoopInv'
<1>1. \A f \in Files : Kept(f) => Kept(f)'
  BY DEF Kept, TypeOK
<1>2. current # 0 => current \in Uploads
  BY DEF TypeOK
<1> QED
  BY <1>1, <1>2 DEF LoopInv, Listed

(* Outside the panel nothing is known of the loop, but that it rests.      *)
LEMMA LoopApart ==
    ASSUME LoopInv, phase' # "evidence", current' = 0, panel' # "uploading"
    PROVE  LoopInv'
BY DEF LoopInv

(* One round of the loop, when no upload can be stored in time any more.   *)
LEMMA RoundStep ==
    ASSUME TypeOK, EvidenceInv, NEW b \in [Files -> Status], NEW t \in SUBSET Files,
           NEW e \in BOOLEAN, Round(b, t, e), phase = "evidence",
           UNCHANGED <<phase, shown, documents>>,
           \A u \in Uploads : ~Running(u),
           \A f \in Files : b[f] = "done" => Kept(f),
           e \/ \A f \in Files : b[f] \in {"off", "done"} \/ f \in t
    PROVE  EvidenceInv'
<1>1. LoopInv /\ UploadInv /\ documents \subseteq Uploads
  BY DEF EvidenceInv, TypeOK
<1>2. CASE /\ t = {} /\ upload' = upload /\ panel' = (IF e THEN "idle" ELSE "complete")
           /\ list' = b /\ batch' = NoFiles /\ todo' = {} /\ failed' = FALSE /\ current' = 0
  <2>1. \A f : Kept(f)' <=> Kept(f)
    BY <1>2 DEF Kept
  <2>2. LoopInv'
    BY <1>2, <2>1 DEF LoopInv, Listed, NoFiles
  <2>3. UploadInv' /\ FileLimit'
    BY <1>1, <1>2, UploadsKept DEF Running
  <2> QED
    BY <2>2, <2>3 DEF EvidenceInv
<1>3. ASSUME NEW f \in t, NEW u \in Uploads,
             upload[u].at = "none",
             upload' = [upload EXCEPT ![u] = [at |-> "sent", file |-> f,
                                              complaint |-> shown, heard |-> TRUE]],
             panel' = "uploading", batch' = [b EXCEPT ![f] = "uploading"],
             list' = [b EXCEPT ![f] = "uploading"], todo' = t \ {f}, failed' = e, current' = u
      PROVE  EvidenceInv'
  <2>1. /\ upload'[u].at = "sent" /\ upload'[u].file = f /\ upload'[u].complaint = shown
        /\ \A v \in Uploads : v # u => upload'[v] = upload[v]
    BY <1>3, UploadChange DEF TypeOK
  <2>2. u \notin documents
    BY <1>1, <1>3 DEF UploadInv
  <2>3. \A g : Kept(g) => Kept(g)'
    BY <1>1, <2>1, <2>2 DEF Kept
  <2>4. \A s : InTime(s)' = InTime(s)
    BY <1>1, <2>1, <2>2 DEF InTime, Of
  <2>5. u # 0
    BY DEF Uploads
  <2>6. \A g \in Files : batch'[g] = (IF g = f THEN "uploading" ELSE b[g]) /\ list'[g] = batch'[g]
    BY <1>3
  <2>7. LoopInv'
    BY <1>3, <2>1, <2>3, <2>5, <2>6 DEF LoopInv
  <2>8. UploadInv'
    BY <1>1, <1>3, <2>1, <2>2, <2>4 DEF UploadInv, Running
  <2>9. FileLimit'
    BY <2>4 DEF EvidenceInv, FileLimit, InTime
  <2> QED
    BY <2>7, <2>8, <2>9 DEF EvidenceInv
<1>4. ASSUME NEW u \in Uploads, \A v \in Uploads : upload[v].at = "none" <=> v >= u
      PROVE  upload[u].at = "none"
  BY <1>4 DEF Uploads
<1> QED
  BY <1>2, <1>3, <1>4 DEF Round

(* The server's side of an upload.                                         *)
LEMMA UploadStep ==
    ASSUME TypeOK, TypeOK', EvidenceInv, NEW u \in Uploads, Evidence(u) \/ LoseUpload(u)
    PROVE  EvidenceInv'
<1>1. LoopInv /\ UploadInv /\ FileLimit /\ documents \subseteq Uploads
  BY DEF EvidenceInv, TypeOK
<1>2. PICK a \in {"none", "sent", "counted", "stored", "late", "failed"}, h \in BOOLEAN :
         /\ upload' = [upload EXCEPT ![u] = [at |-> a, file |-> upload[u].file,
                                             complaint |-> upload[u].complaint, heard |-> h]]
         /\ \/ /\ Count(u) /\ a \in {"counted", "failed"} /\ h = upload[u].heard
               /\ a = "counted" => Cardinality(Of(upload[u].complaint)) < MaxFiles
            \/ StoreDocument(u) /\ h = upload[u].heard /\ a = IF h THEN "stored" ELSE "late"
            \/ RefuseDocument(u) /\ a = "failed"
            \/ LoseUpload(u) /\ a = upload[u].at /\ h = FALSE
  <2> DEFINE c == Cardinality(Of(upload[u].complaint))
  <2>1. MaxFiles \in Nat /\ c \in Nat /\ upload[u].heard \in BOOLEAN
    BY <1>1, LimitsAssumption, SetOfUploads, UploadType DEF Of
  <2>2. CASE Count(u)
    <3>1. PICK a \in {"counted", "failed"} :
             Reach(u, a) /\ (a = "counted" => ~(c >= MaxFiles))
      BY <2>2 DEF Count
    <3>2. a = "counted" => c < MaxFiles
      BY <2>1, <3>1
    <3> QED
      BY <2>1, <2>2, <3>1, <3>2 DEF Reach
  <2>3. CASE StoreDocument(u)
    <3>1. PICK a \in {"stored", "late"} :
             Reach(u, a) /\ a = IF upload[u].heard THEN "stored" ELSE "late"
      BY <2>3 DEF StoreDocument
    <3> QED
      BY <2>1, <2>3, <3>1 DEF Reach
  <2>4. CASE RefuseDocument(u)
    <3>1. Reach(u, "failed")
      BY <2>4 DEF RefuseDocument
    <3> QED
      BY <2>1, <2>4, <3>1 DEF Reach
  <2>5. CASE LoseUpload(u)
    <3>1. upload' = [upload EXCEPT ![u] = [at |-> upload[u].at, file |-> upload[u].file,
                        complaint |-> upload[u].complaint, heard |-> FALSE]]
      BY <2>5 DEF LoseUpload
    <3>2. upload[u].at \in {"none", "sent", "counted", "stored", "late", "failed"}
      BY UploadType
    <3> QED
      BY <2>5, <3>1, <3>2
  <2> QED
    BY <2>2, <2>3, <2>4, <2>5 DEF Evidence
<1>3. /\ upload'[u].at = a /\ upload'[u].heard = h /\ upload'[u].complaint = upload[u].complaint
      /\ upload'[u].file = upload[u].file
      /\ \A v \in Uploads : v # u => upload'[v] = upload[v]
  <2> DEFINE row == [at |-> a, file |-> upload[u].file,
                     complaint |-> upload[u].complaint, heard |-> h]
  <2>1. upload' = [upload EXCEPT ![u] = row] /\ DOMAIN upload = Uploads
    BY <1>2 DEF TypeOK
  <2>2. /\ row.at = a /\ row.heard = h /\ row.complaint = upload[u].complaint
        /\ row.file = upload[u].file
    OBVIOUS
  <2> HIDE DEF row
  <2>3. upload'[u] = row /\ \A v \in Uploads : v # u => upload'[v] = upload[v]
    BY <2>1
  <2> QED
    BY <2>2, <2>3
<1>4. LoopInv'
  <2>1. /\ UNCHANGED <<panel, list, batch, todo, failed, current, phase, shown>>
        /\ documents \subseteq documents'
    BY DEF Evidence, Count, StoreDocument, RefuseDocument, LoseUpload, loop, wizard
  <2> QED
    BY <1>1, <1>3, <2>1, LoopKept
<1>5. current' = current
  BY DEF Evidence, Count, StoreDocument, RefuseDocument, LoseUpload, loop
<1>6. ASSUME documents' = documents, \A s : InTime(s)' = InTime(s),
             u \in documents <=> a \in {"stored", "late"},
             Running(u)' => Running(u),
             Running(u)' /\ a = "counted" =>
                \A s \in Sends : upload[u].complaint = s => Cardinality(InTime(s)) < MaxFiles
      PROVE  EvidenceInv'
  <2>1. FileLimit'
    BY <1>1, <1>6 DEF FileLimit, InTime
  <2>2. UploadInv'
    BY <1>1, <1>3, <1>5, <1>6 DEF UploadInv, Running
  <2> QED
    BY <1>4, <2>1, <2>2 DEF EvidenceInv
<1>7. CASE Count(u) /\ a \in {"counted", "failed"} /\ h = upload[u].heard
           /\ (a = "counted" => Cardinality(Of(upload[u].complaint)) < MaxFiles)
  <2>1. upload[u].at = "sent" /\ documents' = documents
    BY <1>7 DEF Count
  <2>2. u \notin documents
    BY <1>1, <2>1 DEF UploadInv
  <2>3. \A s : InTime(s)' = InTime(s)
    BY <1>1, <1>3, <2>1, <2>2 DEF InTime, Of
  <2>4. ASSUME a = "counted" PROVE Cardinality(InTime(upload[u].complaint)) < MaxFiles
    <3> DEFINE D == Of(upload[u].complaint)
               I == InTime(upload[u].complaint)
    <3>1. IsFiniteSet(D) /\ Cardinality(D) \in Nat /\ Cardinality(I) \in Nat
      BY <1>1, SetOfUploads DEF Of, InTime
    <3>2. Cardinality(I) <= Cardinality(D)
      BY <3>1, FS_Subset DEF InTime
    <3> QED
      BY <1>7, <2>4, <3>1, <3>2, LimitsAssumption
  <2>5. Running(u)' => Running(u)
    BY <1>3, <1>7, <2>1 DEF Running
  <2> QED
    BY <1>6, <1>7, <2>1, <2>2, <2>3, <2>4, <2>5
<1>8. CASE RefuseDocument(u) /\ a = "failed"
  <2>1. upload[u].at \in {"sent", "counted"} /\ documents' = documents
    BY <1>8 DEF RefuseDocument
  <2>2. u \notin documents
    BY <1>1, <2>1 DEF UploadInv
  <2>3. \A s : InTime(s)' = InTime(s)
    BY <1>1, <1>3, <2>1, <2>2 DEF InTime, Of
  <2>4. ~Running(u)'
    BY <1>3, <1>8 DEF Running
  <2> QED
    BY <1>6, <1>8, <2>1, <2>2, <2>3, <2>4
<1>9. CASE LoseUpload(u) /\ a = upload[u].at /\ h = FALSE
  <2>1. documents' = documents
    BY <1>9 DEF LoseUpload
  <2>2. UploadInv' /\ FileLimit'
    BY <1>1, <1>3, <1>5, <1>9, <2>1, UploadsKept DEF Running
  <2> QED
    BY <1>4, <2>2 DEF EvidenceInv
<1>10. CASE StoreDocument(u) /\ h = upload[u].heard /\ a = IF h THEN "stored" ELSE "late"
  <2>1. upload[u].at = "counted" /\ documents' = documents \cup {u} /\ a \in {"stored", "late"}
    BY <1>10 DEF StoreDocument
  <2>2. u \notin documents
    BY <1>1, <2>1 DEF UploadInv
  <2>3. \A s : InTime(s)' = IF h /\ upload[u].complaint = s THEN InTime(s) \cup {u} ELSE InTime(s)
    BY <1>1, <1>3, <1>10, <2>1, <2>2 DEF InTime, Of
  <2>4. CASE ~h
    <3>1. \A s : InTime(s)' = InTime(s)
      BY <2>3, <2>4
    <3>2. FileLimit'
      BY <1>1, <3>1 DEF FileLimit, InTime
    <3>3. UploadInv'
      BY <1>1, <1>3, <1>5, <2>1, <3>1 DEF UploadInv, Running
    <3> QED
      BY <1>4, <3>2, <3>3 DEF EvidenceInv
  <2>5. CASE h
    <3>1. Running(u) /\ u = current
      BY <1>1, <1>10, <2>1, <2>5 DEF UploadInv, Running
    <3>2. \A v \in Uploads : ~Running(v)'
      BY <1>1, <1>3, <2>1, <3>1 DEF UploadInv, Running
    <3>3. UploadInv'
      BY <1>1, <1>3, <2>1, <3>2 DEF UploadInv
    <3>4. ASSUME NEW s \in Sends PROVE Cardinality(InTime(s)') <= MaxFiles
      <4>1. /\ IsFiniteSet(InTime(s)) /\ Cardinality(InTime(s)) \in Nat
            /\ Cardinality(InTime(s)) <= MaxFiles /\ MaxFiles \in Nat
        BY <1>1, SetOfUploads, LimitsAssumption DEF FileLimit, InTime, Of
      <4>2. CASE upload[u].complaint = s
        <5>1. Cardinality(InTime(s)) < MaxFiles /\ InTime(s)' = InTime(s) \cup {u}
          BY <1>1, <2>1, <2>3, <2>5, <3>1, <4>2 DEF UploadInv
        <5> DEFINE T == InTime(s)
        <5>2. /\ IsFiniteSet(T) /\ Cardinality(T) \in Nat /\ Cardinality(T) < MaxFiles
              /\ MaxFiles \in Nat
          BY <4>1, <5>1
        <5>3. InTime(s)' = T \cup {u}
          BY <5>1
        <5> HIDE DEF T
        <5>4. \/ Cardinality(T \cup {u}) = Cardinality(T)
              \/ Cardinality(T \cup {u}) = Cardinality(T) + 1
          BY <5>2, FS_AddElement
        <5>5. Cardinality(T \cup {u}) <= MaxFiles
          BY <5>2, <5>4
        <5> QED
          BY <5>3, <5>5
      <4>3. CASE upload[u].complaint # s
        BY <2>3, <4>1, <4>3
      <4> QED
        BY <4>2, <4>3
    <3>5. FileLimit'
      BY <3>4 DEF FileLimit, InTime
    <3> QED
      BY <1>4, <3>3, <3>5 DEF EvidenceInv
  <2> QED
    BY <2>4, <2>5
<1> QED
  BY <1>2, <1>7, <1>8, <1>9, <1>10

-----------------------------------------------------------------------------
(* Away from the panel, or with a panel that rests, no upload is awaited.  *)
LEMMA Resting ==
    ASSUME LoopInv, (phase # "evidence") \/ (panel # "uploading")
    PROVE  current = 0
BY DEF LoopInv

(* The person's side: the wizard, its answers, and the server's side of it.*)
LEMMA WizardStep ==
    ASSUME TypeOK, TypeOK', IntakeInv, EvidenceInv,
           UNCHANGED <<panel, list, batch, todo, failed, current, upload, documents>>,
           (phase' # phase \/ shown' # shown) => phase' # "evidence" /\ current = 0
    PROVE  EvidenceInv'
<1>1. LoopInv /\ UploadInv /\ FileLimit
  BY DEF EvidenceInv
<1>2. LoopInv'
  <2>1. CASE phase' = phase /\ shown' = shown
    BY <1>1, <2>1, LoopKept
  <2>2. CASE phase' # "evidence" /\ current = 0
    <3>1. panel # "uploading"
      BY <1>1, <2>2 DEF LoopInv
    <3> QED
      BY <1>1, <2>2, <3>1, LoopApart
  <2> QED
    BY <2>1, <2>2
<1>3. UploadInv' /\ FileLimit'
  BY UploadsKept DEF Running, TypeOK
<1> QED
  BY <1>2, <1>3 DEF EvidenceInv

LEMMA NextEvidence == TypeOK /\ TypeOK' /\ IntakeInv /\ EvidenceInv /\ [Next]_vars => EvidenceInv'
<1> SUFFICES ASSUME TypeOK, TypeOK', IntakeInv, EvidenceInv, [Next]_vars PROVE EvidenceInv'
  OBVIOUS
<1>1. LoopInv /\ UploadInv /\ FileLimit /\ SendInv /\ documents \subseteq Uploads
  BY DEF EvidenceInv, IntakeInv, TypeOK
<1>2. CASE \/ \E p \in Parts : Edit(p)
           \/ Turn \/ Cancel \/ ExpireSession \/ CloseEvidence \/ Finish
           \/ UNCHANGED vars
  <2>1. /\ UNCHANGED <<panel, list, batch, todo, failed, current, upload, documents, shown>>
        /\ \/ phase' = phase
           \/ phase' # "evidence" /\ (phase # "evidence" \/ panel # "uploading")
    BY <1>2 DEF Edit, Turn, Cancel, ExpireSession, CloseEvidence, Finish, vars, loop, store, wizard
  <2> QED
    BY <1>1, <2>1, Resting, WizardStep
<1>3. ASSUME NEW s \in Sends, Submit(s) \/ Server(s) \/ LoseAnswer(s) \/ Answer(s)
      PROVE  EvidenceInv'
  <2>1. UNCHANGED <<panel, list, batch, todo, failed, current, upload, documents>>
    BY <1>3 DEF Submit, Server, StoreComplaint, RefuseComplaint, LoseAnswer, Answer, Accepted,
                NotAccepted, loop, store
  <2>2. \/ UNCHANGED <<phase, shown>>
        \/ phase = "wizard" /\ phase' = "submitting"
        \/ Awaited(s) /\ phase' \in {"wizard", "success"}
    BY <1>3 DEF Submit, Server, StoreComplaint, RefuseComplaint, LoseAnswer, Answer, Accepted,
                NotAccepted, wizard, Awaited
  <2>3. Awaited(s) => phase = "submitting"
    BY <1>1 DEF SendInv
  <2> QED
    BY <1>1, <2>1, <2>2, <2>3, Resting, WizardStep
<1>4. CASE Visit \/ Reload
  <2>1. /\ Mount /\ phase' = "wizard" /\ documents' = documents
        /\ current' = 0 /\ panel' = "idle"
    BY <1>4 DEF Visit, Reload, Mount, NoPanel
  <2>2. LoopInv'
    BY <1>1, <2>1, LoopApart
  <2>3. \A u \in Uploads : /\ upload'[u].complaint = upload[u].complaint
                            /\ upload'[u].at = upload[u].at /\ ~upload'[u].heard
    BY <2>1, Unheard
  <2>4. UploadInv' /\ FileLimit'
    BY <1>1, <2>1, <2>3, UploadsKept DEF Running
  <2> QED
    BY <2>2, <2>4 DEF EvidenceInv
<1>5. CASE OpenEvidence
  <2>1. /\ phase = "success" /\ NoPanel /\ UNCHANGED <<upload, documents>>
    BY <1>5 DEF OpenEvidence, store
  <2>2. current = 0 /\ current' = 0
    BY <1>1, <2>1, Resting DEF NoPanel
  <2>3. LoopInv'
    BY <2>1 DEF LoopInv, NoPanel, NoFiles, Listed
  <2>4. UploadInv' /\ FileLimit'
    BY <1>1, <2>1, <2>2, UploadsKept DEF Running
  <2> QED
    BY <2>3, <2>4 DEF EvidenceInv
<1>6. ASSUME NEW f \in Files, AddFile(f) \/ RemoveFile(f) PROVE EvidenceInv'
  <2>1. /\ UNCHANGED <<phase, shown, panel, batch, todo, failed, current, upload, documents>>
        /\ panel # "complete"
        /\ \A g \in Files : list'[g] = "done" => list[g] = "done"
    BY <1>6 DEF AddFile, RemoveFile, wizard, store, TypeOK
  <2>2. LoopInv'
    BY <1>1, <2>1 DEF LoopInv, Kept
  <2>3. UploadInv' /\ FileLimit'
    BY <1>1, <2>1, UploadsKept DEF Running
  <2> QED
    BY <2>2, <2>3 DEF EvidenceInv
<1>7. CASE UploadAll
  <2> DEFINE t == {f \in Listed(list) : list[f] # "done"}
  <2>1. /\ phase = "evidence" /\ panel = "idle" /\ Round(list, t, FALSE)
        /\ UNCHANGED <<phase, shown, documents>>
    BY <1>7 DEF UploadAll, wizard
  <2>2. \A u \in Uploads : ~Running(u)
    BY <1>1, <2>1, Resting DEF UploadInv, Uploads
  <2>3. /\ \A f \in Files : list[f] = "done" => Kept(f)
        /\ \A f \in Files : list[f] \in {"off", "done"} \/ f \in t
    BY <1>1, <2>1 DEF LoopInv, Listed
  <2>4. list \in [Files -> Status] /\ t \in SUBSET Files
    BY DEF TypeOK, Listed
  <2> HIDE DEF t
  <2> QED
    BY <2>1, <2>2, <2>3, <2>4, RoundStep
<1>8. CASE LoopGoesOn
  <2>1. PICK r \in {"done", "error"}, e \in BOOLEAN :
           /\ Round([batch EXCEPT ![upload[current].file] = r], todo, e)
           /\ r = "error" => e
           /\ ~e => ~failed
           /\ r = "done" => upload[current].at = "stored"
    BY <1>8 DEF LoopGoesOn, Uploaded, NotUploaded, TypeOK
  <2>2. /\ current # 0 /\ UNCHANGED <<phase, shown, documents>>
        /\ (upload[current].at \in {"stored", "failed"}) \/ ~upload[current].heard
    BY <1>8 DEF LoopGoesOn, Uploaded, NotUploaded, wizard
  <2>3. /\ phase = "evidence" /\ upload[current].complaint = shown /\ current \in Uploads
    BY <1>1, <2>2 DEF LoopInv, TypeOK
  <2>4. \A u \in Uploads : ~Running(u)
    BY <1>1, <2>2 DEF UploadInv, Running
  <2> DEFINE b == [batch EXCEPT ![upload[current].file] = r]
  <2>5. b \in [Files -> Status] /\ todo \in SUBSET Files /\ batch \in [Files -> Status]
    BY DEF TypeOK, Status
  <2>6. \A f \in Files : b[f] = IF f = upload[current].file THEN r ELSE batch[f]
    BY <2>5
  <2> HIDE DEF b
  <2>7. r = "done" => current \in documents
    BY <1>1, <2>1, <2>3 DEF UploadInv
  <2>8. \A f \in Files : b[f] = "done" => Kept(f)
    BY <1>1, <2>3, <2>6, <2>7 DEF LoopInv, Kept
  <2>9. e \/ \A f \in Files : b[f] \in {"off", "done"} \/ f \in todo
    BY <1>1, <2>1, <2>2, <2>6 DEF LoopInv
  <2>10. Round(b, todo, e)
    BY <2>1 DEF b
  <2> QED
    BY <2>2, <2>3, <2>4, <2>5, <2>8, <2>9, <2>10, RoundStep
<1>9. ASSUME NEW u \in Uploads, Evidence(u) \/ LoseUpload(u) PROVE EvidenceInv'
  BY <1>9, UploadStep
<1> QED
  BY <1>2, <1>3, <1>4, <1>5, <1>6, <1>7, <1>8, <1>9 DEF Next

-----------------------------------------------------------------------------
LEMMA Invariant == Spec => []IInv
<1>1. Init => IInv
  BY InitType, InitIntake, InitEvidence DEF IInv
<1>2. IInv /\ [Next]_vars => IInv'
  BY NextType, NextIntake, NextEvidence DEF IInv
<1> QED
  BY <1>1, <1>2, PTL DEF Spec

(* The reference on the screen is that of a stored complaint, a file marked*)
(* as uploaded is stored, and success means every listed file is           *)
(* (SET_SUBMITTED, uploadAll).                                             *)
THEOREM ShownTrue == Spec => []ShownIsTrue
<1>1. IInv => ShownIsTrue
  <2> SUFFICES ASSUME IInv PROVE ShownIsTrue
    OBVIOUS
  <2>1. ReferenceInv /\ LoopInv
    BY DEF IInv, IntakeInv, EvidenceInv
  <2> QED
    BY <2>1 DEF ShownIsTrue, ReferenceInv, LoopInv, Kept, Listed
<1> QED
  BY <1>1, Invariant, PTL

(* The wizard is the same, or gone for good or for the evidence panel.      *)
LEMMA FormAside ==
    ASSUME UNCHANGED <<step, form, draft, leaves>>, ~LateAnswer,
           phase' \in {"wizard", "submitting"} => phase' = phase
    PROVE  FormStep
BY DEF FormStep, InDraft

(* What is on the form was written to the draft.                           *)
LEMMA FormWritten ==
    ASSUME draft' = [step |-> step', form |-> form'], leaves' = leaves, ~LateAnswer
    PROVE  FormStep
BY DEF FormStep, InDraft

LEMMA FormSteps == TypeOK /\ [Next]_vars => [FormStep]_vars
<1> SUFFICES ASSUME TypeOK, [Next]_vars PROVE FormStep \/ UNCHANGED vars
  OBVIOUS
<1> USE DEF intake, wizard, loop, store, bounds
<1>1. send' = send => ~LateAnswer
  BY DEF LateAnswer
<1>2. CASE \/ \E p \in Parts : Edit(p)
           \/ Turn
  BY <1>1, <1>2, FormWritten DEF Edit, Turn, Next1, Next2, Back, Show
<1>3. CASE Cancel
  BY <1>1, <1>3 DEF Cancel, FormStep, InDraft
<1>4. ASSUME NEW s \in Sends, Submit(s) PROVE FormStep
  <2>1. /\ draft' = [step |-> step', form |-> form'] /\ leaves' = leaves
        /\ send' = [send EXCEPT ![s] = [at |-> "sent", heard |-> "wizard"]]
    BY <1>4 DEF Submit
  <2>2. ~LateAnswer
    BY <2>1, SendChange DEF LateAnswer
  <2> QED
    BY <2>1, <2>2, FormWritten
<1>5. ASSUME NEW s \in Sends, Server(s) \/ LoseAnswer(s) PROVE FormStep
  <2>1. /\ UNCHANGED <<phase, step, form, draft, leaves>>
        /\ send'[s].at \in {"stored", "failed"}
        /\ \A r \in Sends : r # s => send'[r] = send[r]
    BY <1>5, SendChange, SendType
       DEF Server, StoreComplaint, RefuseComplaint, LoseAnswer, At
  <2>2. ~LateAnswer
    BY <2>1, SendType DEF LateAnswer
  <2> QED
    BY <2>1, <2>2, FormAside
<1>6. ASSUME NEW s \in Sends, Accepted(s) PROVE FormStep
  <2>1. /\ send[s].at = "stored" /\ send[s].heard \in {"wizard", "page"}
        /\ send'[s].at = "over" /\ UNCHANGED <<step, form, leaves>>
    BY <1>6, SendChange, SendType DEF Accepted, Over
  <2>2. CASE send[s].heard = "wizard"
    <3>1. phase' = "success"
      BY <1>6, <2>2 DEF Accepted
    <3>2. ~LateAnswer
      <4>1. \A r \in Sends : r # s => send'[r] = send[r]
        BY <1>6, SendChange DEF Accepted, Over
      <4> QED
        BY <2>2, <4>1 DEF LateAnswer
    <3> QED
      BY <2>1, <3>1, <3>2 DEF FormStep, InDraft
  <2>3. CASE send[s].heard = "page"
    BY <1>6, <2>1, <2>3 DEF Accepted, FormStep, LateAnswer
  <2> QED
    BY <2>1, <2>2, <2>3
<1>7. ASSUME NEW s \in Sends, NotAccepted(s) PROVE FormStep
  <2>1. /\ send[s].at = "failed"
        /\ \A r \in Sends : r # s => send'[r] = send[r]
    BY <1>7, SendChange DEF NotAccepted, Over
  <2>2. ~LateAnswer
    BY <2>1 DEF LateAnswer
  <2> QED
    BY <1>7, <2>2, FormAside, FormWritten DEF NotAccepted, Show
<1>8. CASE Visit \/ Reload
  <2>1. Mount
    BY <1>8 DEF Visit, Reload
  <2>2. ~LateAnswer
    BY <1>8, MountSends DEF LateAnswer
  <2>3. CASE draft = NoDraft
    <3>1. draft.step = 0 /\ step \in 1 .. 3
      BY <2>3 DEF NoDraft, TypeOK
    <3> QED
      BY <2>1, <2>2, <2>3, <3>1 DEF Mount, Show, FormStep, InDraft
  <2>4. CASE draft # NoDraft
    <3>1. /\ step' = draft.step /\ form' = draft.form \ {"category"}
          /\ draft' = draft \/ draft' = [step |-> step', form |-> form']
      BY <2>1, <2>4 DEF Mount, Restore
    <3>2. InDraft'
      BY <3>1 DEF InDraft
    <3>3. InDraft /\ phase \in {"wizard", "submitting"} => step' = step /\ form' = form \ {"category"}
      BY <3>1 DEF InDraft
    <3> QED
      BY <2>2, <3>2, <3>3 DEF FormStep
  <2> QED
    BY <2>3, <2>4
<1>9. CASE \/ ExpireSession \/ OpenEvidence \/ CloseEvidence \/ Finish \/ UploadAll \/ LoopGoesOn
           \/ \E f \in Files : AddFile(f) \/ RemoveFile(f)
           \/ \E u \in Uploads : Evidence(u) \/ LoseUpload(u)
  <2>1. /\ UNCHANGED <<send, step, form, draft, leaves>>
        /\ phase' \in {"wizard", "submitting"} => phase' = phase
    BY <1>9 DEF ExpireSession, OpenEvidence, CloseEvidence, Finish, UploadAll, LoopGoesOn,
                Uploaded, NotUploaded, AddFile, RemoveFile, Evidence, Count, StoreDocument,
                RefuseDocument, LoseUpload
  <2> QED
    BY <1>1, <2>1, FormAside
<1> QED
  BY <1>2, <1>3, <1>4, <1>5, <1>6, <1>7, <1>8, <1>9 DEF Next, Answer

(* What was written survives a reload, a visit and a failed submission, but*)
(* for the category; only the answer of a wizard that was left takes the   *)
(* draft away, and never the form (submitComplaint, RESTORE_DRAFT).        *)
THEOREM FormsKept == Spec => FormKept
<1>1. Init => InDraft
  BY DEF Init, InDraft, Blank
<1>2. TypeOK /\ [Next]_vars => [FormStep]_vars
  BY FormSteps
<1> QED
  BY <1>1, <1>2, Types, PTL DEF Spec, FormKept

(* Beyond the first, every complaint is paid for by a lost answer or by    *)
(* leaving the page (submitComplaint, ComplaintStepReview).                *)
THEOREM CountedOnce == Spec => []OneComplaint
<1>1. IInv => OneComplaint
  <2> SUFFICES ASSUME IInv PROVE OneComplaint
    OBVIOUS
  <2>1. /\ CountInv /\ leaves \in Nat /\ faults \in Nat /\ Spent \in {0, 1}
        /\ complaints \in SUBSET Sends /\ Coming \in SUBSET Sends
    BY DEF IInv, IntakeInv, TypeOK, Coming, Spent
  <2>2. /\ IsFiniteSet(Coming) /\ Cardinality(Coming) \in Nat
        /\ Cardinality(complaints) \in Nat
    BY <2>1, SetOfSends
  <2>3. Cardinality(complaints) <= Cardinality(Coming)
    BY <2>2, FS_Subset DEF Coming
  <2> QED
    BY <2>1, <2>2, <2>3 DEF CountInv, OneComplaint
<1> QED
  BY <1>1, Invariant, PTL

(* The documents stored in time stay within the limit, though it is checked*)
(* before the upload only (uploadPublicEvidence).                          *)
THEOREM WithinLimit == Spec => []FileLimit
<1>1. IInv => FileLimit
  BY DEF IInv, EvidenceInv
<1> QED
  BY <1>1, Invariant, PTL

-----------------------------------------------------------------------------
(***************************************************************************)
(* The way back to a complaint whose reference is lost: ReferenceRecovery, *)
(* for any number of workers, codes, entries and faults.  Its state is     *)
(* that of RecoveryState.                                                  *)
(*                                                                         *)
(* A code is one number, and everything that holds it is accounted for:    *)
(* the key, the workers that carry a copy of it, its uses and its wrong    *)
(* entries.  A copy outlives its key only when two requests overlap, and   *)
(* each overlap and each fault pays for at most one of them.               *)
(***************************************************************************)
CONSTANTS RequestLimit, MaxEntries

Recovery == INSTANCE ReferenceRecovery

(* Where a request can be; the requests a step leaves alone.               *)
Steps == {"idle", "limit", "expire", "persist", "mail", "get", "put", "clear", "lock",
          "use", "answer"}

Others(w) == \A v \in Workers : v # w => pc'[v] = pc[v] /\ job'[v] = job[v]

LEMMA RecoveryGoes ==
    ASSUME Recovery!TypeOK, NEW w \in Workers, NEW s \in Steps, Recovery!Goto(w, s),
           NEW j \in Recovery!Job, job' = [job EXCEPT ![w] = j]
    PROVE  /\ pc' \in [Workers -> Steps] /\ job' \in [Workers -> Recovery!Job]
           /\ pc'[w] = s /\ job'[w] = j /\ Others(w)
BY DEF Recovery!TypeOK, Recovery!Goto, Steps, Others

LEMMA RecoveryStays ==
    ASSUME Recovery!TypeOK, NEW w \in Workers, NEW s \in Steps, Recovery!Goto(w, s), job' = job
    PROVE  /\ pc' \in [Workers -> Steps] /\ job' \in [Workers -> Recovery!Job]
           /\ pc'[w] = s /\ job'[w] = job[w] /\ Others(w)
BY DEF Recovery!TypeOK, Recovery!Goto, Steps, Others

LEMMA RecoveryNoJob ==
    /\ Recovery!NoJob \in Recovery!Job /\ Recovery!NoJob.entry = 0
    /\ Recovery!NoJob.otp = Recovery!NoOtp
    /\ Recovery!NoOtp \in Recovery!Otp /\ Recovery!NoOtp.code = 0 /\ Recovery!NoOtp.attempts = 0
BY DEF Recovery!NoJob, Recovery!NoOtp, Recovery!Job, Recovery!Otp

LEMMA RecoveryLeaves ==
    ASSUME Recovery!TypeOK, NEW w \in Workers, Recovery!Done(w)
    PROVE  /\ pc' \in [Workers -> Steps] /\ job' \in [Workers -> Recovery!Job]
           /\ pc'[w] = "idle" /\ job'[w] = Recovery!NoJob /\ Others(w)
BY RecoveryGoes, RecoveryNoJob DEF Recovery!Done, Steps

LEMMA RecoveryJobType ==
    ASSUME Recovery!TypeOK, NEW w \in Workers
    PROVE  /\ job[w] \in Recovery!Job /\ job[w].entry \in Recovery!Codes \cup {0}
           /\ job[w].count \in Nat
           /\ job[w].otp \in Recovery!Otp
           /\ job[w].otp.code \in Recovery!Codes \cup {0} /\ job[w].otp.attempts \in Nat
           /\ pc[w] \in Steps
BY DEF Recovery!TypeOK, Recovery!Job, Recovery!Otp, Steps

LEMMA RecoveryNumbers ==
    ASSUME Recovery!TypeOK
    PROVE  /\ otp \in Recovery!Otp /\ otp.code \in Recovery!Codes \cup {0}
           /\ otp.attempts \in Nat
           /\ otp.attempts < MaxAttempts
           /\ asked \in [count : Nat, expires : BOOLEAN] /\ asked.count \in Nat
           /\ codes \in Nat /\ overlaps \in Nat /\ begun \in Nat /\ entries \in Nat
           /\ broken \in Nat /\ MaxAttempts \in Nat \ {0} /\ MaxCodes \in Nat
           /\ \A c \in Recovery!Codes : c \in Nat /\ c > 0 /\ wrong[c] \in Nat /\ used[c] \in Nat
<1>1. otp \in [code : Recovery!Codes, attempts : 0 .. MaxAttempts - 1] \cup {Recovery!NoOtp}
  BY DEF Recovery!TypeOK
<1>2. otp \in Recovery!Otp /\ otp.attempts < MaxAttempts
  BY <1>1, CodesAssumption DEF Recovery!NoOtp, Recovery!Otp
<1>3. otp.code \in Recovery!Codes \cup {0} /\ otp.attempts \in Nat
  BY <1>2 DEF Recovery!Otp
<1>4. codes \in 0 .. MaxCodes /\ {overlaps, begun, entries, broken} \subseteq Nat
  BY DEF Recovery!TypeOK
<1>5. asked \in [count : Nat, expires : BOOLEAN]
  BY DEF Recovery!TypeOK
<1>6. \A c \in Recovery!Codes : c \in Nat /\ c > 0
  BY CodesAssumption DEF Recovery!Codes
<1>7. wrong \in [Recovery!Codes -> Nat] /\ used \in [Recovery!Codes -> Nat]
  BY DEF Recovery!TypeOK
<1> QED
  BY <1>2, <1>3, <1>4, <1>5, <1>6, <1>7, CodesAssumption

(* A step as it is seen by the others.                                     *)
LEMMA RecoveryBegins ==
    ASSUME Recovery!TypeOK, NEW w \in Workers,
           Recovery!Request(w) \/ \E e \in mailed \cup {0} : Recovery!Verify(w, e)
    PROVE  /\ Recovery!TypeOK' /\ Others(w)
           /\ UNCHANGED <<otp, mailed, codes, Recovery!history, broken>>
           /\ pc[w] = "idle" /\ job'[w].otp = Recovery!NoOtp
           /\ \/ pc'[w] = "limit" /\ begun < MaxCodes /\ begun' = begun + 1
              \/ pc'[w] = "get" /\ begun' = begun
           /\ job'[w].entry \in mailed \cup {0}
           /\ overlaps' = IF Recovery!AtRest THEN overlaps ELSE overlaps + 1
<1>1. overlaps + 1 \in Nat /\ begun + 1 \in Nat /\ entries + 1 \in Nat /\ overlaps \in Nat
  BY RecoveryNumbers
<1>2. CASE Recovery!Request(w)
  <2>1. /\ pc' \in [Workers -> Steps] /\ job' \in [Workers -> Recovery!Job]
        /\ pc'[w] = "limit" /\ job'[w] = Recovery!NoJob /\ Others(w)
    BY <1>2, RecoveryGoes, RecoveryNoJob DEF Recovery!Request, Recovery!Begin, Steps
  <2> QED
    BY <1>1, <1>2, <2>1, RecoveryNoJob
    DEF Recovery!Request, Recovery!Begin, Recovery!At, Recovery!TypeOK, Steps, Recovery!store,
    Recovery!history
<1>3. ASSUME NEW e \in mailed \cup {0}, Recovery!Verify(w, e)
      PROVE  /\ Recovery!TypeOK' /\ Others(w)
             /\ UNCHANGED <<otp, mailed, codes, Recovery!history, broken>>
             /\ pc[w] = "idle" /\ job'[w].otp = Recovery!NoOtp
             /\ pc'[w] = "get" /\ begun' = begun
             /\ job'[w].entry \in mailed \cup {0}
             /\ overlaps' = IF Recovery!AtRest THEN overlaps ELSE overlaps + 1
  <2> DEFINE j == [Recovery!NoJob EXCEPT !.entry = e]
  <2>1. e \in Recovery!Codes \cup {0}
    BY CodesAssumption DEF Recovery!TypeOK, Recovery!Codes
  <2>2. j \in Recovery!Job /\ j.entry = e /\ j.otp = Recovery!NoOtp
    BY <2>1, RecoveryNoJob DEF Recovery!NoJob, Recovery!Job
  <2>3. Recovery!Begin(w, "get", j) /\ "get" \in Steps
    BY <1>3 DEF Recovery!Verify, Steps
  <2> HIDE DEF j
  <2>4. /\ pc' \in [Workers -> Steps] /\ job' \in [Workers -> Recovery!Job]
        /\ pc'[w] = "get" /\ job'[w] = j /\ Others(w)
    BY <2>2, <2>3, RecoveryGoes DEF Recovery!Begin
  <2>5. pc[w] = "idle" /\ overlaps' = IF Recovery!AtRest THEN overlaps ELSE overlaps + 1
    BY <2>3 DEF Recovery!Begin, Recovery!At
  <2>6. /\ UNCHANGED <<otp, lock, asked, mailed, codes, wrong, used, expired, begun, broken>>
        /\ entries' \in Nat
    BY <1>1, <1>3 DEF Recovery!Verify, Recovery!store, Recovery!history
  <2> QED
    BY <1>1, <2>2, <2>4, <2>5, <2>6 DEF Recovery!TypeOK, Steps, Recovery!history
<1> QED
  BY <1>2, <1>3

LEMMA RecoveryAsks ==
    ASSUME Recovery!TypeOK, NEW w \in Workers,
           Recovery!CountRequest(w) \/ Recovery!JudgeRequest(w)
    PROVE  /\ Recovery!TypeOK' /\ Others(w)
           /\ UNCHANGED <<otp, mailed, codes, Recovery!history, begun, overlaps, broken>>
           /\ pc[w] \in {"limit", "expire"} /\ pc'[w] \in {"expire", "persist", "idle"}
           /\ job'[w].otp \in {job[w].otp, Recovery!NoOtp}
           /\ job'[w].entry \in {job[w].entry, 0}
<1>1. CASE Recovery!CountRequest(w)
  <2> DEFINE j == [job[w] EXCEPT !.count = asked.count + 1]
  <2>1. asked.count + 1 \in Nat
    BY RecoveryNumbers
  <2>2. j \in Recovery!Job /\ j.otp = job[w].otp /\ j.entry = job[w].entry
    BY <2>1, RecoveryJobType DEF Recovery!Job
  <2>3. Recovery!Goto(w, "expire") /\ "expire" \in Steps
    BY <1>1 DEF Recovery!CountRequest, Steps
  <2>4. job' = [job EXCEPT ![w] = j]
    BY <1>1 DEF Recovery!CountRequest, Recovery!TypeOK
  <2> HIDE DEF j
  <2>5. /\ pc' \in [Workers -> Steps] /\ job' \in [Workers -> Recovery!Job]
        /\ pc'[w] = "expire" /\ job'[w] = j /\ Others(w)
    BY <2>2, <2>3, <2>4, RecoveryGoes
  <2>6. asked' \in [count : Nat, expires : BOOLEAN]
    BY <1>1, <2>1, RecoveryNumbers DEF Recovery!CountRequest
  <2> QED
    BY <1>1, <2>2, <2>5, <2>6 DEF Recovery!CountRequest, Recovery!At, Recovery!TypeOK, Steps,
    Recovery!bounds, Recovery!history
<1>2. CASE Recovery!JudgeRequest(w)
  <2>1. /\ pc' \in [Workers -> Steps] /\ job' \in [Workers -> Recovery!Job] /\ Others(w)
        /\ pc'[w] \in {"persist", "idle"} /\ job'[w] \in {job[w], Recovery!NoJob}
    <3>1. CASE job[w].count > RequestLimit
      BY <1>2, <3>1, RecoveryLeaves DEF Recovery!JudgeRequest
    <3>2. CASE ~(job[w].count > RequestLimit)
      BY <1>2, <3>2, RecoveryStays DEF Recovery!JudgeRequest, Steps
    <3> QED
      BY <3>1, <3>2
  <2>2. asked' \in [count : Nat, expires : BOOLEAN]
    BY <1>2, RecoveryNumbers DEF Recovery!JudgeRequest
  <2> QED
    BY <1>2, <2>1, <2>2, RecoveryNoJob DEF Recovery!JudgeRequest, Recovery!At, Recovery!TypeOK,
    Steps, Recovery!bounds, Recovery!history
<1> QED
  BY <1>1, <1>2

LEMMA RecoveryPersists ==
    ASSUME Recovery!TypeOK, NEW w \in Workers, Recovery!PersistOtp(w), codes < MaxCodes
    PROVE  /\ Recovery!TypeOK' /\ Others(w)
           /\ UNCHANGED <<mailed, Recovery!history, begun, overlaps, broken>>
           /\ pc[w] = "persist" /\ pc'[w] = "mail"
           /\ codes' = codes + 1
           /\ otp'.code = codes + 1 /\ otp'.attempts = 0
           /\ job'[w].otp = otp' /\ job'[w].entry = job[w].entry
<1> DEFINE j == [job[w] EXCEPT !.otp = otp']
<1>0. /\ codes + 1 \in Recovery!Codes /\ codes \in Nat
      /\ codes' = codes + 1 /\ codes' \in 0 .. MaxCodes
  BY RecoveryNumbers DEF Recovery!Codes, Recovery!PersistOtp
<1>1. /\ otp' \in [code : Recovery!Codes, attempts : 0 .. MaxAttempts - 1]
      /\ otp' \in Recovery!Otp
      /\ otp'.code = codes + 1 /\ otp'.attempts = 0
  BY <1>0, CodesAssumption DEF Recovery!PersistOtp, Recovery!Otp
<1>2. j \in Recovery!Job /\ j.otp = otp' /\ j.entry = job[w].entry
  BY <1>1, RecoveryJobType DEF Recovery!Job
<1>3. Recovery!Goto(w, "mail") /\ "mail" \in Steps
  BY DEF Recovery!PersistOtp, Steps
<1>4. job' = [job EXCEPT ![w] = j]
  BY DEF Recovery!PersistOtp, Recovery!TypeOK
<1> HIDE DEF j
<1>5. /\ pc' \in [Workers -> Steps] /\ job' \in [Workers -> Recovery!Job]
      /\ pc'[w] = "mail" /\ job'[w] = j /\ Others(w)
  BY <1>2, <1>3, <1>4, RecoveryGoes
<1>6. mailed \subseteq 1 .. codes => mailed \subseteq 1 .. (codes + 1)
  BY <1>0
<1> QED
  BY <1>0, <1>1, <1>2, <1>5, <1>6 DEF Recovery!PersistOtp, Recovery!At, Recovery!TypeOK, Steps,
  Recovery!bounds, Recovery!history

LEMMA RecoveryMails ==
    ASSUME Recovery!TypeOK, NEW w \in Workers, Recovery!MailCode(w),
           job[w].otp.code \in 1 .. codes
    PROVE  /\ Recovery!TypeOK' /\ Others(w)
           /\ UNCHANGED <<otp, codes, Recovery!history, begun, overlaps, broken>>
           /\ mailed' = mailed \cup {job[w].otp.code}
           /\ pc[w] = "mail" /\ pc'[w] = "idle" /\ job'[w] = Recovery!NoJob
<1>1. /\ pc' \in [Workers -> Steps] /\ job' \in [Workers -> Recovery!Job]
      /\ pc'[w] = "idle" /\ job'[w] = Recovery!NoJob /\ Others(w)
  BY RecoveryLeaves DEF Recovery!MailCode
<1> QED
  BY <1>1 DEF Recovery!MailCode, Recovery!At, Recovery!TypeOK, Steps, Recovery!store,
  Recovery!bounds, Recovery!history

LEMMA RecoveryMisses ==
    ASSUME Recovery!TypeOK, NEW w \in Workers, Recovery!WrongEntry(w)
    PROVE  /\ Recovery!TypeOK' /\ Others(w)
           /\ UNCHANGED <<otp, mailed, codes, used, expired, begun, overlaps, broken>>
           /\ otp.code \in Recovery!Codes
           /\ wrong' = [wrong EXCEPT ![otp.code] = wrong[otp.code] + 1]
           /\ pc[w] = "get"
           /\ pc'[w] = IF otp.attempts + 1 >= MaxAttempts THEN "clear" ELSE "put"
           /\ job'[w].otp.code = otp.code /\ job'[w].otp.attempts = otp.attempts + 1
           /\ job'[w].entry = job[w].entry
<1> DEFINE o == [otp EXCEPT !.attempts = otp.attempts + 1]
           j == [job[w] EXCEPT !.otp = o]
           s == IF otp.attempts + 1 >= MaxAttempts THEN "clear" ELSE "put"
<1>0. otp.code \in Recovery!Codes /\ otp.attempts + 1 \in Nat
  BY RecoveryNumbers DEF Recovery!WrongEntry
<1>1. o \in Recovery!Otp /\ o.code = otp.code /\ o.attempts = otp.attempts + 1
  BY <1>0, RecoveryNumbers DEF Recovery!Otp
<1>2. s \in Steps /\ s \in {"clear", "put"}
  BY DEF Steps
<1>3. Recovery!Goto(w, s)
  BY DEF Recovery!WrongEntry
<1>4. /\ job' = [job EXCEPT ![w] = j]
      /\ wrong' = [wrong EXCEPT ![otp.code] = wrong[otp.code] + 1]
  BY DEF Recovery!WrongEntry, Recovery!TypeOK
<1> HIDE DEF o, s
<1>5. j \in Recovery!Job /\ j.otp = o /\ j.entry = job[w].entry
  BY <1>1, RecoveryJobType DEF Recovery!Job
<1> HIDE DEF j
<1>6. /\ pc' \in [Workers -> Steps] /\ job' \in [Workers -> Recovery!Job]
      /\ pc'[w] = s /\ job'[w] = j /\ Others(w)
  BY <1>2, <1>3, <1>4, <1>5, RecoveryGoes
<1>7. wrong' \in [Recovery!Codes -> Nat]
  BY <1>0, <1>4, RecoveryNumbers DEF Recovery!TypeOK
<1>8. UNCHANGED <<otp, lock, asked, mailed, codes, used, expired, begun, entries, overlaps, broken>>
  BY DEF Recovery!WrongEntry, Recovery!store, Recovery!bounds
<1>9. Recovery!TypeOK'
  BY <1>6, <1>7, <1>8 DEF Recovery!TypeOK, Steps
<1>10. pc[w] = "get"
  BY DEF Recovery!WrongEntry, Recovery!At
<1> QED
  BY <1>0, <1>1, <1>4, <1>5, <1>6, <1>8, <1>9, <1>10 DEF s

LEMMA RecoveryPuts ==
    ASSUME Recovery!TypeOK, NEW w \in Workers, Recovery!PutOtp(w),
           job[w].otp.code # 0, job[w].otp.attempts < MaxAttempts
    PROVE  /\ Recovery!TypeOK' /\ Others(w)
           /\ UNCHANGED <<mailed, codes, Recovery!history, begun, overlaps, broken>>
           /\ otp' = job[w].otp
           /\ pc[w] = "put" /\ pc'[w] = "idle" /\ job'[w] = Recovery!NoJob
<1>1. /\ pc' \in [Workers -> Steps] /\ job' \in [Workers -> Recovery!Job]
      /\ pc'[w] = "idle" /\ job'[w] = Recovery!NoJob /\ Others(w)
  BY RecoveryLeaves DEF Recovery!PutOtp
<1>2. job[w].otp.code \in Recovery!Codes /\ job[w].otp.attempts \in 0 .. MaxAttempts - 1
  BY RecoveryJobType, CodesAssumption
<1>3. job[w].otp \in [code : Recovery!Codes, attempts : 0 .. MaxAttempts - 1]
  BY <1>2, RecoveryJobType DEF Recovery!Otp
<1> QED
  BY <1>1, <1>3
  DEF Recovery!PutOtp, Recovery!At, Recovery!TypeOK, Steps, Recovery!bounds, Recovery!history

LEMMA RecoveryLocks ==
    ASSUME Recovery!TypeOK, NEW w \in Workers, Recovery!ClearOtp(w) \/ Recovery!SetLockout(w)
    PROVE  /\ Recovery!TypeOK' /\ Others(w)
           /\ UNCHANGED <<mailed, codes, Recovery!history, begun, overlaps, broken>>
           /\ \/ /\ pc[w] = "clear" /\ pc'[w] = "lock" /\ job'[w] = job[w]
                 /\ otp' = Recovery!NoOtp
              \/ /\ pc[w] = "lock" /\ pc'[w] = "idle" /\ job'[w] = Recovery!NoJob
                 /\ otp' = otp
<1>1. CASE Recovery!ClearOtp(w)
  <2>1. /\ pc' \in [Workers -> Steps] /\ job' \in [Workers -> Recovery!Job]
        /\ pc'[w] = "lock" /\ job'[w] = job[w] /\ Others(w)
    BY <1>1, RecoveryStays DEF Recovery!ClearOtp, Steps
  <2> QED
    BY <1>1, <2>1 DEF Recovery!ClearOtp, Recovery!At, Recovery!TypeOK, Steps, Recovery!bounds,
    Recovery!history
<1>2. CASE Recovery!SetLockout(w)
  <2>1. /\ pc' \in [Workers -> Steps] /\ job' \in [Workers -> Recovery!Job]
        /\ pc'[w] = "idle" /\ job'[w] = Recovery!NoJob /\ Others(w)
    BY <1>2, RecoveryLeaves DEF Recovery!SetLockout
  <2> QED
    BY <1>2, <2>1 DEF Recovery!SetLockout, Recovery!At, Recovery!TypeOK, Steps, Recovery!bounds,
    Recovery!history
<1> QED
  BY <1>1, <1>2

LEMMA RecoveryReads ==
    ASSUME Recovery!TypeOK, NEW w \in Workers, Recovery!NoneStored(w) \/ Recovery!RightEntry(w)
    PROVE  /\ Recovery!TypeOK' /\ Others(w)
           /\ UNCHANGED <<otp, mailed, codes, Recovery!history, begun, overlaps, broken>>
           /\ pc[w] = "get"
           /\ \/ pc'[w] = "idle" /\ job'[w] = Recovery!NoJob
              \/ pc'[w] = "use" /\ job'[w] = job[w] /\ otp.code = job[w].entry /\ otp.code # 0
<1>1. CASE Recovery!NoneStored(w)
  <2>1. /\ pc' \in [Workers -> Steps] /\ job' \in [Workers -> Recovery!Job]
        /\ pc'[w] = "idle" /\ job'[w] = Recovery!NoJob /\ Others(w)
    BY <1>1, RecoveryLeaves DEF Recovery!NoneStored
  <2> QED
    BY <1>1, <2>1 DEF Recovery!NoneStored, Recovery!At, Recovery!TypeOK, Steps, Recovery!store,
    Recovery!bounds, Recovery!history
<1>2. CASE Recovery!RightEntry(w)
  <2>1. /\ pc' \in [Workers -> Steps] /\ job' \in [Workers -> Recovery!Job]
        /\ pc'[w] = "use" /\ job'[w] = job[w] /\ Others(w)
    BY <1>2, RecoveryStays DEF Recovery!RightEntry, Steps
  <2> QED
    BY <1>2, <2>1 DEF Recovery!RightEntry, Recovery!At, Recovery!TypeOK, Steps, Recovery!store,
    Recovery!bounds, Recovery!history
<1> QED
  BY <1>1, <1>2

LEMMA RecoveryUses ==
    ASSUME Recovery!TypeOK, NEW w \in Workers, Recovery!Use(w)
    PROVE  /\ Recovery!TypeOK' /\ Others(w)
           /\ UNCHANGED <<mailed, codes, Recovery!history, begun, overlaps, broken>>
           /\ otp' = Recovery!NoOtp
           /\ pc[w] = "use" /\ pc'[w] = "answer" /\ job'[w] = job[w]
<1>1. /\ pc' \in [Workers -> Steps] /\ job' \in [Workers -> Recovery!Job]
      /\ pc'[w] = "answer" /\ job'[w] = job[w] /\ Others(w)
  BY RecoveryStays DEF Recovery!Use, Steps
<1> QED
  BY <1>1
  DEF Recovery!Use, Recovery!At, Recovery!TypeOK, Steps, Recovery!bounds, Recovery!history

LEMMA RecoveryAnswers ==
    ASSUME Recovery!TypeOK, NEW w \in Workers, Recovery!Answer(w), job[w].entry # 0
    PROVE  /\ Recovery!TypeOK' /\ Others(w)
           /\ UNCHANGED <<otp, mailed, codes, wrong, expired, begun, overlaps, broken>>
           /\ job[w].entry \in Recovery!Codes
           /\ used' = [used EXCEPT ![job[w].entry] = used[job[w].entry] + 1]
           /\ pc[w] = "answer" /\ pc'[w] = "idle" /\ job'[w] = Recovery!NoJob
<1>1. /\ pc' \in [Workers -> Steps] /\ job' \in [Workers -> Recovery!Job]
      /\ pc'[w] = "idle" /\ job'[w] = Recovery!NoJob /\ Others(w)
  BY RecoveryLeaves DEF Recovery!Answer
<1>2. job[w].entry \in Recovery!Codes
  BY RecoveryJobType
<1>3. used' = [used EXCEPT ![job[w].entry] = used[job[w].entry] + 1]
  BY DEF Recovery!Answer, Recovery!TypeOK
<1>4. used' \in [Recovery!Codes -> Nat]
  BY <1>2, <1>3, RecoveryNumbers DEF Recovery!TypeOK
<1> QED
  BY <1>1, <1>2, <1>3, <1>4
  DEF Recovery!Answer, Recovery!At, Recovery!TypeOK, Steps, Recovery!store, Recovery!bounds

LEMMA RecoveryExpires ==
    ASSUME Recovery!TypeOK, Recovery!ExpireOtp \/ Recovery!ExpireAsked \/ Recovery!ExpireLock
    PROVE  /\ Recovery!TypeOK'
           /\ UNCHANGED <<mailed, pc, job, codes, wrong, used, begun, overlaps, broken>>
           /\ \/ /\ otp.code \in Recovery!Codes /\ otp' = Recovery!NoOtp
                 /\ expired' = expired \cup {otp.code}
              \/ UNCHANGED <<otp, expired>>
<1>1. CASE Recovery!ExpireOtp
  <2>1. otp.code \in Recovery!Codes
    BY <1>1, RecoveryNumbers DEF Recovery!ExpireOtp
  <2> QED
    BY <1>1, <2>1 DEF Recovery!ExpireOtp, Recovery!TypeOK, Recovery!bounds
<1>2. CASE Recovery!ExpireAsked
  BY <1>2 DEF Recovery!ExpireAsked, Recovery!TypeOK, Recovery!bounds, Recovery!history
<1>3. CASE Recovery!ExpireLock
  BY <1>3 DEF Recovery!ExpireLock, Recovery!TypeOK, Recovery!bounds, Recovery!history
<1> QED
  BY <1>1, <1>2, <1>3

LEMMA RecoveryAborts ==
    ASSUME Recovery!TypeOK, NEW w \in Workers, Recovery!Abort(w)
    PROVE  /\ Recovery!TypeOK' /\ Others(w)
           /\ UNCHANGED <<otp, mailed, codes, Recovery!history, begun, overlaps>>
           /\ broken' = broken + 1
           /\ pc[w] # "idle" /\ pc'[w] = "idle" /\ job'[w] = Recovery!NoJob
<1>1. /\ pc' \in [Workers -> Steps] /\ job' \in [Workers -> Recovery!Job]
      /\ pc'[w] = "idle" /\ job'[w] = Recovery!NoJob /\ Others(w)
  BY RecoveryLeaves DEF Recovery!Abort
<1>2. broken + 1 \in Nat
  BY RecoveryNumbers
<1> QED
  BY <1>1, <1>2 DEF Recovery!Abort, Recovery!At, Recovery!TypeOK, Steps, Recovery!store,
  Recovery!bounds, Recovery!history

(* Sets of workers, counted.                                               *)
LEMMA OneMoves ==
    ASSUME NEW S, IsFiniteSet(S), NEW T, NEW w, T \ {w} = S \ {w}
    PROVE  /\ IsFiniteSet(T) /\ Cardinality(S) \in Nat /\ Cardinality(T) \in Nat
           /\ (w \in T <=> w \in S) => Cardinality(T) = Cardinality(S)
           /\ w \in T /\ w \notin S => Cardinality(T) = Cardinality(S) + 1
           /\ w \notin T /\ w \in S => Cardinality(S) = Cardinality(T) + 1
<1>1. /\ IsFiniteSet(S \ {w})
      /\ Cardinality(S \ {w}) = IF w \in S THEN Cardinality(S) - 1 ELSE Cardinality(S)
  BY FS_RemoveElement
<1>2. T = S \ {w} \/ T = (S \ {w}) \cup {w}
  OBVIOUS
<1>3. IsFiniteSet(T)
  BY <1>1, <1>2, FS_AddElement
<1>4. Cardinality(T \ {w}) = IF w \in T THEN Cardinality(T) - 1 ELSE Cardinality(T)
  BY <1>3, FS_RemoveElement
<1>5. Cardinality(S) \in Nat /\ Cardinality(T) \in Nat
  BY <1>3, FS_CardinalityType
<1>6. Cardinality(T \ {w}) = Cardinality(S \ {w})
  OBVIOUS
<1> QED
  BY <1>1, <1>3, <1>4, <1>5, <1>6


-----------------------------------------------------------------------------
(* The core of every argument below: requests in flight are paid by        *)
(* overlaps, codes by the requests that were counted; a request holds      *)
(* codes that were made, and a code not yet made was neither used nor      *)
(* tried.                                                                  *)
Busy   == {w \in Workers : pc[w] # "idle"}
Asks   == {"limit", "expire", "persist"}
Asking == {w \in Workers : pc[w] \in Asks}

LiveInv == IsFiniteSet(Busy) /\ Cardinality(Busy) <= 1 + overlaps
AskInv  == begun <= MaxCodes /\ codes + Cardinality(Asking) <= begun
Holds(w) ==
    /\ job[w].otp.code <= codes /\ job[w].entry <= codes
    /\ pc[w] = "put" => job[w].otp.code # 0 /\ job[w].otp.attempts < MaxAttempts
    /\ pc[w] = "clear" => job[w].otp.code # 0 /\ job[w].otp.attempts >= MaxAttempts
    /\ pc[w] \in {"mail", "lock"} => job[w].otp.code # 0
    /\ pc[w] \in {"use", "answer"} => job[w].entry # 0
HeldInv  == otp.code <= codes /\ expired \subseteq 1 .. codes /\ \A w \in Workers : Holds(w)
FreshInv == \A c \in Recovery!Codes : c > codes => used[c] = 0 /\ wrong[c] = 0
CoreInv  == Recovery!TypeOK /\ LiveInv /\ AskInv /\ HeldInv /\ FreshInv

LEMMA BusyMoves ==
    ASSUME LiveInv, NEW w \in Workers, Others(w)
    PROVE  /\ IsFiniteSet(Busy') /\ Cardinality(Busy) \in Nat /\ Cardinality(Busy') \in Nat
           /\ (pc[w] = "idle" <=> pc'[w] = "idle") => Cardinality(Busy') = Cardinality(Busy)
           /\ pc[w] = "idle" /\ pc'[w] # "idle" => Cardinality(Busy') = Cardinality(Busy) + 1
           /\ pc[w] # "idle" /\ pc'[w] = "idle" => Cardinality(Busy) = Cardinality(Busy') + 1
           /\ Recovery!AtRest <=> Cardinality(Busy) = 0
           /\ Recovery!AtRest' <=> Cardinality(Busy') = 0
<1>1. Busy' \ {w} = Busy \ {w}
  BY DEF Busy, Others
<1>2. /\ w \in Busy <=> pc[w] # "idle"
      /\ w \in Busy' <=> pc'[w] # "idle"
      /\ Recovery!AtRest <=> Busy = {}
      /\ Recovery!AtRest' <=> Busy' = {}
  BY DEF Busy, Recovery!AtRest, Recovery!At
<1>3. IsFiniteSet(Busy) /\ IsFiniteSet(Busy')
  BY <1>1, OneMoves DEF LiveInv
<1> QED
  BY <1>1, <1>2, <1>3, OneMoves, FS_EmptySet

LEMMA AskingMoves ==
    ASSUME LiveInv, NEW w \in Workers, Others(w)
    PROVE  /\ Cardinality(Asking) \in Nat /\ Cardinality(Asking') \in Nat
           /\ (pc[w] \in Asks <=> pc'[w] \in Asks) => Cardinality(Asking') = Cardinality(Asking)
           /\ pc[w] \notin Asks /\ pc'[w] \in Asks =>
                 Cardinality(Asking') = Cardinality(Asking) + 1
           /\ pc[w] \in Asks /\ pc'[w] \notin Asks =>
                 Cardinality(Asking) = Cardinality(Asking') + 1
<1>1. Asking' \ {w} = Asking \ {w}
  BY DEF Asking, Others
<1>2. /\ w \in Asking <=> pc[w] \in Asks
      /\ w \in Asking' <=> pc'[w] \in Asks
  BY DEF Asking
<1>3. Asking \in SUBSET Busy
  BY DEF Asking, Asks, Busy
<1>4. IsFiniteSet(Asking)
  BY <1>3, FS_Subset DEF LiveInv
<1> QED
  BY <1>1, <1>2, <1>4, OneMoves

LEMMA HoldsOn ==
    ASSUME Recovery!TypeOK, NEW w \in Workers, Others(w), NEW v \in Workers, v # w,
           Holds(v), codes' \in Nat, codes <= codes'
    PROVE  Holds(v)'
<1>1. pc'[v] = pc[v] /\ job'[v] = job[v]
  BY DEF Others
<1>2. codes \in Nat /\ job[v].otp.code \in Nat /\ job[v].entry \in Nat
  BY RecoveryNumbers, RecoveryJobType
<1> QED
  BY <1>1, <1>2 DEF Holds

LEMMA FreshOn ==
    ASSUME FreshInv, UNCHANGED <<codes, used, wrong>>
    PROVE  FreshInv'
BY DEF FreshInv

LEMMA CoreKept ==
    ASSUME CoreInv, Recovery!TypeOK', NEW w \in Workers, Others(w), pc[w] # "idle",
           UNCHANGED <<codes, expired, begun, overlaps>>,
           pc'[w] \in Asks => pc[w] \in Asks,
           otp'.code <= codes, Holds(w)', FreshInv'
    PROVE  CoreInv'
<1>1. LiveInv'
  <2>1. Cardinality(Busy') <= Cardinality(Busy)
    BY BusyMoves DEF CoreInv
  <2> QED
    BY <2>1, BusyMoves, RecoveryNumbers DEF CoreInv, LiveInv
<1>2. AskInv'
  <2>1. Cardinality(Asking') <= Cardinality(Asking)
    BY AskingMoves DEF CoreInv
  <2> QED
    BY <2>1, AskingMoves, RecoveryNumbers DEF CoreInv, AskInv
<1>3. HeldInv'
  <2>1. codes' \in Nat /\ codes <= codes'
    BY RecoveryNumbers DEF CoreInv
  <2>2. ASSUME NEW v \in Workers PROVE Holds(v)'
    BY <2>1, HoldsOn DEF CoreInv, HeldInv
  <2> QED
    BY <2>2 DEF CoreInv, HeldInv
<1> QED
  BY <1>1, <1>2, <1>3 DEF CoreInv

(* A code is made by a request that was counted.                           *)
LEMMA RecoveryRoom ==
    ASSUME CoreInv, NEW w \in Workers, Recovery!PersistOtp(w)
    PROVE  codes < MaxCodes
<1>1. w \in Asking /\ Asking \in SUBSET Busy
  BY DEF Recovery!PersistOtp, Recovery!At, Asking, Asks, Busy
<1>2. IsFiniteSet(Asking) /\ Asking # {}
  BY <1>1, FS_Subset DEF CoreInv, LiveInv
<1>3. Cardinality(Asking) \in Nat /\ Cardinality(Asking) # 0
  BY <1>2, FS_EmptySet, FS_CardinalityType
<1>4. codes \in Nat /\ begun \in Nat /\ MaxCodes \in Nat
  BY RecoveryNumbers DEF CoreInv
<1> QED
  BY <1>3, <1>4 DEF CoreInv, AskInv

LEMMA RecoveryNextCore == CoreInv /\ [Recovery!Next]_(Recovery!vars) => CoreInv'
<1> SUFFICES ASSUME CoreInv, [Recovery!Next]_(Recovery!vars) PROVE CoreInv'
  OBVIOUS
<1>0. Recovery!TypeOK /\ LiveInv /\ AskInv /\ HeldInv /\ FreshInv
  BY DEF CoreInv
<1>a. /\ codes \in Nat /\ overlaps \in Nat /\ begun \in Nat /\ MaxCodes \in Nat
      /\ codes <= codes /\ 0 <= codes /\ otp.code <= codes
      /\ Recovery!NoOtp.code = 0 /\ Recovery!NoJob.otp = Recovery!NoOtp
      /\ Recovery!NoJob.entry = 0
  BY <1>0, RecoveryNumbers, RecoveryNoJob DEF HeldInv
<1>1. ASSUME NEW w \in Workers,
             Recovery!Request(w) \/ \E e \in mailed \cup {0} : Recovery!Verify(w, e)
      PROVE  CoreInv'
  <2>1. /\ Recovery!TypeOK' /\ Others(w)
        /\ UNCHANGED <<otp, mailed, codes, used, wrong, expired, broken>>
        /\ pc[w] = "idle" /\ job'[w].otp = Recovery!NoOtp
        /\ \/ pc'[w] = "limit" /\ begun < MaxCodes /\ begun' = begun + 1
           \/ pc'[w] = "get" /\ begun' = begun
        /\ job'[w].entry \in mailed \cup {0}
        /\ overlaps' = IF Recovery!AtRest THEN overlaps ELSE overlaps + 1
    BY <1>0, <1>1, RecoveryBegins DEF Recovery!history
  <2>2. LiveInv'
    BY <1>0, <1>a, <2>1, BusyMoves DEF LiveInv
  <2>3. AskInv'
    <3>1. CASE pc'[w] = "limit"
      BY <1>0, <1>a, <2>1, <3>1, AskingMoves DEF AskInv, Asks
    <3>2. CASE pc'[w] = "get"
      BY <1>0, <1>a, <2>1, <3>2, AskingMoves DEF AskInv, Asks
    <3> QED
      BY <2>1, <3>1, <3>2
  <2>4. Holds(w)'
    <3>1. mailed \subseteq 1 .. codes
      BY <1>0 DEF Recovery!TypeOK
    <3>2. job'[w].entry <= codes
      <4>1. CASE job'[w].entry = 0
        BY <1>a, <4>1
      <4>2. CASE job'[w].entry \in mailed
        <5>1. job'[w].entry \in 1 .. codes
          BY <3>1, <4>2
        <5> QED
          BY <1>a, <5>1
      <4> QED
        BY <2>1, <4>1, <4>2
    <3> QED
      BY <1>a, <2>1, <3>2 DEF Holds
  <2>5. HeldInv'
    BY <1>0, <1>a, <2>1, <2>4, HoldsOn DEF HeldInv
  <2> QED
    BY <1>0, <2>1, <2>2, <2>3, <2>5, FreshOn DEF CoreInv
<1>2. ASSUME NEW w \in Workers,
             Recovery!CountRequest(w) \/ Recovery!JudgeRequest(w) PROVE CoreInv'
  <2>1. /\ Recovery!TypeOK' /\ Others(w)
        /\ UNCHANGED <<otp, codes, used, wrong, expired, begun, overlaps>>
        /\ pc[w] \in {"limit", "expire"} /\ pc'[w] \in {"expire", "persist", "idle"}
        /\ job'[w].otp \in {job[w].otp, Recovery!NoOtp} /\ job'[w].entry \in {job[w].entry, 0}
    BY <1>0, <1>2, RecoveryAsks DEF Recovery!history
  <2>2. Holds(w)'
    BY <1>0, <1>a, <2>1 DEF HeldInv, Holds
  <2> QED
    BY <1>0, <1>a, <2>1, <2>2, FreshOn, CoreKept DEF Asks
<1>3. ASSUME NEW w \in Workers, Recovery!PersistOtp(w) PROVE CoreInv'
  <2>0. pc[w] = "persist"
    BY <1>3 DEF Recovery!PersistOtp, Recovery!At
  <2>4. codes < MaxCodes
    BY <1>3, RecoveryRoom
  <2>5. /\ Recovery!TypeOK' /\ Others(w)
        /\ UNCHANGED <<mailed, used, wrong, expired, begun, overlaps>>
        /\ pc'[w] = "mail" /\ codes' = codes + 1
        /\ otp'.code = codes + 1 /\ otp'.attempts = 0
        /\ job'[w].otp = otp' /\ job'[w].entry = job[w].entry
    BY <1>0, <1>3, <2>4, RecoveryPersists DEF Recovery!history
  <2>6. LiveInv'
    BY <1>0, <2>0, <2>5, BusyMoves DEF LiveInv
  <2>7. AskInv'
    <3>1. Cardinality(Asking) = Cardinality(Asking') + 1 /\ Cardinality(Asking') \in Nat
      BY <1>0, <2>0, <2>5, AskingMoves DEF Asks
    <3> QED
      BY <1>0, <1>a, <2>5, <3>1 DEF AskInv
  <2>8. codes' \in Nat /\ codes <= codes' /\ codes + 1 <= codes' /\ codes + 1 # 0
    BY <1>a, <2>5
  <2>9. Holds(w)'
    <3>1. job[w].entry <= codes /\ job[w].entry \in Nat
      BY <1>0, RecoveryJobType, RecoveryNumbers DEF HeldInv, Holds
    <3>2. job'[w].entry <= codes'
      BY <1>a, <2>5, <3>1
    <3> QED
      BY <2>5, <2>8, <3>2 DEF Holds
  <2>10. HeldInv'
    <3>1. ASSUME NEW v \in Workers PROVE Holds(v)'
      BY <1>0, <2>5, <2>8, <2>9, HoldsOn DEF HeldInv
    <3>2. expired' \subseteq 1 .. codes'
      BY <1>0, <1>a, <2>5 DEF HeldInv
    <3> QED
      BY <2>5, <2>8, <3>1, <3>2 DEF HeldInv
  <2>11. FreshInv'
    <3>1. \A c \in Recovery!Codes : c > codes + 1 => c > codes
      BY <1>0, <1>a, RecoveryNumbers
    <3> QED
      BY <1>0, <2>5, <3>1 DEF FreshInv
  <2> QED
    BY <2>5, <2>6, <2>7, <2>10, <2>11 DEF CoreInv
<1>4. ASSUME NEW w \in Workers, Recovery!MailCode(w) PROVE CoreInv'
  <2>1. pc[w] = "mail"
    BY <1>4 DEF Recovery!MailCode, Recovery!At
  <2>2. job[w].otp.code \in 1 .. codes
    BY <1>0, <1>a, <2>1, RecoveryJobType, RecoveryNumbers DEF HeldInv, Holds
  <2>3. /\ Recovery!TypeOK' /\ Others(w) /\ pc'[w] = "idle" /\ job'[w] = Recovery!NoJob
        /\ UNCHANGED <<otp, codes, used, wrong, expired, begun, overlaps>>
    BY <1>0, <1>4, <2>2, RecoveryMails DEF Recovery!history
  <2>4. Holds(w)'
    BY <1>a, <2>3 DEF Holds
  <2> QED
    BY <1>0, <1>a, <2>1, <2>3, <2>4, FreshOn, CoreKept DEF Asks
<1>5. ASSUME NEW w \in Workers, Recovery!NoneStored(w) \/ Recovery!RightEntry(w) PROVE CoreInv'
  <2>1. /\ Recovery!TypeOK' /\ Others(w)
        /\ UNCHANGED <<otp, codes, used, wrong, expired, begun, overlaps>>
        /\ pc[w] = "get"
        /\ \/ pc'[w] = "idle" /\ job'[w] = Recovery!NoJob
           \/ pc'[w] = "use" /\ job'[w] = job[w] /\ otp.code = job[w].entry /\ otp.code # 0
    BY <1>0, <1>5, RecoveryReads DEF Recovery!history
  <2>2. Holds(w)'
    BY <1>0, <1>a, <2>1 DEF HeldInv, Holds
  <2> QED
    BY <1>0, <1>a, <2>1, <2>2, FreshOn, CoreKept DEF Asks
<1>6. ASSUME NEW w \in Workers, Recovery!WrongEntry(w) PROVE CoreInv'
  <2>1. /\ Recovery!TypeOK' /\ Others(w)
        /\ UNCHANGED <<otp, mailed, codes, used, expired, begun, overlaps, broken>>
        /\ otp.code \in Recovery!Codes
        /\ wrong' = [wrong EXCEPT ![otp.code] = wrong[otp.code] + 1]
        /\ pc[w] = "get"
        /\ pc'[w] = IF otp.attempts + 1 >= MaxAttempts THEN "clear" ELSE "put"
        /\ job'[w].otp.code = otp.code /\ job'[w].otp.attempts = otp.attempts + 1
        /\ job'[w].entry = job[w].entry
    BY <1>0, <1>6, RecoveryMisses
  <2>2. otp.code # 0 /\ otp.attempts \in Nat /\ MaxAttempts \in Nat
    BY <1>0, <2>1, RecoveryNumbers
  <2>3. Holds(w)'
    BY <1>0, <1>a, <2>1, <2>2 DEF HeldInv, Holds
  <2>4. FreshInv'
    <3>1. ASSUME NEW c \in Recovery!Codes, c > codes PROVE wrong'[c] = wrong[c]
      <4>1. c # otp.code
        BY <1>0, <1>a, <3>1, RecoveryNumbers
      <4> QED
        BY <1>0, <2>1, <4>1 DEF Recovery!TypeOK
    <3> QED
      BY <1>0, <2>1, <3>1 DEF FreshInv
  <2>5. pc'[w] \notin Asks
    BY <2>1 DEF Asks
  <2> QED
    BY <1>a, <2>1, <2>3, <2>4, <2>5, CoreKept
<1>7. ASSUME NEW w \in Workers, Recovery!PutOtp(w) PROVE CoreInv'
  <2>1. pc[w] = "put"
    BY <1>7 DEF Recovery!PutOtp, Recovery!At
  <2>2. job[w].otp.code # 0 /\ job[w].otp.attempts < MaxAttempts /\ job[w].otp.code <= codes
    BY <1>0, <2>1 DEF HeldInv, Holds
  <2>3. /\ Recovery!TypeOK' /\ Others(w) /\ pc'[w] = "idle" /\ job'[w] = Recovery!NoJob
        /\ otp' = job[w].otp
        /\ UNCHANGED <<codes, used, wrong, expired, begun, overlaps>>
    BY <1>0, <1>7, <2>2, RecoveryPuts DEF Recovery!history
  <2>4. Holds(w)'
    BY <1>a, <2>3 DEF Holds
  <2> QED
    BY <1>0, <2>1, <2>2, <2>3, <2>4, FreshOn, CoreKept DEF Asks
<1>8. ASSUME NEW w \in Workers, Recovery!ClearOtp(w) \/ Recovery!SetLockout(w) PROVE CoreInv'
  <2>1. /\ Recovery!TypeOK' /\ Others(w)
        /\ UNCHANGED <<codes, used, wrong, expired, begun, overlaps>>
        /\ \/ pc[w] = "clear" /\ pc'[w] = "lock" /\ job'[w] = job[w] /\ otp' = Recovery!NoOtp
           \/ pc[w] = "lock" /\ pc'[w] = "idle" /\ job'[w] = Recovery!NoJob /\ otp' = otp
    BY <1>0, <1>8, RecoveryLocks DEF Recovery!history
  <2>2. Holds(w)'
    BY <1>0, <1>a, <2>1 DEF HeldInv, Holds
  <2> QED
    BY <1>0, <1>a, <2>1, <2>2, FreshOn, CoreKept DEF Asks
<1>9. ASSUME NEW w \in Workers, Recovery!Use(w) PROVE CoreInv'
  <2>1. /\ Recovery!TypeOK' /\ Others(w)
        /\ UNCHANGED <<codes, used, wrong, expired, begun, overlaps>>
        /\ otp' = Recovery!NoOtp /\ pc[w] = "use" /\ pc'[w] = "answer" /\ job'[w] = job[w]
    BY <1>0, <1>9, RecoveryUses DEF Recovery!history
  <2>2. Holds(w)'
    BY <1>0, <1>a, <2>1 DEF HeldInv, Holds
  <2> QED
    BY <1>0, <1>a, <2>1, <2>2, FreshOn, CoreKept DEF Asks
<1>10. ASSUME NEW w \in Workers, Recovery!Answer(w) PROVE CoreInv'
  <2>1. pc[w] = "answer" /\ job[w].entry # 0 /\ job[w].entry <= codes
    BY <1>0, <1>10 DEF Recovery!Answer, Recovery!At, HeldInv, Holds
  <2>2. /\ Recovery!TypeOK' /\ Others(w)
        /\ UNCHANGED <<otp, codes, wrong, expired, begun, overlaps>>
        /\ job[w].entry \in Recovery!Codes
        /\ used' = [used EXCEPT ![job[w].entry] = used[job[w].entry] + 1]
        /\ pc'[w] = "idle" /\ job'[w] = Recovery!NoJob
    BY <1>0, <1>10, <2>1, RecoveryAnswers
  <2>3. Holds(w)'
    BY <1>a, <2>2 DEF Holds
  <2>4. FreshInv'
    <3>1. ASSUME NEW c \in Recovery!Codes, c > codes PROVE used'[c] = used[c]
      <4>1. c # job[w].entry
        BY <1>0, <1>a, <2>1, <2>2, <3>1, RecoveryNumbers
      <4> QED
        BY <1>0, <2>2, <4>1 DEF Recovery!TypeOK
    <3> QED
      BY <1>0, <2>2, <3>1 DEF FreshInv
  <2> QED
    BY <1>a, <2>1, <2>2, <2>3, <2>4, CoreKept DEF Asks
<1>11. ASSUME NEW w \in Workers, Recovery!Abort(w) PROVE CoreInv'
  <2>1. /\ Recovery!TypeOK' /\ Others(w)
        /\ UNCHANGED <<otp, codes, used, wrong, expired, begun, overlaps>>
        /\ pc[w] # "idle" /\ pc'[w] = "idle" /\ job'[w] = Recovery!NoJob
    BY <1>0, <1>11, RecoveryAborts DEF Recovery!history
  <2>2. Holds(w)'
    BY <1>a, <2>1 DEF Holds
  <2> QED
    BY <1>0, <1>a, <2>1, <2>2, FreshOn, CoreKept DEF Asks
<1>12. ASSUME Recovery!ExpireOtp \/ Recovery!ExpireAsked \/ Recovery!ExpireLock PROVE CoreInv'
  <2>1. /\ Recovery!TypeOK' /\ UNCHANGED <<pc, job, codes, wrong, used, begun, overlaps>>
        /\ \/ /\ otp.code \in Recovery!Codes /\ otp' = Recovery!NoOtp
              /\ expired' = expired \cup {otp.code}
           \/ UNCHANGED <<otp, expired>>
    BY <1>0, <1>12, RecoveryExpires
  <2>2. otp'.code <= codes /\ expired' \subseteq 1 .. codes
    <3>1. otp.code \in Recovery!Codes => otp.code \in 1 .. codes
      BY <1>0, <1>a, RecoveryNumbers DEF HeldInv
    <3> QED
      BY <1>0, <1>a, <2>1, <3>1 DEF HeldInv
  <2>3. \A w \in Workers : Holds(w)'
    BY <1>0, <2>1 DEF HeldInv, Holds
  <2> QED
    BY <1>0, <2>1, <2>2, <2>3 DEF CoreInv, LiveInv, AskInv, HeldInv, FreshInv, Busy, Asking
<1>13. CASE UNCHANGED (Recovery!vars)
  BY <1>0, <1>13
  DEF Recovery!vars, Recovery!store, Recovery!history, Recovery!bounds, CoreInv,
  Recovery!TypeOK, LiveInv, AskInv, HeldInv, Holds, FreshInv, Busy, Asking
<1> QED
  BY <1>1, <1>2, <1>3, <1>4, <1>5, <1>6, <1>7, <1>8, <1>9, <1>10, <1>11, <1>12, <1>13
  DEF Recovery!Next, Recovery!Step

LEMMA RecoveryInitCore == ASSUME Recovery!Init PROVE CoreInv
<1>1. Recovery!TypeOK
  <2>1. asked \in [count : Nat, expires : BOOLEAN]
    BY DEF Recovery!Init
  <2>2. job \in [Workers -> Recovery!Job]
    BY RecoveryNoJob DEF Recovery!Init
  <2>3. codes \in 0 .. MaxCodes /\ mailed \subseteq 1 .. codes
    BY CodesAssumption DEF Recovery!Init
  <2>4. /\ wrong \in [Recovery!Codes -> Nat] /\ used \in [Recovery!Codes -> Nat]
        /\ expired \subseteq Recovery!Codes
    BY DEF Recovery!Init
  <2>5. {overlaps, begun, entries, broken} \subseteq Nat
    BY DEF Recovery!Init
  <2>6. lock \in BOOLEAN /\ otp = Recovery!NoOtp
    BY DEF Recovery!Init
  <2>7. pc \in [Workers -> Steps]
    BY DEF Recovery!Init, Steps
  <2> QED
    BY <2>1, <2>2, <2>3, <2>4, <2>5, <2>6, <2>7 DEF Recovery!TypeOK, Steps
<1>2. Busy = {} /\ Asking = {}
  BY DEF Recovery!Init, Busy, Asking, Asks
<1>3. LiveInv
  BY <1>2, FS_EmptySet DEF Recovery!Init, LiveInv
<1>4. AskInv
  BY <1>2, FS_EmptySet, CodesAssumption DEF Recovery!Init, AskInv
<1>5. HeldInv
  BY DEF Recovery!Init, HeldInv, Holds, Recovery!NoOtp, Recovery!NoJob
<1>6. FreshInv
  BY DEF Recovery!Init, FreshInv
<1> QED
  BY <1>1, <1>3, <1>4, <1>5, <1>6 DEF CoreInv

LEMMA RecoveryCore == Recovery!Spec => []CoreInv
<1>1. Recovery!Init => CoreInv
  BY RecoveryInitCore
<1>2. CoreInv /\ [Recovery!Next]_(Recovery!vars) => CoreInv'
  BY RecoveryNextCore
<1> QED
  BY <1>1, <1>2, PTL DEF Recovery!Spec

(* The stored code is one of those made, with fewer wrong entries than the *)
(* limit, and only codes that were made are mailed.                        *)
THEOREM RecoveryTypes == Recovery!Spec => []Recovery!TypeOK
<1>1. CoreInv => Recovery!TypeOK
  BY DEF CoreInv
<1> QED
  BY <1>1, RecoveryCore, PTL

-----------------------------------------------------------------------------
(* A use is paid by the overlap of the request that made it possible. A    *)
(* copy on its way back (put) and the stored key can each be used again,   *)
(* by every other request in flight: they leave room for it.               *)
Using(c) == {w \in Workers : pc[w] \in {"use", "answer"} /\ job[w].entry = c}

UseOf(c) ==
    /\ used[c] + Cardinality(Using(c)) <= 1 + overlaps
    /\ \A w \in Workers : pc[w] = "put" /\ job[w].otp.code = c =>
          used[c] + Cardinality(Busy) <= 1 + overlaps
    /\ otp.code = c =>
          \/ used[c] + Cardinality(Busy) <= overlaps
          \/ /\ used[c] + Cardinality(Busy) <= 1 + overlaps
             /\ ~Recovery!AtRest
             /\ \A w \in Workers : pc[w] = "answer" => job[w].entry # c

UseInv == \A c \in Recovery!Codes : UseOf(c)

LEMMA UsingMoves ==
    ASSUME LiveInv, NEW w \in Workers, Others(w), NEW c
    PROVE  /\ Cardinality(Using(c)) \in Nat /\ Cardinality(Using(c)') \in Nat
           /\ (w \in Using(c) <=> w \in Using(c)') =>
                 Cardinality(Using(c)') = Cardinality(Using(c))
           /\ w \in Using(c)' /\ w \notin Using(c) =>
                 Cardinality(Using(c)') = Cardinality(Using(c)) + 1
           /\ w \in Using(c) /\ w \notin Using(c)' =>
                 Cardinality(Using(c)) = Cardinality(Using(c)') + 1
           /\ w \in Using(c) <=> pc[w] \in {"use", "answer"} /\ job[w].entry = c
           /\ w \in Using(c)' <=> pc'[w] \in {"use", "answer"} /\ job'[w].entry = c
           /\ pc[w] \notin {"idle", "use", "answer"} =>
                 Cardinality(Using(c)) + 1 <= Cardinality(Busy)
           /\ Cardinality(Using(c)) <= Cardinality(Busy)
<1>1. Using(c)' \ {w} = Using(c) \ {w}
  BY DEF Using, Others
<1>2. /\ w \in Using(c) <=> pc[w] \in {"use", "answer"} /\ job[w].entry = c
      /\ w \in Using(c)' <=> pc'[w] \in {"use", "answer"} /\ job'[w].entry = c
  BY DEF Using
<1>3. Using(c) \in SUBSET Busy
  BY DEF Using, Busy
<1>4. IsFiniteSet(Using(c)) /\ IsFiniteSet(Busy) /\ Cardinality(Using(c)) <= Cardinality(Busy)
  BY <1>3, FS_Subset DEF LiveInv
<1>5. pc[w] \notin {"idle", "use", "answer"} => Cardinality(Using(c)) + 1 <= Cardinality(Busy)
  <2> SUFFICES ASSUME pc[w] \notin {"idle", "use", "answer"}
               PROVE  Cardinality(Using(c)) + 1 <= Cardinality(Busy)
    OBVIOUS
  <2>1. w \notin Using(c) /\ Using(c) \cup {w} \in SUBSET Busy
    BY <1>3 DEF Using, Busy
  <2>2. Cardinality(Using(c) \cup {w}) = Cardinality(Using(c)) + 1
    BY <1>4, <2>1, FS_AddElement
  <2>3. Cardinality(Using(c) \cup {w}) <= Cardinality(Busy)
    BY <1>4, <2>1, FS_Subset
  <2> QED
    BY <2>2, <2>3
<1> QED
  BY <1>1, <1>2, <1>4, <1>5, OneMoves

(* A step that neither uses a code nor writes one.                         *)
LEMMA UseKept ==
    ASSUME CoreInv, UseInv, NEW w \in Workers, Others(w), pc[w] # "idle",
           UNCHANGED <<used, overlaps>>,
           otp' = otp \/ otp' = Recovery!NoOtp,
           pc'[w] # "put",
           pc'[w] = "use" => pc[w] = "use" /\ job'[w] = job[w],
           pc'[w] = "answer" => otp' = Recovery!NoOtp /\ pc[w] = "use" /\ job'[w] = job[w]
    PROVE  UseInv'
<1> SUFFICES ASSUME NEW c \in Recovery!Codes PROVE UseOf(c)'
  BY DEF UseInv
<1>1. UseOf(c) /\ LiveInv /\ Recovery!TypeOK
  BY DEF UseInv, CoreInv
<1>2. used[c] \in Nat /\ overlaps \in Nat /\ c # 0 /\ Recovery!NoOtp.code = 0
  BY <1>1, RecoveryNumbers, RecoveryNoJob
<1>3. Cardinality(Using(c)') <= Cardinality(Using(c)) /\ Cardinality(Using(c)') \in Nat
      /\ Cardinality(Using(c)) \in Nat
  BY <1>1, UsingMoves
<1>4. /\ Cardinality(Busy') <= Cardinality(Busy) /\ Cardinality(Busy') \in Nat
      /\ Cardinality(Busy) \in Nat
      /\ pc'[w] = "idle" => Cardinality(Busy) = Cardinality(Busy') + 1
  BY <1>1, BusyMoves
<1>5. used'[c] + Cardinality(Using(c)') <= 1 + overlaps'
  BY <1>1, <1>2, <1>3 DEF UseOf
<1>6. ASSUME NEW v \in Workers, pc'[v] = "put", job'[v].otp.code = c
      PROVE  used'[c] + Cardinality(Busy') <= 1 + overlaps'
  <2>1. pc[v] = "put" /\ job[v].otp.code = c
    BY <1>6 DEF Others
  <2> QED
    BY <1>1, <1>2, <1>4, <2>1 DEF UseOf
<1>7. ASSUME otp'.code = c
      PROVE  \/ used'[c] + Cardinality(Busy') <= overlaps'
             \/ /\ used'[c] + Cardinality(Busy') <= 1 + overlaps'
                /\ ~Recovery!AtRest'
                /\ \A v \in Workers : pc'[v] = "answer" => job'[v].entry # c
  <2>1. otp' = otp /\ otp.code = c
    BY <1>2, <1>7
  <2>2. CASE pc'[w] = "idle"
    BY <1>1, <1>2, <1>4, <2>1, <2>2 DEF UseOf
  <2>3. CASE pc'[w] # "idle"
    <3>1. ~Recovery!AtRest'
      BY <2>3 DEF Recovery!AtRest, Recovery!At
    <3>2. pc'[w] # "answer"
      BY <1>2, <2>1
    <3>3. ASSUME NEW v \in Workers, pc'[v] = "answer"
          PROVE  pc[v] = "answer" /\ job'[v] = job[v]
      BY <3>2, <3>3 DEF Others
    <3> QED
      BY <1>1, <1>2, <1>4, <2>1, <3>1, <3>3 DEF UseOf
  <2> QED
    BY <2>2, <2>3
<1> QED
  BY <1>5, <1>6, <1>7 DEF UseOf

LEMMA RecoveryNextUse == CoreInv /\ UseInv /\ [Recovery!Next]_(Recovery!vars) => UseInv'
<1> SUFFICES ASSUME CoreInv, UseInv, [Recovery!Next]_(Recovery!vars) PROVE UseInv'
  OBVIOUS
<1>0. Recovery!TypeOK /\ LiveInv /\ AskInv /\ HeldInv /\ FreshInv
  BY DEF CoreInv
<1>a. /\ codes \in Nat /\ overlaps \in Nat
      /\ \A c \in Recovery!Codes : used[c] \in Nat /\ c # 0 /\ c \in Nat
      /\ Recovery!NoOtp.code = 0 /\ Recovery!NoJob.otp = Recovery!NoOtp
      /\ Recovery!NoJob.entry = 0
  BY <1>0, RecoveryNumbers, RecoveryNoJob
<1>1. ASSUME NEW w \in Workers,
             Recovery!Request(w) \/ \E e \in mailed \cup {0} : Recovery!Verify(w, e)
      PROVE  UseInv'
  <2>1. /\ Others(w) /\ UNCHANGED <<otp, used>>
        /\ pc[w] = "idle" /\ pc'[w] \in {"limit", "get"}
        /\ overlaps' = IF Recovery!AtRest THEN overlaps ELSE overlaps + 1
    BY <1>0, <1>1, RecoveryBegins DEF Recovery!history
  <2> SUFFICES ASSUME NEW c \in Recovery!Codes PROVE UseOf(c)'
    BY DEF UseInv
  <2>2. UseOf(c)
    BY DEF UseInv
  <2>3. Cardinality(Using(c)') = Cardinality(Using(c)) /\ Cardinality(Using(c)) \in Nat
    BY <1>0, <2>1, UsingMoves
  <2>4. /\ Cardinality(Busy') = Cardinality(Busy) + 1 /\ Cardinality(Busy) \in Nat
        /\ Recovery!AtRest => Cardinality(Busy) = 0
    BY <1>0, <2>1, BusyMoves
  <2>5. used'[c] + Cardinality(Using(c)') <= 1 + overlaps'
    BY <1>a, <2>1, <2>2, <2>3 DEF UseOf
  <2>6. ASSUME NEW v \in Workers, pc'[v] = "put", job'[v].otp.code = c
        PROVE  used'[c] + Cardinality(Busy') <= 1 + overlaps'
    <3>1. pc[v] = "put" /\ job[v].otp.code = c
      BY <2>1, <2>6 DEF Others
    <3>2. ~Recovery!AtRest
      BY <3>1 DEF Recovery!AtRest, Recovery!At
    <3> QED
      BY <1>a, <2>1, <2>2, <2>4, <3>1, <3>2 DEF UseOf
  <2>7. ASSUME otp'.code = c
        PROVE  \/ used'[c] + Cardinality(Busy') <= overlaps'
               \/ /\ used'[c] + Cardinality(Busy') <= 1 + overlaps'
                  /\ ~Recovery!AtRest'
                  /\ \A v \in Workers : pc'[v] = "answer" => job'[v].entry # c
    <3>1. ~Recovery!AtRest'
      BY <2>1 DEF Recovery!AtRest, Recovery!At
    <3>2. ASSUME NEW v \in Workers, pc'[v] = "answer"
          PROVE  pc[v] = "answer" /\ job'[v] = job[v]
      BY <2>1, <3>2 DEF Others
    <3>3. otp.code = c
      BY <2>1, <2>7
    <3>4. CASE Recovery!AtRest
      <4>1. used[c] <= overlaps
        BY <1>a, <2>2, <2>4, <3>3, <3>4 DEF UseOf
      <4>2. \A v \in Workers : pc'[v] # "answer"
        BY <3>2, <3>4 DEF Recovery!AtRest, Recovery!At
      <4> QED
        BY <1>a, <2>1, <2>4, <3>1, <3>4, <4>1, <4>2
    <3>5. CASE ~Recovery!AtRest
      BY <1>a, <2>1, <2>2, <2>4, <3>1, <3>2, <3>3, <3>5 DEF UseOf
    <3> QED
      BY <3>4, <3>5
  <2> QED
    BY <2>5, <2>6, <2>7 DEF UseOf
<1>2. ASSUME NEW w \in Workers,
             Recovery!CountRequest(w) \/ Recovery!JudgeRequest(w) PROVE UseInv'
  BY <1>0, <1>2, RecoveryAsks, UseKept DEF Recovery!history
<1>3. ASSUME NEW w \in Workers, Recovery!PersistOtp(w) PROVE UseInv'
  <2>1. /\ Others(w) /\ UNCHANGED <<used, overlaps>> /\ pc[w] = "persist" /\ pc'[w] = "mail"
        /\ otp'.code = codes + 1 /\ codes + 1 \in Recovery!Codes
    <3>1. codes < MaxCodes
      BY <1>3, RecoveryRoom
    <3> QED
      BY <1>0, <1>3, <1>a, <3>1, RecoveryPersists, RecoveryNumbers
      DEF Recovery!history, Recovery!Codes
  <2> SUFFICES ASSUME NEW c \in Recovery!Codes PROVE UseOf(c)'
    BY DEF UseInv
  <2>2. UseOf(c)
    BY DEF UseInv
  <2>3. Cardinality(Using(c)') = Cardinality(Using(c)) /\ Cardinality(Using(c)) \in Nat
    BY <1>0, <2>1, UsingMoves
  <2>4. Cardinality(Busy') = Cardinality(Busy) /\ Cardinality(Busy) \in Nat
    BY <1>0, <2>1, BusyMoves
  <2>5. used'[c] + Cardinality(Using(c)') <= 1 + overlaps'
    BY <1>a, <2>1, <2>2, <2>3 DEF UseOf
  <2>6. ASSUME NEW v \in Workers, pc'[v] = "put", job'[v].otp.code = c
        PROVE  used'[c] + Cardinality(Busy') <= 1 + overlaps'
    <3>1. pc[v] = "put" /\ job[v].otp.code = c
      BY <2>1, <2>6 DEF Others
    <3> QED
      BY <1>a, <2>1, <2>2, <2>4, <3>1 DEF UseOf
  <2>7. ASSUME otp'.code = c
        PROVE  /\ used'[c] + Cardinality(Busy') <= 1 + overlaps'
               /\ ~Recovery!AtRest'
               /\ \A v \in Workers : pc'[v] = "answer" => job'[v].entry # c
    <3>1. ~Recovery!AtRest'
      BY <2>1 DEF Recovery!AtRest, Recovery!At
    <3>2. used[c] = 0 /\ c > codes
      BY <1>0, <1>a, <2>1, <2>7 DEF FreshInv
    <3>3. ASSUME NEW v \in Workers, pc'[v] = "answer" PROVE job'[v].entry # c
      <4>1. job'[v].entry = job[v].entry /\ job[v].entry <= codes
        BY <1>0, <2>1, <3>3 DEF Others, HeldInv, Holds
      <4> QED
        BY <1>a, <3>2, <4>1
    <3> QED
      BY <1>0, <1>a, <2>1, <2>4, <3>1, <3>2, <3>3 DEF LiveInv
  <2> QED
    BY <2>5, <2>6, <2>7 DEF UseOf
<1>4. ASSUME NEW w \in Workers, Recovery!MailCode(w) PROVE UseInv'
  <2>1. pc[w] = "mail"
    BY <1>4 DEF Recovery!MailCode, Recovery!At
  <2>2. job[w].otp.code \in 1 .. codes
    BY <1>0, <1>a, <2>1, RecoveryJobType, RecoveryNumbers DEF HeldInv, Holds
  <2> QED
    BY <1>0, <1>4, <2>1, <2>2, RecoveryMails, UseKept DEF Recovery!history
<1>5. ASSUME NEW w \in Workers, Recovery!NoneStored(w) PROVE UseInv'
  <2>1. pc'[w] = "idle"
    BY <1>0, <1>5, RecoveryLeaves DEF Recovery!NoneStored
  <2> QED
    BY <1>0, <1>5, <2>1, RecoveryReads, UseKept DEF Recovery!history
<1>6. ASSUME NEW w \in Workers, Recovery!RightEntry(w) PROVE UseInv'
  <2>1. /\ Others(w) /\ UNCHANGED <<otp, used, overlaps>>
        /\ pc[w] = "get" /\ pc'[w] = "use" /\ job'[w].entry = otp.code
    <3>1. pc'[w] # "idle"
      BY <1>0, <1>6, RecoveryStays DEF Recovery!RightEntry, Steps
    <3> QED
      BY <1>0, <1>6, <3>1, RecoveryReads DEF Recovery!history
  <2> SUFFICES ASSUME NEW c \in Recovery!Codes PROVE UseOf(c)'
    BY DEF UseInv
  <2>2. UseOf(c)
    BY DEF UseInv
  <2>3. /\ Cardinality(Using(c)) \in Nat /\ Cardinality(Using(c)') \in Nat
        /\ Cardinality(Using(c)) + 1 <= Cardinality(Busy)
        /\ otp.code = c => Cardinality(Using(c)') = Cardinality(Using(c)) + 1
        /\ otp.code # c => Cardinality(Using(c)') = Cardinality(Using(c))
    BY <1>0, <2>1, UsingMoves
  <2>4. Cardinality(Busy') = Cardinality(Busy) /\ Cardinality(Busy) \in Nat
    BY <1>0, <2>1, BusyMoves
  <2>5. used'[c] + Cardinality(Using(c)') <= 1 + overlaps'
    <3>1. CASE otp.code = c
      BY <1>a, <2>1, <2>2, <2>3, <2>4, <3>1 DEF UseOf
    <3>2. CASE otp.code # c
      BY <1>a, <2>1, <2>2, <2>3, <3>2 DEF UseOf
    <3> QED
      BY <3>1, <3>2
  <2>6. ASSUME NEW v \in Workers, pc'[v] = "put", job'[v].otp.code = c
        PROVE  used'[c] + Cardinality(Busy') <= 1 + overlaps'
    <3>1. pc[v] = "put" /\ job[v].otp.code = c
      BY <2>1, <2>6 DEF Others
    <3> QED
      BY <1>a, <2>1, <2>2, <2>4, <3>1 DEF UseOf
  <2>7. ASSUME otp'.code = c
        PROVE  \/ used'[c] + Cardinality(Busy') <= overlaps'
               \/ /\ used'[c] + Cardinality(Busy') <= 1 + overlaps'
                  /\ ~Recovery!AtRest'
                  /\ \A v \in Workers : pc'[v] = "answer" => job'[v].entry # c
    <3>1. ~Recovery!AtRest'
      BY <2>1 DEF Recovery!AtRest, Recovery!At
    <3>2. ASSUME NEW v \in Workers, pc'[v] = "answer"
          PROVE  pc[v] = "answer" /\ job'[v] = job[v]
      BY <2>1, <3>2 DEF Others
    <3> QED
      BY <1>a, <2>1, <2>2, <2>4, <2>7, <3>1, <3>2 DEF UseOf
  <2> QED
    BY <2>5, <2>6, <2>7 DEF UseOf
<1>7. ASSUME NEW w \in Workers, Recovery!WrongEntry(w) PROVE UseInv'
  <2>1. /\ Others(w) /\ UNCHANGED <<otp, used, overlaps>>
        /\ pc[w] = "get" /\ pc'[w] \in {"clear", "put"} /\ job'[w].otp.code = otp.code
    BY <1>0, <1>7, RecoveryMisses
  <2> SUFFICES ASSUME NEW c \in Recovery!Codes PROVE UseOf(c)'
    BY DEF UseInv
  <2>2. UseOf(c)
    BY DEF UseInv
  <2>3. Cardinality(Using(c)') = Cardinality(Using(c)) /\ Cardinality(Using(c)) \in Nat
    BY <1>0, <2>1, UsingMoves
  <2>4. Cardinality(Busy') = Cardinality(Busy) /\ Cardinality(Busy) \in Nat
    BY <1>0, <2>1, BusyMoves
  <2>5. used'[c] + Cardinality(Using(c)') <= 1 + overlaps'
    BY <1>a, <2>1, <2>2, <2>3 DEF UseOf
  <2>6. ASSUME NEW v \in Workers, pc'[v] = "put", job'[v].otp.code = c
        PROVE  used'[c] + Cardinality(Busy') <= 1 + overlaps'
    <3>1. CASE v = w
      <4>1. otp.code = c
        BY <2>1, <2>6, <3>1
      <4> QED
        BY <1>a, <2>1, <2>2, <2>4, <4>1 DEF UseOf
    <3>2. CASE v # w
      <4>1. pc[v] = "put" /\ job[v].otp.code = c
        BY <2>1, <2>6, <3>2 DEF Others
      <4> QED
        BY <1>a, <2>1, <2>2, <2>4, <4>1 DEF UseOf
    <3> QED
      BY <3>1, <3>2
  <2>7. ASSUME otp'.code = c
        PROVE  \/ used'[c] + Cardinality(Busy') <= overlaps'
               \/ /\ used'[c] + Cardinality(Busy') <= 1 + overlaps'
                  /\ ~Recovery!AtRest'
                  /\ \A v \in Workers : pc'[v] = "answer" => job'[v].entry # c
    <3>1. ~Recovery!AtRest'
      BY <2>1 DEF Recovery!AtRest, Recovery!At
    <3>2. ASSUME NEW v \in Workers, pc'[v] = "answer"
          PROVE  pc[v] = "answer" /\ job'[v] = job[v]
      BY <2>1, <3>2 DEF Others
    <3> QED
      BY <1>a, <2>1, <2>2, <2>4, <2>7, <3>1, <3>2 DEF UseOf
  <2> QED
    BY <2>5, <2>6, <2>7 DEF UseOf
<1>8. ASSUME NEW w \in Workers, Recovery!PutOtp(w) PROVE UseInv'
  <2>1. pc[w] = "put"
    BY <1>8 DEF Recovery!PutOtp, Recovery!At
  <2>2. job[w].otp.code # 0 /\ job[w].otp.attempts < MaxAttempts
    BY <1>0, <2>1 DEF HeldInv, Holds
  <2>3. /\ Others(w) /\ pc'[w] = "idle" /\ otp' = job[w].otp /\ UNCHANGED <<used, overlaps>>
    BY <1>0, <1>8, <2>2, RecoveryPuts DEF Recovery!history
  <2> SUFFICES ASSUME NEW c \in Recovery!Codes PROVE UseOf(c)'
    BY DEF UseInv
  <2>4. UseOf(c)
    BY DEF UseInv
  <2>5. Cardinality(Using(c)') = Cardinality(Using(c)) /\ Cardinality(Using(c)) \in Nat
    BY <1>0, <2>1, <2>3, UsingMoves
  <2>6. /\ Cardinality(Busy) = Cardinality(Busy') + 1 /\ Cardinality(Busy') \in Nat
    BY <1>0, <2>1, <2>3, BusyMoves
  <2>7. used'[c] + Cardinality(Using(c)') <= 1 + overlaps'
    BY <1>a, <2>3, <2>4, <2>5 DEF UseOf
  <2>8. ASSUME NEW v \in Workers, pc'[v] = "put", job'[v].otp.code = c
        PROVE  used'[c] + Cardinality(Busy') <= 1 + overlaps'
    <3>1. pc[v] = "put" /\ job[v].otp.code = c
      BY <2>3, <2>8 DEF Others
    <3> QED
      BY <1>a, <2>3, <2>4, <2>6, <3>1 DEF UseOf
  <2>9. otp'.code = c => used'[c] + Cardinality(Busy') <= overlaps'
    BY <1>a, <2>1, <2>3, <2>4, <2>6 DEF UseOf
  <2> QED
    BY <2>7, <2>8, <2>9 DEF UseOf
<1>9. ASSUME NEW w \in Workers, Recovery!ClearOtp(w) \/ Recovery!SetLockout(w) PROVE UseInv'
  BY <1>0, <1>9, RecoveryLocks, UseKept DEF Recovery!history
<1>10. ASSUME NEW w \in Workers, Recovery!Use(w) PROVE UseInv'
  BY <1>0, <1>10, RecoveryUses, UseKept DEF Recovery!history
<1>11. ASSUME NEW w \in Workers, Recovery!Answer(w) PROVE UseInv'
  <2>1. pc[w] = "answer" /\ job[w].entry # 0
    BY <1>0, <1>11 DEF Recovery!Answer, Recovery!At, HeldInv, Holds
  <2>2. /\ Others(w) /\ UNCHANGED <<otp, overlaps>> /\ job[w].entry \in Recovery!Codes
        /\ used' = [used EXCEPT ![job[w].entry] = used[job[w].entry] + 1]
        /\ pc'[w] = "idle"
    BY <1>0, <1>11, <2>1, RecoveryAnswers
  <2> SUFFICES ASSUME NEW c \in Recovery!Codes PROVE UseOf(c)'
    BY DEF UseInv
  <2>3. UseOf(c)
    BY DEF UseInv
  <2>4. /\ Cardinality(Using(c)) \in Nat /\ Cardinality(Using(c)') \in Nat
        /\ job[w].entry = c => Cardinality(Using(c)) = Cardinality(Using(c)') + 1
        /\ job[w].entry # c => Cardinality(Using(c)') = Cardinality(Using(c))
    BY <1>0, <2>1, <2>2, UsingMoves
  <2>5. /\ Cardinality(Busy) = Cardinality(Busy') + 1 /\ Cardinality(Busy') \in Nat
    BY <1>0, <2>1, <2>2, BusyMoves
  <2>6. used'[c] = IF job[w].entry = c THEN used[c] + 1 ELSE used[c]
    BY <1>0, <2>2 DEF Recovery!TypeOK
  <2>7. used'[c] + Cardinality(Using(c)') <= 1 + overlaps'
    BY <1>a, <2>2, <2>3, <2>4, <2>6 DEF UseOf
  <2>8. ASSUME NEW v \in Workers, pc'[v] = "put", job'[v].otp.code = c
        PROVE  used'[c] + Cardinality(Busy') <= 1 + overlaps'
    <3>1. pc[v] = "put" /\ job[v].otp.code = c
      BY <2>2, <2>8 DEF Others
    <3> QED
      BY <1>a, <2>2, <2>3, <2>5, <2>6, <3>1 DEF UseOf
  <2>9. otp'.code = c => used'[c] + Cardinality(Busy') <= overlaps'
    BY <1>a, <2>1, <2>2, <2>3, <2>5, <2>6 DEF UseOf
  <2> QED
    BY <2>7, <2>8, <2>9 DEF UseOf
<1>12. ASSUME NEW w \in Workers, Recovery!Abort(w) PROVE UseInv'
  BY <1>0, <1>12, RecoveryAborts, UseKept DEF Recovery!history
<1>13. ASSUME Recovery!ExpireOtp \/ Recovery!ExpireAsked \/ Recovery!ExpireLock PROVE UseInv'
  <2>1. UNCHANGED <<pc, job, used, overlaps>> /\ (otp' = Recovery!NoOtp \/ otp' = otp)
    BY <1>0, <1>13, RecoveryExpires
  <2> SUFFICES ASSUME NEW c \in Recovery!Codes PROVE UseOf(c)'
    BY DEF UseInv
  <2> QED
    BY <1>a, <2>1 DEF UseInv, UseOf, Using, Busy, Recovery!AtRest, Recovery!At
<1>14. CASE UNCHANGED (Recovery!vars)
  BY <1>14 DEF Recovery!vars, Recovery!store, Recovery!history, Recovery!bounds, UseInv, UseOf,
  Using, Busy, Recovery!AtRest, Recovery!At
<1> QED
  BY <1>1, <1>2, <1>3, <1>4, <1>5, <1>6, <1>7, <1>8, <1>9, <1>10, <1>11, <1>12, <1>13, <1>14
  DEF Recovery!Next, Recovery!Step

(* verifyOtp lets a code be used once, and once more for each request that *)
(* began while another was in flight: an entry being judged writes its     *)
(* copy back over the deletion, or two right ones read the code together.  *)
THEOREM CodesUsedOnce == Recovery!Spec => []UsedOnce
<1>1. Recovery!Init => UseInv
  <2> SUFFICES ASSUME Recovery!Init, NEW c \in Recovery!Codes PROVE UseOf(c)
    BY DEF UseInv
  <2>1. Using(c) = {} /\ otp.code = 0 /\ c # 0
    BY CodesAssumption DEF Recovery!Init, Using, Recovery!NoOtp, Recovery!Codes
  <2> QED
    BY <2>1, FS_EmptySet DEF Recovery!Init, UseOf
<1>2. CoreInv /\ UseInv /\ [Recovery!Next]_(Recovery!vars) => UseInv'
  BY RecoveryNextUse
<1>3. CoreInv /\ UseInv => UsedOnce
  <2> SUFFICES ASSUME CoreInv, UseInv, NEW c \in Recovery!Codes PROVE used[c] <= 1 + overlaps
    BY DEF UsedOnce, Recovery!Codes
  <2>1. Using(c) \in SUBSET Busy
    BY DEF Using, Busy
  <2>2. Cardinality(Using(c)) \in Nat
    BY <2>1, FS_Subset, FS_CardinalityType DEF CoreInv, LiveInv
  <2>3. used[c] \in Nat /\ overlaps \in Nat
    BY RecoveryNumbers DEF CoreInv
  <2> QED
    BY <2>2, <2>3 DEF UseInv, UseOf
<1> QED
  BY <1>1, <1>2, <1>3, RecoveryCore, PTL DEF Recovery!Spec

-----------------------------------------------------------------------------
(* A wrong entry is counted on a copy: the requests that hold a copy have  *)
(* been counted, every other one in flight may still read the stale count. *)
Copying(w, c) == pc[w] \in {"put", "clear", "lock"} /\ job[w].otp.code = c
Free(c) == {w \in Workers : pc[w] # "idle" /\ ~Copying(w, c)}

EntryOf(c) ==
    /\ wrong[c] <= MaxAttempts + overlaps + broken
    /\ \A w \in Workers : pc[w] = "put" /\ job[w].otp.code = c =>
          wrong[c] + Cardinality(Free(c)) <= job[w].otp.attempts + overlaps + broken
    /\ otp.code = c =>
          \/ wrong[c] + Cardinality(Free(c)) <= otp.attempts + overlaps + broken
          \/ /\ wrong[c] + Cardinality(Free(c)) <= otp.attempts + 1 + overlaps + broken
             /\ ~Recovery!AtRest
             /\ \A w \in Workers : pc[w] = "lock" => job[w].otp.code # c

EntryInv == \A c \in Recovery!Codes : EntryOf(c)

LEMMA FreeMoves ==
    ASSUME LiveInv, NEW w \in Workers, Others(w), NEW c
    PROVE  /\ Cardinality(Free(c)) \in Nat /\ Cardinality(Free(c)') \in Nat
           /\ (w \in Free(c) <=> w \in Free(c)') => Cardinality(Free(c)') = Cardinality(Free(c))
           /\ w \in Free(c)' /\ w \notin Free(c) =>
                 Cardinality(Free(c)') = Cardinality(Free(c)) + 1
           /\ w \in Free(c) /\ w \notin Free(c)' =>
                 Cardinality(Free(c)) = Cardinality(Free(c)') + 1
           /\ w \in Free(c) <=> pc[w] # "idle" /\ ~Copying(w, c)
           /\ w \in Free(c)' <=> pc'[w] # "idle" /\ ~Copying(w, c)'
           /\ Cardinality(Free(c)) <= Cardinality(Busy)
<1>1. Free(c)' \ {w} = Free(c) \ {w}
  BY DEF Free, Copying, Others
<1>2. /\ w \in Free(c) <=> pc[w] # "idle" /\ ~Copying(w, c)
      /\ w \in Free(c)' <=> pc'[w] # "idle" /\ ~Copying(w, c)'
  BY DEF Free
<1>3. Free(c) \in SUBSET Busy
  BY DEF Free, Busy
<1>4. IsFiniteSet(Free(c)) /\ Cardinality(Free(c)) <= Cardinality(Busy)
  BY <1>3, FS_Subset DEF LiveInv
<1> QED
  BY <1>1, <1>2, <1>4, OneMoves

LEMMA EntryNumbers ==
    ASSUME Recovery!TypeOK, NEW c \in Recovery!Codes
    PROVE  /\ wrong[c] \in Nat /\ overlaps \in Nat /\ broken \in Nat /\ c # 0
           /\ MaxAttempts \in Nat /\ otp.attempts \in Nat /\ otp.attempts < MaxAttempts
           /\ Recovery!NoOtp.code = 0
           /\ \A w \in Workers : job[w].otp.attempts \in Nat
BY RecoveryNumbers, RecoveryJobType, RecoveryNoJob

(* A step of a request that holds no copy.                                 *)
LEMMA EntryKept ==
    ASSUME CoreInv, EntryInv, NEW w \in Workers, Others(w),
           pc[w] \notin {"idle", "put", "clear", "lock"},
           pc'[w] \notin {"put", "clear", "lock"},
           UNCHANGED <<wrong, overlaps>>, broken' = broken \/ broken' = broken + 1,
           otp' = otp \/ otp' = Recovery!NoOtp
    PROVE  EntryInv'
<1> SUFFICES ASSUME NEW c \in Recovery!Codes PROVE EntryOf(c)'
  BY DEF EntryInv
<1>1. EntryOf(c) /\ LiveInv /\ Recovery!TypeOK
  BY DEF EntryInv, CoreInv
<1>2. /\ wrong[c] \in Nat /\ overlaps \in Nat /\ broken \in Nat /\ c # 0 /\ MaxAttempts \in Nat
      /\ otp.attempts \in Nat /\ Recovery!NoOtp.code = 0 /\ broken' \in Nat /\ broken <= broken'
      /\ \A v \in Workers : job[v].otp.attempts \in Nat
  BY <1>1, EntryNumbers
<1>3. /\ Cardinality(Free(c)) \in Nat /\ Cardinality(Free(c)') \in Nat
      /\ IF pc'[w] = "idle"
            THEN Cardinality(Free(c)) = Cardinality(Free(c)') + 1
            ELSE Cardinality(Free(c)') = Cardinality(Free(c))
  <2>1. ~Copying(w, c) /\ ~Copying(w, c)'
    BY DEF Copying
  <2> QED
    BY <1>1, <2>1, FreeMoves
<1>4. wrong'[c] <= MaxAttempts + overlaps' + broken'
  BY <1>1, <1>2 DEF EntryOf
<1>5. ASSUME NEW v \in Workers, pc'[v] = "put", job'[v].otp.code = c
      PROVE  wrong'[c] + Cardinality(Free(c)') <= job'[v].otp.attempts + overlaps' + broken'
  <2>1. pc[v] = "put" /\ job[v].otp.code = c /\ job'[v] = job[v]
    BY <1>5 DEF Others
  <2> QED
    BY <1>1, <1>2, <1>3, <2>1 DEF EntryOf
<1>6. ASSUME otp'.code = c
      PROVE  \/ wrong'[c] + Cardinality(Free(c)') <= otp'.attempts + overlaps' + broken'
             \/ /\ wrong'[c] + Cardinality(Free(c)') <= otp'.attempts + 1 + overlaps' + broken'
                /\ ~Recovery!AtRest'
                /\ \A v \in Workers : pc'[v] = "lock" => job'[v].otp.code # c
  <2>1. otp' = otp /\ otp.code = c
    BY <1>2, <1>6
  <2>2. CASE pc'[w] = "idle"
    BY <1>1, <1>2, <1>3, <2>1, <2>2 DEF EntryOf
  <2>3. CASE pc'[w] # "idle"
    <3>1. ~Recovery!AtRest'
      BY <2>3 DEF Recovery!AtRest, Recovery!At
    <3>2. ASSUME NEW v \in Workers, pc'[v] = "lock"
          PROVE  pc[v] = "lock" /\ job'[v] = job[v]
      BY <3>2 DEF Others
    <3> QED
      BY <1>1, <1>2, <1>3, <2>1, <2>3, <3>1, <3>2 DEF EntryOf
  <2> QED
    BY <2>2, <2>3
<1> QED
  BY <1>4, <1>5, <1>6 DEF EntryOf

LEMMA RecoveryNextEntry == CoreInv /\ EntryInv /\ [Recovery!Next]_(Recovery!vars) => EntryInv'
<1> SUFFICES ASSUME CoreInv, EntryInv, [Recovery!Next]_(Recovery!vars) PROVE EntryInv'
  OBVIOUS
<1>0. Recovery!TypeOK /\ LiveInv /\ AskInv /\ HeldInv /\ FreshInv
  BY DEF CoreInv
<1>a. /\ codes \in Nat /\ Recovery!NoOtp.code = 0 /\ Recovery!NoJob.otp = Recovery!NoOtp
      /\ \A c \in Recovery!Codes : c # 0 /\ c \in Nat
  BY <1>0, RecoveryNumbers, RecoveryNoJob
<1>1. ASSUME NEW w \in Workers,
             Recovery!Request(w) \/ \E e \in mailed \cup {0} : Recovery!Verify(w, e)
      PROVE  EntryInv'
  <2>1. /\ Others(w) /\ UNCHANGED <<otp, wrong, broken>>
        /\ pc[w] = "idle" /\ pc'[w] \in {"limit", "get"}
        /\ overlaps' = IF Recovery!AtRest THEN overlaps ELSE overlaps + 1
    BY <1>0, <1>1, RecoveryBegins DEF Recovery!history
  <2> SUFFICES ASSUME NEW c \in Recovery!Codes PROVE EntryOf(c)'
    BY DEF EntryInv
  <2>2. EntryOf(c)
    BY DEF EntryInv
  <2>3. /\ wrong[c] \in Nat /\ overlaps \in Nat /\ broken \in Nat /\ MaxAttempts \in Nat
        /\ otp.attempts \in Nat /\ overlaps' \in Nat /\ overlaps <= overlaps'
        /\ \A v \in Workers : job[v].otp.attempts \in Nat
    BY <1>0, <2>1, EntryNumbers
  <2>4. /\ Cardinality(Free(c)') = Cardinality(Free(c)) + 1 /\ Cardinality(Free(c)) \in Nat
    <3>1. ~Copying(w, c) /\ ~Copying(w, c)'
      BY <2>1 DEF Copying
    <3> QED
      BY <1>0, <2>1, <3>1, FreeMoves
  <2>5. wrong'[c] <= MaxAttempts + overlaps' + broken'
    BY <2>1, <2>2, <2>3 DEF EntryOf
  <2>6. ASSUME NEW v \in Workers, pc'[v] = "put", job'[v].otp.code = c
        PROVE  wrong'[c] + Cardinality(Free(c)') <= job'[v].otp.attempts + overlaps' + broken'
    <3>1. pc[v] = "put" /\ job[v].otp.code = c /\ job'[v] = job[v]
      BY <2>1, <2>6 DEF Others
    <3>2. ~Recovery!AtRest
      BY <3>1 DEF Recovery!AtRest, Recovery!At
    <3> QED
      BY <2>1, <2>2, <2>3, <2>4, <3>1, <3>2 DEF EntryOf
  <2>7. ASSUME otp'.code = c
        PROVE  \/ wrong'[c] + Cardinality(Free(c)') <= otp'.attempts + overlaps' + broken'
               \/ /\ wrong'[c] + Cardinality(Free(c)') <= otp'.attempts + 1 + overlaps' + broken'
                  /\ ~Recovery!AtRest'
                  /\ \A v \in Workers : pc'[v] = "lock" => job'[v].otp.code # c
    <3>1. ~Recovery!AtRest'
      BY <2>1 DEF Recovery!AtRest, Recovery!At
    <3>2. ASSUME NEW v \in Workers, pc'[v] = "lock"
          PROVE  pc[v] = "lock" /\ job'[v] = job[v]
      BY <2>1, <3>2 DEF Others
    <3>3. otp.code = c
      BY <2>1, <2>7
    <3>4. CASE Recovery!AtRest
      <4>1. wrong[c] + Cardinality(Free(c)) <= otp.attempts + overlaps + broken
        BY <2>2, <3>3, <3>4 DEF EntryOf
      <4>2. \A v \in Workers : pc'[v] # "lock"
        BY <3>2, <3>4 DEF Recovery!AtRest, Recovery!At
      <4> QED
        BY <2>1, <2>3, <2>4, <3>1, <3>4, <4>1, <4>2
    <3>5. CASE ~Recovery!AtRest
      BY <2>1, <2>2, <2>3, <2>4, <3>1, <3>2, <3>3, <3>5 DEF EntryOf
    <3> QED
      BY <3>4, <3>5
  <2> QED
    BY <2>5, <2>6, <2>7 DEF EntryOf
<1>2. ASSUME NEW w \in Workers,
             Recovery!CountRequest(w) \/ Recovery!JudgeRequest(w) PROVE EntryInv'
  BY <1>0, <1>2, RecoveryAsks, EntryKept DEF Recovery!history
<1>3. ASSUME NEW w \in Workers, Recovery!PersistOtp(w) PROVE EntryInv'
  <2>1. /\ Others(w) /\ UNCHANGED <<wrong, overlaps, broken>>
        /\ pc[w] = "persist" /\ pc'[w] = "mail"
        /\ otp'.code = codes + 1 /\ otp'.attempts = 0 /\ codes + 1 \in Recovery!Codes
    <3>1. codes < MaxCodes
      BY <1>3, RecoveryRoom
    <3> QED
      BY <1>0, <1>3, <1>a, <3>1, RecoveryPersists, RecoveryNumbers
      DEF Recovery!history, Recovery!Codes
  <2> SUFFICES ASSUME NEW c \in Recovery!Codes PROVE EntryOf(c)'
    BY DEF EntryInv
  <2>2. EntryOf(c)
    BY DEF EntryInv
  <2>3. /\ wrong[c] \in Nat /\ overlaps \in Nat /\ broken \in Nat /\ MaxAttempts \in Nat
        /\ \A v \in Workers : job[v].otp.attempts \in Nat
    BY <1>0, EntryNumbers
  <2>4. /\ Cardinality(Free(c)') = Cardinality(Free(c)) /\ Cardinality(Free(c)) \in Nat
        /\ Cardinality(Free(c)) <= Cardinality(Busy)
    <3>1. ~Copying(w, c) /\ ~Copying(w, c)'
      BY <2>1 DEF Copying
    <3> QED
      BY <1>0, <2>1, <3>1, FreeMoves
  <2>5. wrong'[c] <= MaxAttempts + overlaps' + broken'
    BY <2>1, <2>2, <2>3 DEF EntryOf
  <2>6. ASSUME NEW v \in Workers, pc'[v] = "put", job'[v].otp.code = c
        PROVE  wrong'[c] + Cardinality(Free(c)') <= job'[v].otp.attempts + overlaps' + broken'
    <3>1. pc[v] = "put" /\ job[v].otp.code = c /\ job'[v] = job[v]
      BY <2>1, <2>6 DEF Others
    <3> QED
      BY <2>1, <2>2, <2>3, <2>4, <3>1 DEF EntryOf
  <2>7. ASSUME otp'.code = c
        PROVE  /\ wrong'[c] + Cardinality(Free(c)') <= otp'.attempts + 1 + overlaps' + broken'
               /\ ~Recovery!AtRest'
               /\ \A v \in Workers : pc'[v] = "lock" => job'[v].otp.code # c
    <3>1. ~Recovery!AtRest'
      BY <2>1 DEF Recovery!AtRest, Recovery!At
    <3>2. wrong[c] = 0 /\ c > codes
      BY <1>0, <1>a, <2>1, <2>7 DEF FreshInv
    <3>3. ASSUME NEW v \in Workers, pc'[v] = "lock" PROVE job'[v].otp.code # c
      <4>1. job'[v] = job[v] /\ job[v].otp.code <= codes
        BY <1>0, <2>1, <3>3 DEF Others, HeldInv, Holds
      <4> QED
        BY <1>a, <3>2, <4>1
    <3>4. Cardinality(Free(c)) <= 1 + overlaps
      <4>1. Cardinality(Busy) \in Nat /\ Cardinality(Busy) <= 1 + overlaps
        BY <1>0, <2>1, BusyMoves DEF LiveInv
      <4> QED
        BY <2>3, <2>4, <4>1
    <3> QED
      BY <2>1, <2>3, <2>4, <3>1, <3>2, <3>3, <3>4
  <2> QED
    BY <2>5, <2>6, <2>7 DEF EntryOf
<1>4. ASSUME NEW w \in Workers, Recovery!MailCode(w) PROVE EntryInv'
  <2>1. pc[w] = "mail"
    BY <1>4 DEF Recovery!MailCode, Recovery!At
  <2>2. job[w].otp.code \in 1 .. codes
    BY <1>0, <1>a, <2>1, RecoveryJobType, RecoveryNumbers DEF HeldInv, Holds
  <2> QED
    BY <1>0, <1>4, <2>1, <2>2, RecoveryMails, EntryKept DEF Recovery!history
<1>5. ASSUME NEW w \in Workers, Recovery!NoneStored(w) \/ Recovery!RightEntry(w) PROVE EntryInv'
  BY <1>0, <1>5, RecoveryReads, EntryKept DEF Recovery!history
<1>6. ASSUME NEW w \in Workers, Recovery!WrongEntry(w) PROVE EntryInv'
  <2>1. /\ Others(w) /\ UNCHANGED <<otp, overlaps, broken>>
        /\ otp.code \in Recovery!Codes
        /\ wrong' = [wrong EXCEPT ![otp.code] = wrong[otp.code] + 1]
        /\ pc[w] = "get"
        /\ pc'[w] = IF otp.attempts + 1 >= MaxAttempts THEN "clear" ELSE "put"
        /\ job'[w].otp.code = otp.code /\ job'[w].otp.attempts = otp.attempts + 1
    BY <1>0, <1>6, RecoveryMisses
  <2>2. pc'[w] \in {"clear", "put"}
    BY <2>1
  <2> SUFFICES ASSUME NEW c \in Recovery!Codes PROVE EntryOf(c)'
    BY DEF EntryInv
  <2>3. EntryOf(c)
    BY DEF EntryInv
  <2>4. /\ wrong[c] \in Nat /\ overlaps \in Nat /\ broken \in Nat /\ MaxAttempts \in Nat
        /\ otp.attempts \in Nat /\ otp.attempts < MaxAttempts
        /\ \A v \in Workers : job[v].otp.attempts \in Nat
    BY <1>0, EntryNumbers
  <2>5. wrong'[c] = IF otp.code = c THEN wrong[c] + 1 ELSE wrong[c]
    BY <1>0, <2>1 DEF Recovery!TypeOK
  <2>6. /\ Cardinality(Free(c)) \in Nat /\ Cardinality(Free(c)') \in Nat
        /\ IF otp.code = c THEN Cardinality(Free(c)) = Cardinality(Free(c)') + 1
                           ELSE Cardinality(Free(c)') = Cardinality(Free(c))
    <3>1. ~Copying(w, c) /\ (Copying(w, c)' <=> otp.code = c)
      BY <2>1, <2>2 DEF Copying
    <3> QED
      BY <1>0, <2>1, <2>2, <3>1, FreeMoves
  <2>7. wrong'[c] + Cardinality(Free(c)') = wrong[c] + Cardinality(Free(c)) /\ wrong'[c] \in Nat
    BY <2>4, <2>5, <2>6
  <2>8. otp.code = c =>
           wrong[c] + Cardinality(Free(c)) <= otp.attempts + 1 + overlaps + broken
    BY <2>3, <2>4, <2>6 DEF EntryOf
  <2>9. wrong'[c] <= MaxAttempts + overlaps' + broken'
    <3>1. CASE otp.code = c
      BY <2>1, <2>4, <2>6, <2>7, <2>8, <3>1
    <3>2. CASE otp.code # c
      BY <2>1, <2>3, <2>5, <3>2 DEF EntryOf
    <3> QED
      BY <3>1, <3>2
  <2>10. ASSUME NEW v \in Workers, pc'[v] = "put", job'[v].otp.code = c
         PROVE  wrong'[c] + Cardinality(Free(c)') <= job'[v].otp.attempts + overlaps' + broken'
    <3>1. CASE v = w
      BY <2>1, <2>7, <2>8, <2>10, <3>1
    <3>2. CASE v # w
      <4>1. pc[v] = "put" /\ job[v].otp.code = c /\ job'[v] = job[v]
        BY <2>1, <2>10, <3>2 DEF Others
      <4> QED
        BY <2>1, <2>3, <2>7, <4>1 DEF EntryOf
    <3> QED
      BY <3>1, <3>2
  <2>11. ASSUME otp'.code = c
         PROVE  \/ wrong'[c] + Cardinality(Free(c)') <= otp'.attempts + overlaps' + broken'
                \/ /\ wrong'[c] + Cardinality(Free(c)') <= otp'.attempts + 1 + overlaps' + broken'
                   /\ ~Recovery!AtRest'
                   /\ \A v \in Workers : pc'[v] = "lock" => job'[v].otp.code # c
    <3>1. ~Recovery!AtRest'
      BY <2>2 DEF Recovery!AtRest, Recovery!At
    <3>2. ASSUME NEW v \in Workers, pc'[v] = "lock"
          PROVE  pc[v] = "lock" /\ job'[v] = job[v]
      BY <2>1, <2>2, <3>2 DEF Others
    <3> QED
      BY <2>1, <2>3, <2>7, <2>11, <3>1, <3>2 DEF EntryOf
  <2> QED
    BY <2>9, <2>10, <2>11 DEF EntryOf
<1>7. ASSUME NEW w \in Workers, Recovery!PutOtp(w) PROVE EntryInv'
  <2>1. pc[w] = "put"
    BY <1>7 DEF Recovery!PutOtp, Recovery!At
  <2>2. job[w].otp.code # 0 /\ job[w].otp.attempts < MaxAttempts
    BY <1>0, <2>1 DEF HeldInv, Holds
  <2>3. /\ Others(w) /\ pc'[w] = "idle" /\ otp' = job[w].otp
        /\ UNCHANGED <<wrong, overlaps, broken>>
    BY <1>0, <1>7, <2>2, RecoveryPuts DEF Recovery!history
  <2> SUFFICES ASSUME NEW c \in Recovery!Codes PROVE EntryOf(c)'
    BY DEF EntryInv
  <2>4. EntryOf(c)
    BY DEF EntryInv
  <2>5. /\ wrong[c] \in Nat /\ overlaps \in Nat /\ broken \in Nat /\ MaxAttempts \in Nat
        /\ \A v \in Workers : job[v].otp.attempts \in Nat
    BY <1>0, EntryNumbers
  <2>6. /\ Cardinality(Free(c)) \in Nat /\ Cardinality(Free(c)') \in Nat
        /\ Cardinality(Free(c)') <= Cardinality(Free(c))
    BY <1>0, <2>3, FreeMoves
  <2>7. wrong'[c] <= MaxAttempts + overlaps' + broken'
    BY <2>3, <2>4 DEF EntryOf
  <2>8. ASSUME NEW v \in Workers, pc'[v] = "put", job'[v].otp.code = c
        PROVE  wrong'[c] + Cardinality(Free(c)') <= job'[v].otp.attempts + overlaps' + broken'
    <3>1. pc[v] = "put" /\ job[v].otp.code = c /\ job'[v] = job[v]
      BY <2>3, <2>8 DEF Others
    <3> QED
      BY <2>3, <2>4, <2>5, <2>6, <3>1 DEF EntryOf
  <2>9. otp'.code = c =>
           wrong'[c] + Cardinality(Free(c)') <= otp'.attempts + overlaps' + broken'
    BY <2>1, <2>3, <2>4, <2>5, <2>6 DEF EntryOf
  <2> QED
    BY <2>7, <2>8, <2>9 DEF EntryOf
<1>8. ASSUME NEW w \in Workers, Recovery!ClearOtp(w) \/ Recovery!SetLockout(w) PROVE EntryInv'
  <2>1. /\ Others(w) /\ UNCHANGED <<wrong, overlaps, broken>>
        /\ pc[w] \in {"clear", "lock"}
        /\ \/ pc[w] = "clear" /\ pc'[w] = "lock" /\ job'[w] = job[w] /\ otp' = Recovery!NoOtp
           \/ pc[w] = "lock" /\ pc'[w] = "idle" /\ job'[w] = Recovery!NoJob /\ otp' = otp
    BY <1>0, <1>8, RecoveryLocks DEF Recovery!history
  <2> SUFFICES ASSUME NEW c \in Recovery!Codes PROVE EntryOf(c)'
    BY DEF EntryInv
  <2>2. EntryOf(c)
    BY DEF EntryInv
  <2>3. /\ wrong[c] \in Nat /\ overlaps \in Nat /\ broken \in Nat /\ MaxAttempts \in Nat
        /\ otp.attempts \in Nat /\ c # 0
        /\ \A v \in Workers : job[v].otp.attempts \in Nat
    BY <1>0, EntryNumbers
  <2>4. /\ Cardinality(Free(c)) \in Nat /\ Cardinality(Free(c)') \in Nat
        /\ Cardinality(Free(c)') <= Cardinality(Free(c))
        /\ job[w].otp.code # c /\ pc'[w] = "idle" =>
              Cardinality(Free(c)) = Cardinality(Free(c)') + 1
    <3>1. /\ Copying(w, c) <=> job[w].otp.code = c
          /\ pc'[w] # "idle" => (Copying(w, c)' <=> job[w].otp.code = c)
      BY <2>1 DEF Copying
    <3> QED
      BY <1>0, <2>1, <3>1, FreeMoves
  <2>5. wrong'[c] <= MaxAttempts + overlaps' + broken'
    BY <2>1, <2>2 DEF EntryOf
  <2>6. ASSUME NEW v \in Workers, pc'[v] = "put", job'[v].otp.code = c
        PROVE  wrong'[c] + Cardinality(Free(c)') <= job'[v].otp.attempts + overlaps' + broken'
    <3>1. pc[v] = "put" /\ job[v].otp.code = c /\ job'[v] = job[v]
      BY <2>1, <2>6 DEF Others
    <3> QED
      BY <2>1, <2>2, <2>3, <2>4, <3>1 DEF EntryOf
  <2>7. otp'.code = c =>
           wrong'[c] + Cardinality(Free(c)') <= otp'.attempts + overlaps' + broken'
    <3> SUFFICES ASSUME otp'.code = c
                 PROVE  wrong'[c] + Cardinality(Free(c)') <= otp'.attempts + overlaps' + broken'
      OBVIOUS
    <3>1. pc[w] = "lock" /\ pc'[w] = "idle" /\ otp' = otp
      BY <1>a, <2>1, <2>3
    <3> QED
      BY <2>1, <2>2, <2>3, <2>4, <3>1 DEF EntryOf
  <2> QED
    BY <2>5, <2>6, <2>7 DEF EntryOf
<1>9. ASSUME NEW w \in Workers, Recovery!Use(w) PROVE EntryInv'
  BY <1>0, <1>9, RecoveryUses, EntryKept DEF Recovery!history
<1>10. ASSUME NEW w \in Workers, Recovery!Answer(w) PROVE EntryInv'
  <2>1. pc[w] = "answer" /\ job[w].entry # 0
    BY <1>0, <1>10 DEF Recovery!Answer, Recovery!At, HeldInv, Holds
  <2> QED
    BY <1>0, <1>10, <2>1, RecoveryAnswers, EntryKept
<1>11. ASSUME NEW w \in Workers, Recovery!Abort(w) PROVE EntryInv'
  <2>1. /\ Others(w) /\ UNCHANGED <<otp, wrong, overlaps>> /\ broken' = broken + 1
        /\ pc[w] # "idle" /\ pc'[w] = "idle"
    BY <1>0, <1>11, RecoveryAborts DEF Recovery!history
  <2> SUFFICES ASSUME NEW c \in Recovery!Codes PROVE EntryOf(c)'
    BY DEF EntryInv
  <2>2. EntryOf(c)
    BY DEF EntryInv
  <2>3. /\ wrong[c] \in Nat /\ overlaps \in Nat /\ broken \in Nat /\ MaxAttempts \in Nat
        /\ otp.attempts \in Nat
        /\ \A v \in Workers : job[v].otp.attempts \in Nat
    BY <1>0, EntryNumbers
  <2>4. /\ Cardinality(Free(c)) \in Nat /\ Cardinality(Free(c)') \in Nat
        /\ Cardinality(Free(c)') <= Cardinality(Free(c))
    BY <1>0, <2>1, FreeMoves
  <2>5. wrong'[c] <= MaxAttempts + overlaps' + broken'
    BY <2>1, <2>2, <2>3 DEF EntryOf
  <2>6. ASSUME NEW v \in Workers, pc'[v] = "put", job'[v].otp.code = c
        PROVE  wrong'[c] + Cardinality(Free(c)') <= job'[v].otp.attempts + overlaps' + broken'
    <3>1. pc[v] = "put" /\ job[v].otp.code = c /\ job'[v] = job[v]
      BY <2>1, <2>6 DEF Others
    <3> QED
      BY <2>1, <2>2, <2>3, <2>4, <3>1 DEF EntryOf
  <2>7. otp'.code = c =>
           wrong'[c] + Cardinality(Free(c)') <= otp'.attempts + overlaps' + broken'
    BY <2>1, <2>2, <2>3, <2>4 DEF EntryOf
  <2> QED
    BY <2>5, <2>6, <2>7 DEF EntryOf
<1>12. ASSUME Recovery!ExpireOtp \/ Recovery!ExpireAsked \/ Recovery!ExpireLock PROVE EntryInv'
  <2>1. UNCHANGED <<pc, job, wrong, overlaps, broken>> /\ (otp' = Recovery!NoOtp \/ otp' = otp)
    BY <1>0, <1>12, RecoveryExpires
  <2> SUFFICES ASSUME NEW c \in Recovery!Codes PROVE EntryOf(c)'
    BY DEF EntryInv
  <2> QED
    BY <1>a, <2>1 DEF EntryInv, EntryOf, Free, Copying, Recovery!AtRest, Recovery!At
<1>13. CASE UNCHANGED (Recovery!vars)
  BY <1>13 DEF Recovery!vars, Recovery!store, Recovery!history, Recovery!bounds, EntryInv,
  EntryOf, Free, Copying, Recovery!AtRest, Recovery!At
<1> QED
  BY <1>1, <1>2, <1>3, <1>4, <1>5, <1>6, <1>7, <1>8, <1>9, <1>10, <1>11, <1>12, <1>13
  DEF Recovery!Next, Recovery!Step

(* A code takes MAX_VERIFY_ATTEMPTS wrong entries, and one more for each   *)
(* request that overlapped another or failed before it wrote its copy.     *)
THEOREM EntriesStayBounded == Recovery!Spec => []EntriesBounded
<1>1. Recovery!Init => EntryInv
  <2> SUFFICES ASSUME Recovery!Init, NEW c \in Recovery!Codes PROVE EntryOf(c)
    BY DEF EntryInv
  <2>1. otp.code = 0 /\ c # 0
    BY CodesAssumption DEF Recovery!Init, Recovery!NoOtp, Recovery!Codes
  <2> QED
    BY <2>1, CodesAssumption DEF Recovery!Init, EntryOf
<1>2. CoreInv /\ EntryInv /\ [Recovery!Next]_(Recovery!vars) => EntryInv'
  BY RecoveryNextEntry
<1>3. EntryInv => EntriesBounded
  BY DEF EntryInv, EntryOf, EntriesBounded, Recovery!Codes
<1> QED
  BY <1>1, <1>2, <1>3, RecoveryCore, PTL DEF Recovery!Spec

-----------------------------------------------------------------------------
(* The count never runs ahead of the wrong entries there were.             *)
TallyInv ==
    /\ otp.code # 0 => wrong[otp.code] >= otp.attempts
    /\ \A w \in Workers : pc[w] \in {"put", "clear"} =>
          wrong[job[w].otp.code] >= job[w].otp.attempts

LEMMA TallyKept ==
    ASSUME CoreInv, TallyInv, NEW w \in Workers, Others(w),
           pc'[w] \notin {"put", "clear"}, wrong' = wrong, otp' = otp \/ otp' = Recovery!NoOtp
    PROVE  TallyInv'
<1>1. Recovery!NoOtp.code = 0
  BY RecoveryNoJob
<1>2. \A v \in Workers : pc'[v] \in {"put", "clear"} =>
         pc[v] \in {"put", "clear"} /\ job'[v] = job[v]
  BY DEF Others
<1> QED
  BY <1>1, <1>2 DEF TallyInv

LEMMA RecoveryNextTally == CoreInv /\ TallyInv /\ [Recovery!Next]_(Recovery!vars) => TallyInv'
<1> SUFFICES ASSUME CoreInv, TallyInv, [Recovery!Next]_(Recovery!vars) PROVE TallyInv'
  OBVIOUS
<1>0. Recovery!TypeOK /\ LiveInv /\ AskInv /\ HeldInv /\ FreshInv
  BY DEF CoreInv
<1>1. ASSUME NEW w \in Workers,
             Recovery!Request(w) \/ \E e \in mailed \cup {0} : Recovery!Verify(w, e)
      PROVE  TallyInv'
  BY <1>0, <1>1, RecoveryBegins, TallyKept DEF Recovery!history
<1>2. ASSUME NEW w \in Workers,
             Recovery!CountRequest(w) \/ Recovery!JudgeRequest(w) PROVE TallyInv'
  BY <1>0, <1>2, RecoveryAsks, TallyKept DEF Recovery!history
<1>3. ASSUME NEW w \in Workers, Recovery!PersistOtp(w) PROVE TallyInv'
  <2>1. codes < MaxCodes
    BY <1>3, RecoveryRoom
  <2>2. /\ Others(w) /\ wrong' = wrong /\ pc'[w] = "mail" /\ otp'.code = codes + 1
        /\ otp'.attempts = 0 /\ codes + 1 \in Recovery!Codes /\ wrong[codes + 1] >= 0
    BY <1>0, <1>3, <2>1, RecoveryPersists, RecoveryNumbers DEF Recovery!history, Recovery!Codes
  <2>3. \A v \in Workers : pc'[v] \in {"put", "clear"} =>
           pc[v] \in {"put", "clear"} /\ job'[v] = job[v]
    BY <2>2 DEF Others
  <2> QED
    BY <2>2, <2>3 DEF TallyInv
<1>4. ASSUME NEW w \in Workers, Recovery!MailCode(w) PROVE TallyInv'
  <2>1. pc[w] = "mail"
    BY <1>4 DEF Recovery!MailCode, Recovery!At
  <2>2. job[w].otp.code \in 1 .. codes
    BY <1>0, <2>1, RecoveryJobType, RecoveryNumbers DEF HeldInv, Holds
  <2> QED
    BY <1>0, <1>4, <2>2, RecoveryMails, TallyKept DEF Recovery!history
<1>5. ASSUME NEW w \in Workers, Recovery!NoneStored(w) \/ Recovery!RightEntry(w) PROVE TallyInv'
  BY <1>0, <1>5, RecoveryReads, TallyKept DEF Recovery!history
<1>6. ASSUME NEW w \in Workers, Recovery!WrongEntry(w) PROVE TallyInv'
  <2>1. /\ Others(w) /\ otp' = otp /\ otp.code \in Recovery!Codes /\ otp.code # 0
        /\ wrong' = [wrong EXCEPT ![otp.code] = wrong[otp.code] + 1]
        /\ job'[w].otp.code = otp.code /\ job'[w].otp.attempts = otp.attempts + 1
    BY <1>0, <1>6, RecoveryMisses, RecoveryNumbers
  <2>2. /\ wrong'[otp.code] = wrong[otp.code] + 1
        /\ \A c \in Recovery!Codes : wrong'[c] \in Nat /\ wrong[c] \in Nat /\ wrong'[c] >= wrong[c]
    BY <1>0, <2>1, RecoveryNumbers DEF Recovery!TypeOK
  <2>3. otp.attempts \in Nat /\ wrong[otp.code] >= otp.attempts /\ wrong[otp.code] \in Nat
    BY <1>0, <2>1, RecoveryNumbers DEF TallyInv
  <2>4. otp'.code # 0 => wrong'[otp'.code] >= otp'.attempts
    BY <2>1, <2>2, <2>3
  <2>5. ASSUME NEW v \in Workers, pc'[v] \in {"put", "clear"}
        PROVE  wrong'[job'[v].otp.code] >= job'[v].otp.attempts
    <3>1. CASE v = w
      BY <2>1, <2>2, <2>3, <3>1
    <3>2. CASE v # w
      <4>1. pc[v] \in {"put", "clear"} /\ job'[v] = job[v]
        BY <2>1, <2>5, <3>2 DEF Others
      <4>2. /\ job[v].otp.code \in Recovery!Codes /\ job[v].otp.attempts \in Nat
            /\ wrong[job[v].otp.code] >= job[v].otp.attempts
        BY <1>0, <4>1, RecoveryJobType DEF HeldInv, Holds, TallyInv
      <4> QED
        BY <2>2, <4>1, <4>2
    <3> QED
      BY <3>1, <3>2
  <2> QED
    BY <2>4, <2>5 DEF TallyInv
<1>7. ASSUME NEW w \in Workers, Recovery!PutOtp(w) PROVE TallyInv'
  <2>1. pc[w] = "put"
    BY <1>7 DEF Recovery!PutOtp, Recovery!At
  <2>2. job[w].otp.code # 0 /\ job[w].otp.attempts < MaxAttempts
    BY <1>0, <2>1 DEF HeldInv, Holds
  <2>3. /\ Others(w) /\ pc'[w] = "idle" /\ otp' = job[w].otp /\ wrong' = wrong
    BY <1>0, <1>7, <2>2, RecoveryPuts DEF Recovery!history
  <2>4. \A v \in Workers : pc'[v] \in {"put", "clear"} =>
           pc[v] \in {"put", "clear"} /\ job'[v] = job[v]
    BY <2>3 DEF Others
  <2> QED
    BY <2>1, <2>3, <2>4 DEF TallyInv
<1>8. ASSUME NEW w \in Workers, Recovery!ClearOtp(w) \/ Recovery!SetLockout(w) PROVE TallyInv'
  BY <1>0, <1>8, RecoveryLocks, TallyKept DEF Recovery!history
<1>9. ASSUME NEW w \in Workers, Recovery!Use(w) PROVE TallyInv'
  BY <1>0, <1>9, RecoveryUses, TallyKept DEF Recovery!history
<1>10. ASSUME NEW w \in Workers, Recovery!Answer(w) PROVE TallyInv'
  <2>1. job[w].entry # 0
    BY <1>0, <1>10 DEF Recovery!Answer, Recovery!At, HeldInv, Holds
  <2> QED
    BY <1>0, <1>10, <2>1, RecoveryAnswers, TallyKept
<1>11. ASSUME NEW w \in Workers, Recovery!Abort(w) PROVE TallyInv'
  BY <1>0, <1>11, RecoveryAborts, TallyKept DEF Recovery!history
<1>12. ASSUME Recovery!ExpireOtp \/ Recovery!ExpireAsked \/ Recovery!ExpireLock PROVE TallyInv'
  BY <1>0, <1>12, RecoveryExpires, RecoveryNoJob DEF TallyInv
<1>13. CASE UNCHANGED (Recovery!vars)
  BY <1>13 DEF Recovery!vars, Recovery!store, Recovery!history, TallyInv
<1> QED
  BY <1>1, <1>2, <1>3, <1>4, <1>5, <1>6, <1>7, <1>8, <1>9, <1>10, <1>11, <1>12, <1>13
  DEF Recovery!Next, Recovery!Step

-----------------------------------------------------------------------------
(* While nothing overlaps and nothing fails, one request is in flight, and *)
(* the key still holds the code it read.                                   *)
Alone == overlaps = 0 /\ broken = 0

OnlyOne == \A v \in Workers, w \in Workers : pc[v] # "idle" /\ pc[w] # "idle" => v = w

InHand ==
    \A w \in Workers :
        /\ pc[w] = "use" => otp.code \in {job[w].entry, 0}
        /\ pc[w] \in {"put", "clear"} => otp.code \in {job[w].otp.code, 0}

LastMailed ==
    codes \in mailed \/ \E w \in Workers : pc[w] = "mail" /\ job[w].otp.code = codes

LastKnown ==
    \/ otp.code = codes \/ codes \in expired \/ used[codes] > 0 \/ wrong[codes] >= MaxAttempts
    \/ \E w \in Workers : pc[w] = "answer" /\ job[w].entry = codes

AloneInv == Alone => OnlyOne /\ InHand /\ (codes > 0 => LastMailed /\ LastKnown)

(* While one request is served all others rest, before its step and after. *)
LEMMA AloneStep ==
    ASSUME CoreInv, AloneInv, NEW w \in Workers, Others(w), pc[w] # "idle",
           overlaps' = overlaps, broken' = broken, Alone'
    PROVE  /\ InHand /\ (codes > 0 => LastMailed /\ LastKnown)
           /\ \A v \in Workers : v # w => pc[v] = "idle" /\ pc'[v] = "idle"
           /\ OnlyOne'
<1>1. Alone
  BY DEF Alone
<1>2. \A v \in Workers : v # w => pc[v] = "idle" /\ pc'[v] = "idle"
  BY <1>1 DEF AloneInv, OnlyOne, Others
<1>3. OnlyOne'
  BY <1>2 DEF OnlyOne
<1> QED
  BY <1>1, <1>2, <1>3 DEF AloneInv

LEMMA RecoveryNextAlone ==
    CoreInv /\ TallyInv /\ AloneInv /\ [Recovery!Next]_(Recovery!vars) => AloneInv'
<1> SUFFICES ASSUME CoreInv, TallyInv, AloneInv, [Recovery!Next]_(Recovery!vars), Alone'
             PROVE  OnlyOne' /\ InHand' /\ (codes' > 0 => LastMailed' /\ LastKnown')
  BY DEF AloneInv
<1> DEFINE Goal == OnlyOne' /\ InHand' /\ (codes' > 0 => LastMailed' /\ LastKnown')
<1>0. Recovery!TypeOK /\ LiveInv /\ AskInv /\ HeldInv /\ FreshInv
  BY DEF CoreInv
<1>a. /\ codes \in Nat /\ Recovery!NoOtp.code = 0 /\ overlaps \in Nat /\ broken \in Nat
      /\ MaxAttempts \in Nat
      /\ codes > 0 => codes \in Recovery!Codes
      /\ \A c \in Recovery!Codes : wrong[c] \in Nat /\ used[c] \in Nat
  BY <1>0, RecoveryNumbers, RecoveryNoJob DEF Recovery!TypeOK, Recovery!Codes
<1>1. ASSUME NEW w \in Workers,
             Recovery!Request(w) \/ \E e \in mailed \cup {0} : Recovery!Verify(w, e)
      PROVE  Goal
  <2>1. /\ Others(w) /\ UNCHANGED <<otp, mailed, codes, used, wrong, expired, broken>>
        /\ pc'[w] \in {"limit", "get"}
        /\ overlaps' = IF Recovery!AtRest THEN overlaps ELSE overlaps + 1
    BY <1>0, <1>1, RecoveryBegins DEF Recovery!history
  <2>2. Recovery!AtRest /\ Alone
    BY <1>a, <2>1 DEF Alone
  <2>3. \A v \in Workers : pc[v] = "idle" /\ (v # w => pc'[v] = "idle")
    BY <2>1, <2>2 DEF Recovery!AtRest, Recovery!At, Others
  <2>4. OnlyOne' /\ InHand'
    BY <2>1, <2>3 DEF OnlyOne, InHand
  <2> QED
    BY <2>1, <2>2, <2>3, <2>4 DEF AloneInv, LastMailed, LastKnown
<1>2. ASSUME NEW w \in Workers, Recovery!CountRequest(w) \/ Recovery!JudgeRequest(w) PROVE Goal
  <2>1. /\ Others(w) /\ UNCHANGED <<otp, mailed, codes, used, wrong, expired, overlaps, broken>>
        /\ pc[w] \in {"limit", "expire"} /\ pc'[w] \in {"expire", "persist", "idle"}
    BY <1>0, <1>2, RecoveryAsks DEF Recovery!history
  <2>2. /\ codes > 0 => LastMailed /\ LastKnown
        /\ \A v \in Workers : v # w => pc[v] = "idle" /\ pc'[v] = "idle"
        /\ OnlyOne'
    BY <2>1, AloneStep
  <2> QED
    BY <2>1, <2>2 DEF InHand, LastMailed, LastKnown
<1>3. ASSUME NEW w \in Workers, Recovery!PersistOtp(w) PROVE Goal
  <2>1. codes < MaxCodes
    BY <1>3, RecoveryRoom
  <2>2. /\ Others(w) /\ UNCHANGED <<overlaps, broken>> /\ pc[w] = "persist" /\ pc'[w] = "mail"
        /\ codes' = codes + 1 /\ otp'.code = codes + 1 /\ job'[w].otp = otp'
    BY <1>0, <1>3, <2>1, RecoveryPersists
  <2>3. /\ \A v \in Workers : v # w => pc[v] = "idle" /\ pc'[v] = "idle"
        /\ OnlyOne'
    BY <2>2, AloneStep
  <2> QED
    BY <2>2, <2>3 DEF InHand, LastMailed, LastKnown
<1>4. ASSUME NEW w \in Workers, Recovery!MailCode(w) PROVE Goal
  <2>1. pc[w] = "mail"
    BY <1>4 DEF Recovery!MailCode, Recovery!At
  <2>2. job[w].otp.code \in 1 .. codes
    BY <1>0, <1>a, <2>1, RecoveryJobType, RecoveryNumbers DEF HeldInv, Holds
  <2>3. /\ Others(w) /\ UNCHANGED <<otp, codes, used, wrong, expired, overlaps, broken>>
        /\ mailed' = mailed \cup {job[w].otp.code} /\ pc'[w] = "idle"
    BY <1>0, <1>4, <2>2, RecoveryMails DEF Recovery!history
  <2>4. /\ codes > 0 => LastMailed /\ LastKnown
        /\ \A v \in Workers : v # w => pc[v] = "idle" /\ pc'[v] = "idle"
        /\ OnlyOne'
    BY <2>1, <2>3, AloneStep
  <2> QED
    BY <2>1, <2>3, <2>4 DEF InHand, LastMailed, LastKnown
<1>5. ASSUME NEW w \in Workers, Recovery!NoneStored(w) \/ Recovery!RightEntry(w) PROVE Goal
  <2>1. /\ Others(w) /\ UNCHANGED <<otp, mailed, codes, used, wrong, expired, overlaps, broken>>
        /\ pc[w] = "get"
        /\ \/ pc'[w] = "idle"
           \/ pc'[w] = "use" /\ job'[w] = job[w] /\ otp.code = job[w].entry
    BY <1>0, <1>5, RecoveryReads DEF Recovery!history
  <2>2. /\ codes > 0 => LastMailed /\ LastKnown
        /\ \A v \in Workers : v # w => pc[v] = "idle" /\ pc'[v] = "idle"
        /\ OnlyOne'
    BY <2>1, AloneStep
  <2> QED
    BY <2>1, <2>2 DEF InHand, LastMailed, LastKnown
<1>6. ASSUME NEW w \in Workers, Recovery!WrongEntry(w) PROVE Goal
  <2>1. /\ Others(w) /\ UNCHANGED <<otp, mailed, codes, used, expired, overlaps, broken>>
        /\ otp.code \in Recovery!Codes
        /\ wrong' = [wrong EXCEPT ![otp.code] = wrong[otp.code] + 1]
        /\ pc[w] = "get" /\ pc'[w] \in {"clear", "put"} /\ job'[w].otp.code = otp.code
    BY <1>0, <1>6, RecoveryMisses
  <2>2. /\ codes > 0 => LastMailed /\ LastKnown
        /\ \A v \in Workers : v # w => pc[v] = "idle" /\ pc'[v] = "idle"
        /\ OnlyOne'
    BY <2>1, AloneStep
  <2>3. InHand'
    BY <2>1, <2>2 DEF InHand
  <2>4. codes > 0 /\ wrong[codes] >= MaxAttempts => wrong'[codes] >= MaxAttempts
    <3>1. codes > 0 => wrong'[codes] \in {wrong[codes], wrong[codes] + 1}
      BY <1>0, <1>a, <2>1 DEF Recovery!TypeOK
    <3> QED
      BY <1>a, <3>1
  <2> QED
    BY <2>1, <2>2, <2>3, <2>4 DEF LastMailed, LastKnown
<1>7. ASSUME NEW w \in Workers, Recovery!PutOtp(w) PROVE Goal
  <2>1. pc[w] = "put"
    BY <1>7 DEF Recovery!PutOtp, Recovery!At
  <2>2. job[w].otp.code # 0 /\ job[w].otp.attempts < MaxAttempts
    BY <1>0, <2>1 DEF HeldInv, Holds
  <2>3. /\ Others(w) /\ pc'[w] = "idle" /\ otp' = job[w].otp
        /\ UNCHANGED <<mailed, codes, used, wrong, expired, overlaps, broken>>
    BY <1>0, <1>7, <2>2, RecoveryPuts DEF Recovery!history
  <2>4. /\ InHand
        /\ codes > 0 => LastMailed /\ LastKnown
        /\ \A v \in Workers : v # w => pc[v] = "idle" /\ pc'[v] = "idle"
        /\ OnlyOne'
    BY <2>1, <2>3, AloneStep
  <2>5. codes > 0 /\ otp.code = codes => otp'.code = codes
    BY <1>a, <2>1, <2>3, AloneStep DEF InHand
  <2> QED
    BY <2>1, <2>3, <2>4, <2>5 DEF InHand, LastMailed, LastKnown
<1>8. ASSUME NEW w \in Workers, Recovery!ClearOtp(w) \/ Recovery!SetLockout(w) PROVE Goal
  <2>1. /\ Others(w) /\ UNCHANGED <<mailed, codes, used, wrong, expired, overlaps, broken>>
        /\ pc[w] \in {"clear", "lock"} /\ pc'[w] \in {"lock", "idle"}
        /\ \/ pc[w] = "clear" /\ otp' = Recovery!NoOtp
           \/ pc[w] = "lock" /\ otp' = otp
    BY <1>0, <1>8, RecoveryLocks DEF Recovery!history
  <2>2. /\ InHand
        /\ codes > 0 => LastMailed /\ LastKnown
        /\ \A v \in Workers : v # w => pc[v] = "idle" /\ pc'[v] = "idle"
        /\ OnlyOne'
    BY <2>1, AloneStep
  <2>3. codes > 0 /\ otp.code = codes /\ pc[w] = "clear" => wrong[codes] >= MaxAttempts
    <3> SUFFICES ASSUME codes > 0, otp.code = codes, pc[w] = "clear"
                 PROVE  wrong[codes] >= MaxAttempts
      OBVIOUS
    <3>1. job[w].otp.code = codes
      BY <1>a, <2>2 DEF InHand
    <3>2. wrong[codes] >= job[w].otp.attempts /\ job[w].otp.attempts >= MaxAttempts
      BY <1>0, <3>1 DEF TallyInv, HeldInv, Holds
    <3>3. job[w].otp.attempts \in Nat
      BY <1>0, RecoveryJobType
    <3> QED
      BY <1>a, <3>2, <3>3
  <2>4. InHand'
    BY <2>1, <2>2 DEF InHand
  <2> QED
    BY <2>1, <2>2, <2>3, <2>4 DEF LastMailed, LastKnown
<1>9. ASSUME NEW w \in Workers, Recovery!Use(w) PROVE Goal
  <2>1. /\ Others(w) /\ UNCHANGED <<mailed, codes, used, wrong, expired, overlaps, broken>>
        /\ otp' = Recovery!NoOtp /\ pc[w] = "use" /\ pc'[w] = "answer" /\ job'[w] = job[w]
    BY <1>0, <1>9, RecoveryUses DEF Recovery!history
  <2>2. /\ InHand
        /\ codes > 0 => LastMailed /\ LastKnown
        /\ \A v \in Workers : v # w => pc[v] = "idle" /\ pc'[v] = "idle"
        /\ OnlyOne'
    BY <2>1, AloneStep
  <2>3. codes > 0 /\ otp.code = codes => job'[w].entry = codes
    BY <1>a, <2>1, <2>2 DEF InHand
  <2>4. InHand'
    BY <2>1, <2>2 DEF InHand
  <2> QED
    BY <2>1, <2>2, <2>3, <2>4 DEF LastMailed, LastKnown
<1>10. ASSUME NEW w \in Workers, Recovery!Answer(w) PROVE Goal
  <2>1. pc[w] = "answer" /\ job[w].entry # 0
    BY <1>0, <1>10 DEF Recovery!Answer, Recovery!At, HeldInv, Holds
  <2>2. /\ Others(w) /\ UNCHANGED <<otp, mailed, codes, wrong, expired, overlaps, broken>>
        /\ used' = [used EXCEPT ![job[w].entry] = used[job[w].entry] + 1]
        /\ pc'[w] = "idle"
    BY <1>0, <1>10, <2>1, RecoveryAnswers
  <2>3. /\ codes > 0 => LastMailed /\ LastKnown
        /\ \A v \in Workers : v # w => pc[v] = "idle" /\ pc'[v] = "idle"
        /\ OnlyOne'
    BY <2>1, <2>2, AloneStep
  <2>4. codes > 0 /\ (used[codes] > 0 \/ job[w].entry = codes) => used'[codes] > 0
    <3>1. codes > 0 => used'[codes] = IF job[w].entry = codes THEN used[codes] + 1
                                                              ELSE used[codes]
      BY <1>0, <1>a, <2>2 DEF Recovery!TypeOK
    <3> QED
      BY <1>a, <3>1
  <2>5. InHand'
    BY <2>2, <2>3 DEF InHand
  <2> QED
    BY <2>1, <2>2, <2>3, <2>4, <2>5 DEF LastMailed, LastKnown
<1>11. ASSUME NEW w \in Workers, Recovery!Abort(w) PROVE FALSE
  BY <1>0, <1>11, <1>a, RecoveryAborts DEF Alone
<1>12. ASSUME Recovery!ExpireOtp \/ Recovery!ExpireAsked \/ Recovery!ExpireLock PROVE Goal
  <2>1. /\ UNCHANGED <<pc, job, mailed, codes, wrong, used, overlaps, broken>>
        /\ \/ otp' = Recovery!NoOtp /\ expired' = expired \cup {otp.code}
           \/ UNCHANGED <<otp, expired>>
    BY <1>0, <1>12, RecoveryExpires
  <2> QED
    BY <1>a, <2>1 DEF AloneInv, Alone, OnlyOne, InHand, LastMailed, LastKnown
<1>13. CASE UNCHANGED (Recovery!vars)
  BY <1>13
  DEF Recovery!vars, Recovery!store, Recovery!history, Recovery!bounds, AloneInv, Alone,
  OnlyOne, InHand, LastMailed, LastKnown
<1> QED
  BY <1>1, <1>2, <1>3, <1>4, <1>5, <1>6, <1>7, <1>8, <1>9, <1>10, <1>11, <1>12, <1>13
  DEF Recovery!Next, Recovery!Step

(* Served one at a time, the code made last is mailed and works until it   *)
(* is used, runs out or has met the limit.                                 *)
THEOREM LastCodeStands == Recovery!Spec => []LastCodeWorks
<1>1. Recovery!Init => TallyInv /\ AloneInv
  BY DEF Recovery!Init, Recovery!NoOtp, TallyInv, AloneInv, OnlyOne, InHand
<1>2. CoreInv /\ TallyInv /\ [Recovery!Next]_(Recovery!vars) => TallyInv'
  BY RecoveryNextTally
<1>3. CoreInv /\ TallyInv /\ AloneInv /\ [Recovery!Next]_(Recovery!vars) => AloneInv'
  BY RecoveryNextAlone
<1>4. AloneInv => LastCodeWorks
  BY DEF AloneInv, Alone, LastMailed, LastKnown, LastCodeWorks
<1> QED
  BY <1>1, <1>2, <1>3, <1>4, RecoveryCore, PTL DEF Recovery!Spec

=============================================================================
