# MoPD CMS in TLA+

The complaint management system (`src/apps/api`, NestJS over PostgreSQL, Redis/BullMQ, MinIO,
ClamAV and SMTP; `src/apps/web`, Next.js; `src/packages/shared`, the workflow rules both use)
receives complaints from the public, moves each through a status graph, watches its SLA clock and
tells people by mail and in an inbox. This directory models the parts where the order of steps
matters, checks them with TLC on small instances and proves what matters most with TLAPS.

    tlc -workers 2 -config MCSlaTracker_overlap.cfg MCSlaTracker
    tlapm ComplaintWorkflow_proof.tla

`PROJECT.json` lists the runs with their properties, maps each definition to the source lines it
translates, and lists the hazards, the findings and the theorems.

## 1. The system

Paths are below `src/apps/api/src/modules/` unless they say otherwise.

| Component | State | Operations | Hard behaviour | Correct when |
|---|---|---|---|---|
| Workflow policy (`packages/shared/src/workflow`, `auth/rbac`, `common/guards`) | none: pure functions over rules, roles, aliases | `evaluateTransition`, `evaluateAssign`, guard, row access | two alias tables, alternatives of a rule | every allowed edge is in the graph and authorised |
| Complaint service (`complaints`) | `complaints`, `complaint_history` rows | create, assign, transition, appeal, patch metadata, track, upload session | checks on reads that are stale at the update; four effects after the commit | history agrees with the row; owner and draft rules hold |
| SLA (`sla`) | `complaint_sla`, `sla_config` rows | start, complete, `evaluateActive` every 5 minutes | one read, then many steps per tracker; overlapping runs; crash between stamp and alert | warned before breached, each stamp once, each breach told |
| E-mail (`notifications`) | `notification_delivery` rows, dispatch jobs | queue, process, retry, resend | row and job in two stores; retries and stalled jobs run again, perhaps beside a worker that lost its lock | sent means mailed; a verdict stands unless two attempts overlapped or an answer was lost; what is not forgotten settles |
| Inbox (`notifications/in-app-*`) | `user_notification` rows | notify (upsert on a dedup key), mark read | an upsert that makes a read message unread | the new owner finds an unread message |
| Documents (`documents`) | `document` rows, objects in the quarantine and live buckets, scan jobs | upload, scan job, download, delete | scan, promotion and delete race; a retry meets what its predecessor left | only clean files are served; evidence is in one bucket; what the scanner said stands |
| Public submission (`complaints`; `web` wizard and evidence panel) | complaint and document rows; form, draft in `sessionStorage`, upload list | edit, submit, restore, open panel, upload all | lost answers, remounts, a loop over a stale list, a count before an upload | the page tells the truth; nothing typed is lost but the category; one form, one complaint |
| Sessions (`auth`; `web` API client and provider) | users, refresh sessions in Redis, the browser's cookie, hint and tokens | login, refresh, logout, password change, deactivation | tabs that rotate one cookie; reads before the write; one refresh in flight shared by all calls | races keep the session; a refresh never overtakes a password change |
| Account access (`auth`) | password, its version and hash format; failure counter, lock and reset tokens in Redis | login, lockout, change, reset; MFA | a lock checked first and set last; counter, expiry and lock in calls of their own; a hash written back after a read | wrong passwords bounded and forgotten; a new password stands and ends older sessions |
| Report exports (`reports`; exports page) | `report_export` rows, jobs, objects; the page's copy of the status | create, process, poll, download | retries over a finished row, a notice inside the `try`, answers out of order | completed is delivered; who waits is told |
| Chatbot (`chatbot`) | knowledge articles, chunks, index jobs, session turns | edit, publish, reindex, index job; ask, retrieve, answer | edits during a rebuild, swallowed failures, a cap read early and counted late | answers come from published text; an article at rest is wholly indexed |
| Reference recovery (`complaints/complaint-recovery*`) | code, lock and request counter in Redis; inquiries | request, verify, staff inquiry | wrong entries counted on a copy that is written back | bounded entries, one use, the last code works |
| Case collaboration (`case`) | notes and tasks | create, update, reassign | task state against complaint ownership | task edits follow their assignee |
| Users and roles (`user`, `auth/rbac`) | users, roles, role permissions | CRUD, deactivate | live sessions of a changed account | deactivation ends access |
| Audit (`audit`), reference data, platform, admin, queues | append-only log; single rows; queue names | log, list, CRUD, counters | `logEvent` never throws | - |
| Web (other pages of `src/apps/web`) | browser state | pages over the API; mirrors some permission rules | mirrors may differ from the API | - |

How they interact: a staff request passes the route guard, then `ComplaintsService` asks the policy
and the access service, commits row and history in one transaction, and afterwards, one call at a
time, completes the SLA tracker (when it closes), logs, notifies the inbox or queues a mail.
`create` starts the tracker and queues the acknowledgement; an upload adds a scan job, a publication
an index job, an export request a report job. The SLA monitor and these workers are BullMQ workers of
the same process: they share the database, Redis and MinIO with the handlers and nothing else. The
browser's tabs share the refresh cookie and the session hint; the wizard and the evidence panel hold
what the server does not know.

PostgreSQL, BullMQ and the mail server are modelled by what the code relies on: READ COMMITTED
transactions with row updates by id, a queue that gives a job to one worker at a time, retries what
throws and hands out again the job of a worker that died or was slow to renew its lock (so that two
workers can be in one job, be it a mail, a scan, an export or an article), a server that accepts a mail or does not and whose
answer may be lost.

## 2. Modules

| Module | Stands for | Used by |
|---|---|---|
| `ComplaintPolicy` | status graph, transition rules, role catalogue, aliases, guard, access; operators only | `ComplaintWorkflow` |
| `ComplaintWorkflow` | one complaint, its history, and the handlers of `ComplaintsService` cut at their awaits | `MCComplaintWorkflow`, `ComplaintWorkflow_proof` |
| `SlaTracker` | trackers, monitor runs, closing handlers, alerts | `MCSlaTracker`, `SlaTracker_proof` |
| `MailOutbox` | abstract specification: what outgoing mail promises | instance `Outbox` in `NotificationDelivery` |
| `NotificationDelivery` | delivery rows, jobs, attempts, resends, faults | `MCNotificationDelivery`, `NotificationDelivery_proof` |
| `DocumentScan` | a file between upload, quarantine, scan job, live bucket and delete | `MCDocumentScan`, `DocumentScan_proof` |
| `ReportExport` | export row, job, file, notices, and the page that polls | `MCReportExport`, `ReportExport_proof` |
| `StaffSession` | tabs, cookie, hint, refresh tokens, password version | `MCStaffSession`, `StaffSession_proof` |
| `AccountState` | what is stored about one account, and what is promised of it | `AccountAccess`, `StaffSession_proof` |
| `AccountAccess` | the requests about it: password, failures, lock, reset tokens | `MCAccountAccess`, instance `Access` in `StaffSession_proof` |
| `RecoveryState` | what is stored about one contact's codes, and what is promised of it | `ReferenceRecovery`, `PublicSubmission_proof` |
| `ReferenceRecovery` | the requests about it: mailed code, its entries, lock, request limit | `MCReferenceRecovery`, instance `Recovery` in `PublicSubmission_proof` |
| `KnowledgeBase` | articles, index jobs, chunks, one chat session | `MCKnowledgeBase`, `KnowledgeBase_proof` |
| `PublicSubmission` | wizard, draft, evidence panel, the two public endpoints | `MCPublicSubmission`, `PublicSubmission_proof` |

**ComplaintWorkflow.** `pc[w]` says which await worker `w`'s handler is at and `job[w]` what it
holds in local variables. `AssignCheck` is `assignComplaint` up to its transaction, `AssignRead` the
read inside it, `AssignCommit` update and history insert; `TransitionRead`/`TransitionCommit`,
`AppealCheck`/`AppealRead` and `MetadataCheck`/`MetadataWrite` split likewise. The update and the
insert are one step because they become visible together; read and commit are two because the code
runs at READ COMMITTED, takes no lock and updates `where: { id }`. `CompleteTracker`, `LogEvent`,
`NotifyAssignee` and `MailComplainant` follow the commit in the code's order. `SwallowedFailure` is
the `catch` around `completeTracker` and inside `logEvent`; `Abandon` a crash or an uncaught error.
Only the fact that the draft has its twenty characters is kept of the draft, and a mail is the status
it is about. `overtaken` is a history variable: the workers whose checks are about a row that was written
since (`Overtake` goes with every step). The rules on the row are stated for commits of handlers that were
not overtaken, with any number of handlers; `late` in a history entry says the same of the commit behind it.

**SlaTracker.** `BeginRun` is the monitor's one `findMany`, with the owner of each complaint as it is
then; from there each database call of the loop is a step, and a decision is taken on the snapshot.
`WriteWarning` and `WriteBreach` are the conditional `updateMany`s; the alerts follow whether or not a
row matched. `CompleteRead`/`CompleteWrite` is `completeTracker`, whose update has no condition.
Hours are ticks. The monitor's `now` is read once a run, as in the code.

**NotificationDelivery.** `CreateRow` and `AddJob` are the two halves of `queueEmail`; `Resend` is
`resendDelivery`, which clones a row. `worker[w]` is where worker `w` is in `processDelivery`, of which
delivery, and the `retries` it read. A send has three outcomes: accepted, accepted with the answer lost,
refused. `DatabaseError` fails any database call where the code makes one: in the `try` it leads to the
`catch`, elsewhere the attempt throws; `AnswerLost` is an update that commits all the same. `LoseLock` and
`Die` hand the job out again, `MaxStalls` times, while a worker that only lost its lock goes on: two
attempts can be in one delivery, and their updates name the id only. `Return` and `Throw` count for the
job only if the worker still owns it. `unsure` is a history variable: the deliveries of which a lock or an
answer was lost. Templates are either found or not: a database error while they are read ends in the same
`catch`, as "Template not found". Instead of promising that nothing follows a verdict, `MailOutbox` says
of each verdict whether it has come into doubt, and what may follow then.

**DocumentScan.** One action per call to MinIO, PostgreSQL or the queue, in the code's order: `PutObject`,
`CreateRow`, `AddJob` are `upload`; `Read`, `MarkScanning`, `Scan`, then `Copy`, `RemoveClean`,
`WriteClean` or `RemoveInfected`, `WriteInfected` are `processScan`; `MarkFailed` and `Throw` its
`catch`; `ReadForDelete` to `DeleteRow` are `delete`, which removes what the row named when it was read.
`LoseLock` and `Die` hand the job out again, once (`maxStalledCount`), while a worker that only lost its
lock goes on. CLEAN and INFECTED are verdicts; FAILED is the absence of one, and nothing is promised of it but
that the row says so.

**ReportExport.** `MarkProcessing` has no guard on the status, as in the code. `Ask`/`Tell` is `notify`:
the user is read, then the notice upserted; `TellReady` is inside the `try`, so its failure leads to
`MarkFailed`. `Poll`/`Arrive` are the page's interval and its answers, which may overtake each other;
`Outgrow` lets the matching complaints pass `maxRows` between two attempts.

**StaffSession.** `request[t]` is the one refresh or login a tab has in flight, with what the handler of
`rotateRefreshToken` or `issueLoginTokens` has read so far; `call[t][c]` the calls that wait for it.
`DeleteToken` and `Issue` are separate Redis commands. `Answered` sets the cookie all tabs share,
`Failed` is what `refreshAccessToken` and the provider's first effect do with an error. A token carries
the password version it was issued with (`stamp`).

**AccountAccess.** One action per call to Redis or PostgreSQL; `pc[w]` is the next one. `Login` is the check of the
lock, `FindUser` the read of the row; a wrong password goes `Miss` (INCR), `Judge` (PEXPIRE by the
first), `Drop` (DEL) and `SetLock`; a right one `UpgradeHash` (old hashes only), `ClearFails`, `Unlock`,
`Issue`. `ChangePassword` and `Reset`, `TakeToken` read; `Commit` writes the password and lets the database
increment the version. `ExpireFails`, `ExpireLock` and `ExpireToken` are Redis' expiries. `misses` and
`streak` count wrong passwords since the account last opened. A password is the number of the choice
that made it; sessions are the versions they carry.

**ReferenceRecovery.** `Request`, `CountRequest`, `JudgeRequest`, `PersistOtp`, `MailCode` are
`requestRecovery`. `Verify` takes the copy of the stored code that `WrongEntry` counts on and `PutOtp`
writes back (`ClearOtp`, `SetLockout` at the limit); `RightEntry`, `Use` and `Answer` are the other
branch. `overlaps` counts requests that began while another was in flight. The state of these two modules and
the promises about it are in `AccountState` and `RecoveryState`, so that the theorems, which stand in the
proof modules of the pages that serve the same people (`StaffSession_proof`, `PublicSubmission_proof`), can
name both; `TypeOK` of these two is proved there and not repeated by their runs.

**KnowledgeBase.** `Write` is the row update of `update`, `publish` and `reindex`, `Enqueue` the job that
may follow. `Read`, `Delete`, `Create`, `Embed` are the rebuild's calls; a failed embedding is logged
and skipped, any other failure ends the job, which has no attempts. `Ask` to `Count` are the calls of
`handleMessage` between reading the turn count and counting the turn. A body is its revision number.

**PublicSubmission.** `Show` is the effect that writes each change of the wizard to the draft. `Submit` is
`submitComplaint` up to its `await`, `Accepted`/`NotAccepted` what follows; a visit to another page
leaves the closure running (`heard = "page"`), a reload ends it. `Restore` is RESTORE_DRAFT, which drops the
category; whether the form without it is written back at once depends on an animation frame. `Round` is one turn of the loop of
`uploadAll`, with `setFiles([...updated])` putting the loop's list in place of the panel's. `Count` and
`StoreDocument` are the two halves of `uploadPublicEvidence`.

Definitions whose comment says *variant* are plausible slips in the action they stand before. No
specification uses them; `PROJECT.json` pairs each with the property that detects it.

## 3. Runs

| Run | Instance | Question |
|---|---|---|
| `workflow_serial` | 1 worker; administrator, officer, officer-reviewer; 10 history rows; 1 fault | Through a whole life, an appeal and the second owner's first step: do roles and ownership allow every edge, and is the new owner told although an effect failed? Yes. |
| `workflow_concurrent` | 2 workers (symmetric); administrator, officer-reviewer; 5 history rows | What survives any interleaving? History and row agree, recorded edges are legal, and only a handler that was overtaken between its checks and its commit leaves the graph or sends an empty draft to review. |
| `workflow_race_status` | 2 workers | Violated: two handlers that read the same status both commit, and the row leaves the graph (for example a closed complaint becomes an appeal). |
| `sla_overlap` | 1 complaint, 2 monitor runs, 3 ticks, 1 fault | Warned before breached, overdue clocks breached, the escalation role told: yes. |
| `mail_faults` | 1 mail and 1 resend, 2 workers, 2 attempts, 1 stall, 2 faults | Both counters agree on giving up, sent is final unless attempts overlap or an answer is lost, refinement of `MailOutbox`, each mail settled unless forgotten in one of three named ways: yes. |
| `document_scan` | 1 document, 2 workers, 3 attempts, 1 stall, 3 faults | Only clean files served, evidence kept, deletion whole, the scanner's word final, scans settle or are shown as failed: yes. |
| `report_export` | 1 export, 2 workers, 2 attempts, 2 polls in flight, 1 stall, 1 fault | Completed is delivered, who is given up is told, the page settles: yes. |
| `session_tabs` | 2 tabs with 2 calls each, 3 requests, 1 password change or deactivation, 2 faults | Races keep the session, a refusal is a race, no refresh overtakes a password change: yes. |
| `access` | 1 account, 2 requests at a time of 5, 1 reset token, 2 new passwords, limit 2, 1 fault | Wrong passwords between two openings bounded, a lock earned, misses forgotten, a new password stands (but for the upgrade of an old hash) and ends older sessions: yes. |
| `recovery_codes` | 1 contact, 2 requests at a time, 2 codes, 5 entries, limit 2, 1 fault | Wrong entries and uses of a code bounded by limit and overlaps, one at a time the last code works: yes. |
| `knowledge_index` | 1 article with bodies of two chunks and one, 1 worker, 1 request, 2 messages, 1 crash, 1 fault | Answers use published text only, an article at rest is whole, the cap holds, a reindex repairs: yes. |
| `public_submission` | 2 files, limit 2, 2 sends, 3 uploads, 1 reload or visit, 1 fault | The page tells the truth, the form is kept but for its category, one form is stored once: yes. |

**Bounds.** Ten history rows are one whole life (triage, assignment, investigation, draft, review,
response, feedback), an appeal, the second assignment and the step after it, where a former owner would
act; five rows with two workers reach the draft and its review, with every pair of handlers before. One tick to the warning, two to
the target and one beyond gives every order of deadlines and runs; a run holds one tracker at a time, so
one complaint meets all interleavings of two runs. Three attempts are the least that tell a first, a
middle and a last one apart (two for exports, whose attempts do not depend on their number, and for mails,
where two workers, a stall and two faults already give two attempts in flight and one more); two
deliveries are a mail and its clone. Documents, exports and articles do not touch each other, so one of
each meets all interleavings of two workers. Two tabs are a race, three requests a race and what comes
after it. Two bodies, the second shorter, show a chunk left behind. Three uploads are two files and a
retry. Five logins are one lockout and a second round beside it; five entries are two codes and their
limits. The theorems do not depend on these bounds. Symmetry is used in one safety run only.

**Deadlock** is checked in the workflow and SLA runs. Elsewhere a finite set of mails, files, exports,
requests or edits does come to rest.

**One worker on the index queue.** `knowledge_index` has the single worker of the deployment (one API
process, the default concurrency of `@Processor`). With two, two jobs of one article mix their chunks,
and `SettledIsWhole` fails: `indexArticle` deletes and inserts without a lock.

**Fairness** is weak, and only of what the runtime owes: Node runs a started handler on; BullMQ gives a
waiting job to a worker and the worker goes on (`sla.module.ts` registers the monitor as a repeatable
job); the answer to a poll arrives; the exports page polls while it shows an unfinished job; Redis drops
a key whose expiry is set. The session, submission and recovery runs check safety and assume no
fairness. Nobody is obliged to request, upload, edit, ask, log in or stay. Liveness properties name what
excuses them, since a fault can cost what they promise: a handler that was cut off (`AssigneeTold`), a job that is
lost or given up (`Forgotten` in mails, `LeftUnscanned` in documents), a counter whose first request died before
its expiry (`Unexpiring`); only `EscalationTold` and what the exports page finally shows ask for no fault at all.

## 4. Proofs

All theorems are for every value of the constants, under the assumptions named in the modules (null
is not an account, warning before target, limits are naturals, finitely many requests in flight, there
is at least one chat). One result asks for more: `SettledIsWhole` is for one worker, which the theorem's
statement says.

- `ComplaintWorkflow_proof`. `HistoryTracksRow`, `HistoryFollowsGraph`, `HistoryAuthorised`,
  `CaseHasOwner` and `NoPhantomEffects` are not inductive: a commit writes what an earlier step
  admitted. `IInv` adds `Pending`, which says what each waiting worker still carries from its checks
  (a legal edge, an authorised actor, for a case without owner only early targets) and, after the
  commit, which history row it is about. `Pending` survives other workers because a job is its
  worker's own, history only grows, and an owner is never removed. `OwnerChangesByAssignment` follows
  from `IInv`. `Pending` also says that what a worker read is still the row unless it was overtaken, so each
  step obeys all four rules (`RuleStep`) or is the commit of an overtaken handler (`OvertakenCommits`). The run
  `workflow_race_status` shows that the exception is needed.
- `SlaTracker_proof`. A run acts on an old snapshot, so `IInv` says how it may have aged: the tracker
  exists, its deadlines are as they were, a warning it saw is still there, and past the warning step
  the tracker is warned or not yet due. With warning time at most target time no breach comes without its warning.
- `NotificationDelivery_proof`. A step touches one delivery and the workers in it; `DInv` is stated for one,
  and the others stay as they are (`OthersStay`). `Counting` argues with the set of workers that may still
  hand a mail over: together with the mails handed over they are no more than the times the job was handed
  out, each paid for by a failure the queue counted or a stall, so no more than `MaxAttempts + MaxStalls`
  mails go out. `Sure`: while neither a lock nor an answer was lost the owner of the job is alone in it, and
  does not work on what says sent. `Final`: while nobody died either, a row says failed only when the attempt is
  about to end for good. From these follow types, `SentMeansMailed`, `SentIsFinal`, and `Refinement`: each step
  is a step of `MailOutbox` or a stutter, for whatever number of overlapping workers. `LimitsAgree`
  (`GivenUpIsFailed`) needs that the retries written in the row are the attempts the queue counted, one
  ahead while the attempt throws (`Agree`).
- `DocumentScan_proof`. `ServedIsClean` and `EvidenceKept` follow from an `IInv` that says what each
  place in the code knows of its file: what an upload has stored before its row exists (`UploadInv`), what a
  row's status promises about the two buckets (`RowInv`), what a worker may rely on between two of
  its calls (`AttemptInv`). `VerdictIsFinal` adds `Alone`: until a worker goes on without its lock, at most
  one is in a document. `NothingLeftBehind` (`DeletedIsGone`) adds `Calm`: while no call has failed and no lock
  was lost, a row tells where its object is, between two calls of the scan that moves it the worker does,
  and a scan finds its file unless a delete has begun.
- `ReportExport_proof`. `Announced`, `Delivery`, `GivenUp` and `ReadyForGood`: in an export that never
  stalled the one worker inside owns the job; each throw that nobody was told of is counted against
  a fault. The page's types need that no answer comes before it was asked for (`Asked`).
- `PublicSubmission_proof`. At most one send is awaited, so complaints are counted together with the
  sends on their way, and a second one is paid for by a lost answer or by leaving the page
  (`CountedOnce`). The only upload that can still be stored in time is the one the loop awaits, which
  gives `WithinLimit`; `ShownTrue` goes with it. `FormsKept` is by cases over the steps: each writes form and
  draft together, but for a reload, which drops the category, and the answer to a wizard that was left.
- `StaffSession_proof`. A token issued and not yet answered is in the store and known to no cookie,
  request or logout (`FreshInv`); one that is to be dropped never becomes current again, because
  password versions only grow (`IssuedInv`). From these `Kept`, `RefusedInRace` and `Inherited`.
- `AccountAccess`, in `StaffSession_proof` as instance `Access`. What holds of one step is said first, in a lemma per
  action; the invariants then read those lemmas. `LocksAreEarned`: neither the stored counter nor the count a
  request carries is ahead of the streak (`StreakInv`). `PasswordsStand`: an old-format hash is of the first
  password, so that is what a request at its upgrade holds (`PasswordInv`).
  `CommitsEndSessions`: no session and no version a request has read is above the row's (`VersionInv`), and
  a commit increments. `MissesStayBounded` counts in rounds of `MaxAttempts`: while the account is open, a full round
  belongs to a request that has deleted the counter and is about to lock, or to a fault, and what is left
  over fits into one round of the other requests (`MissInv`, with the arithmetic in `Rounds`).
- `ReferenceRecovery`, in `PublicSubmission_proof` as instance `Recovery`. `CodesUsedOnce` (`UseOf`):
  while the key or a copy about to be written back holds a code, every other request in flight may use it
  again, and the overlaps so far leave room for them all. `EntriesStayBounded` (`EntryOf`): likewise every
  request that holds no copy yet may add a wrong entry to a stale count. `LastCodeStands`: without overlap and
  fault one request is in flight and the key holds what it read (`AloneInv`), and the count never runs
  ahead of the wrong entries there were (`TallyInv`).
- `KnowledgeBase_proof`. The body a worker carries was published when it was read, and `published` only
  grows (`PublishedOnly`). `TurnsCapped`: each stored message is counted, under way, or paid for by a
  fault, and those under way were let in below the cap. `SettledArticlesWhole`, with the deployment's single
  index worker: a published article has its job waiting, or is being rebuilt from its last body with exactly
  the chunks made so far, or is whole (`IndexInv`).

The instances take the state of the other component as it is: nothing is assumed about how the two
sides of a proof module run together, and no theorem mixes them.

**What proving changed.** `PasswordsStand` would not go through at first: in `FindUser` the step for a right
password of an old account did not ask that the password be right, as its guards overlapped. Now the
second says so, like `auth.service.ts:441-447`, and the run has it too.

**Only model-checked:** liveness under fairness, which TLAPS cannot prove (`AssigneeTold`, `OverdueIsBreached`,
`EscalationTold`, `Settles`, `ScanSettles`, `PageSettles`, `ReindexRepairs`, `MissesForgotten`). Every
invariant and every action property of a passing run has a theorem.

**Only proved:** the stamps of a tracker (`StampsWrittenOnce`), the owner's changes (`OwnershipRecorded`), that no
officer takes a case from its owner (`NoTakeover`), and the limit on files (`WithinLimit`) are theorems and no
run repeats them; with several handlers side by side, so are authorisation and ownership
(`RecordedEdgesAuthorised`, `OwnersWork`), which the runs follow with one.

## 5. Where code and documents differ

Shown by a run, with the quote in `PROJECT.json`: the races on status (`workflow_race_status`). Read in the
code while modelling:

- A scan that fails once writes FAILED before it throws, and each retry returns at once because the status
  is not PENDING: the four retries never scan and the document stays undownloadable
  (`documents.service.ts:245,344`; `docs/SDS.md:271` has "retries with exponential backoff").
- A failed refresh clears the token before the redirect to session-expired asks for it, so a staff page
  stays without a session (`api-client.ts:100,107,176`; `docs/FRONTEND_DEV.md:81`).
- The login of an account whose hash has the old format writes the offered password back, also over one
  committed meanwhile (`auth.service.ts:447`); `PasswordStands` allows for it.
- The failure counter is deleted before the lock is set, so a login that dies in between, or that was in
  flight, opens another round (`login-attempt.service.ts:145`); if the process dies before PEXPIRE the
  counter never expires (line 141). The request counter of the recovery has the same gap
  (`complaint-recovery.service.ts:325`).
- `updateMfaMethod` verifies nothing, drops the TOTP secret and leaves MFA on, while the login challenge takes
  TOTP or a backup code only (`mfa.service.ts:221`, `auth.service.ts:742`; `messages/staff/auth.en.json:81`:
  "Sign-in verification will use email OTP."). Backup codes live in memory and are gone after a restart.
- Two verifications of one backup code both match, and the second splice removes the next, unused code
  (`mfa.service.ts:163,166`).
- Inquiries are counted before they are created: requests sent together pass the limit of
  `docs/API.md:273` together (`complaint-recovery-inquiry.service.ts:164`).
- The inquiry panel has one pair of fields for all inquiries: an empty or late search leaves the complaint
  of another inquiry in it, whose reference is then mailed (`recovery-inquiries-panel.tsx:72`; `docs/API.md:283`).
- Two replacements of a role's permissions at once can leave the union of both, and an edit of a user
  writes back the e-mail address it read (`user-management.service.ts`).
- A complaint closed during a monitor run gets its completed tracker breached: `docs/SDS.md:759` speaks of
  open complaints with active timers, the update at `sla.service.ts:293` asks for `breachedAt` null only.
- A run that dies between the breach stamp and its alerts leaves the breach untold for good, since the
  next query takes ACTIVE trackers (`docs/SDS.md:762`, `sla.service.ts:293,319`).
- An account with the reviewer role alone never passes the route guard of the transition endpoint
  (`docs/RBAC.md:318`; `complaints.controller.ts:672`, `seed-catalog.ts:244-252`).
- A worker that lost its lock while it sends goes on beside its successor: the mail may go out once more, and
  either may write queued or failed over sent (`notifications.service.ts:388-418`, updates by id). The same
  follows when the update to sent commits and its answer is lost. The row then goes queued again, or shows failed for
  a mail that arrived. `SentIsFinal` and `MailOutbox` say exactly when.
- A self-assignment checked in triage may commit on an appeal, where `docs/RBAC.md:312-313` asks for
  `complaint:assign`: the transaction looks at the status only, and both allow it (`complaints.service.ts:535,548-563`).
- The category chosen in the wizard does not survive a reload: RESTORE_DRAFT clears it and the next write of the
  draft does too (`ComplaintSubmitWizard.tsx:105`). The answer to a wizard that was left clears the draft of the
  one mounted since, which is written again with the next change (line 370).
- A mail whose job could not be added stays queued, and resend answers "wait for send or failure"
  (`notifications.service.ts:169,300`). An export is left PENDING likewise (`reports.service.ts:182`).
- Two officers can both self-assign a TRIAGE case, the second taking it from the first
  (`complaints.service.ts:535,563`; `docs/RBAC.md:312` says unassigned only).
- A draft cleared between the check and the commit reaches QA review empty (`complaints.service.ts:659,667`).
- TRIAGE to ASSIGNED is an edge, so a super administrator's plain transition leaves an assigned case
  without an owner; theorem `CasesHaveOwners` shows that nothing else does.
- The seeded case officer holds `complaint:escalate` and can open an appeal; `docs/RBAC.md:321` names
  administrators and ombudspersons only.
- `docs/SDS.md:821` has three retries, the code four (`notifications.service.ts:173,415`).
- An overlapping monitor run raises a warning again that its reader has read (`sla.service.ts:254`
  calls it idempotent), and the owner it alerts is the one of the start of the run (line 269).
- An error of `completeTracker` is swallowed, and nothing stops that clock later (`complaints.service.ts:697`).
- The delete of a document under scan can leave an object behind, because it removes what the row named
  before the promotion (`documents.service.ts:214-229`); `DeletedIsGone` is stated for settled documents.
- The exports page stops at the first FAILED, also of an attempt that is tried again
  (`reports-exports-view.tsx:47`), and the requester is told "failed" before the retry.
- A tab that loads and loses the race of its refresh clears the session hint of all tabs
  (`auth-provider.tsx:107`); a rotation whose answer is lost ends the session (`auth.service.ts:526`).
- `POST /complaints` has no idempotency key: a lost answer and a second press store the form twice
  (`ComplaintSubmitWizard.tsx:357`). After a success a reload loses the reference number.
- Files dropped into the panel while it uploads are discarded, and pending files removed meanwhile come
  back, at the next `setFiles([...updated])` (`ComplaintEvidencePanel.tsx:117,137`).

## 6. Not modelled

Left out for good: listing and dashboard queries, rendering of mails and report files, DTO
validation, reference-data and account CRUD, notes and tasks, platform counters, web pages without a
protocol of their own, container set-up: nothing there depends on an order of steps beyond one
transaction and one message.

Left out though they have steps worth a model: MFA enrolment and backup codes (`mfa.service.ts`), the
inquiries staff decide (`complaint-recovery-inquiry.service.ts`), user and role administration
(`user-management.service.ts`), the dashboard's count of cases at risk, expiry of exports and of drafts, the
upload loop of a page that is left while it runs, and the composition of `ComplaintWorkflow` with
`SlaTracker`, whose common part is `completeTracker`.
