-------------------------------- MODULE KnowledgeBase --------------------------------
(***************************************************************************)
(* The chatbot's knowledge base: staff write, publish and archive articles; *)
(* each write that leaves an article PUBLISHED queues a job that rebuilds   *)
(* its chunks; and the questions of one chat session search the chunks      *)
(* while they are being rebuilt, under a limit on the session's turns.      *)
(*                                                                         *)
(* A step is one call to Postgres, the queue or the model.  A body is the   *)
(* number of its revision.  Chunks have no key of their own besides the id: *)
(* a worker deletes all chunks of the article before it creates any, so     *)
(* the worker and the index tell two chunks apart.  The index jobs are      *)
(* added with no "attempts": one that throws is not tried again.            *)
(***************************************************************************)
EXTENDS Naturals, FiniteSets

CONSTANTS
    Articles,
    Workers,        \* workers of the knowledge-index queue
    Requests,       \* staff requests in flight at once
    Chats,          \* messages of the session in flight at once
    NoOne,          \* no article
    Size,           \* the number of chunks of each revision
    TurnCap,        \* sessionTurnCap
    MaxRevision,    \* bound: edits of a body
    MaxWaiting,     \* bound: jobs queued for an article when a request starts
    MaxCrashes,     \* bound: lost locks, dead workers
    MaxFaults       \* bound: failed calls

Revisions == 1..MaxRevision

ASSUME NoOneAssumption  == NoOne \notin Articles
ASSUME ChatsAssumption  == IsFiniteSet(Chats) /\ Chats # {}
ASSUME SizeAssumption   == Size \in [Revisions -> Nat]
ASSUME LimitsAssumption == /\ MaxRevision \in Nat \ {0}
                           /\ {TurnCap, MaxWaiting, MaxCrashes, MaxFaults} \subseteq Nat

VARIABLES
    article,        \* the knowledge_articles rows: status and body
    published,      \* history: the bodies each article had while PUBLISHED
    chunks,         \* the knowledge_chunks rows of each article
    request,        \* the article a request is about to queue a job for
    waiting,        \* the waiting jobs of each article
    again,          \* of a job that stalled once, handed out again
    worker,         \* where each worker is, in which article
    turns,          \* turnCount of the session
    said,           \* its USER messages
    chat,           \* where each message is, and the bodies its answer uses
    crashes, faults

staff   == <<article, published, request>>
jobs    == <<waiting, again>>
session == <<turns, said, chat>>
failing == <<crashes, faults>>
vars    == <<staff, jobs, chunks, worker, session, failing>>

Status  == {"DRAFT", "PUBLISHED", "ARCHIVED"}
Chunk   == [by : Workers, revision : Revisions, index : Nat, embedded : BOOLEAN]
Idle    == [pc |-> "idle"]
Worker  == {Idle} \cup
           [pc : {"read", "clear", "delete", "create", "embed"}, of : Articles,
            job : {"fresh", "again", "lost"}, revision : Revisions, index : Nat]
Source  == [of : Articles, revision : Revisions]
Message == [pc : {"idle", "say", "retrieve", "reply", "count"}, used : SUBSET Source]

TypeOK ==
    /\ article \in [Articles -> [status : Status \cup {"NONE"}, revision : Revisions]]
    /\ published \in [Articles -> SUBSET Revisions]
    /\ chunks \in [Articles -> SUBSET Chunk]
    /\ request \in [Requests -> Articles \cup {NoOne}]
    /\ waiting \in [Articles -> Nat]
    /\ again \in [Articles -> Nat]
    /\ worker \in [Workers -> Worker]
    /\ turns \in Nat
    /\ said \in Nat
    /\ chat \in [Chats -> Message]
    /\ crashes \in Nat
    /\ faults \in Nat

Init ==
    /\ article = [a \in Articles |-> [status |-> "NONE", revision |-> 1]]
    /\ published = [a \in Articles |-> {}]
    /\ chunks = [a \in Articles |-> {}]
    /\ request = [r \in Requests |-> NoOne]
    /\ waiting = [a \in Articles |-> 0]
    /\ again = [a \in Articles |-> 0]
    /\ worker = [w \in Workers |-> Idle]
    /\ turns = 0
    /\ said = 0
    /\ chat = [q \in Chats |-> [pc |-> "idle", used |-> {}]]
    /\ crashes = 0
    /\ faults = 0

-----------------------------------------------------------------------------
(* KnowledgeAdminService.                                                  *)

CreateArticle(a) ==
    /\ article[a].status = "NONE"
    /\ article' = [article EXCEPT ![a].status = "DRAFT"]
    /\ UNCHANGED <<published, request, jobs, chunks, worker, session, failing>>

(* A request that writes the row, and goes on to queue a job if "queues".   *)
Write(r, a, row, queues) ==
    /\ request[r] = NoOne
    /\ article[a].status # "NONE"
    /\ waiting[a] < MaxWaiting
    /\ article' = [article EXCEPT ![a] = row]
    /\ published' = IF row.status = "PUBLISHED"
                    THEN [published EXCEPT ![a] = published[a] \cup {row.revision}]
                    ELSE published
    /\ request' = IF queues THEN [request EXCEPT ![r] = a] ELSE request
    /\ UNCHANGED <<jobs, chunks, worker, session, failing>>

Rows(a) ==
    [status : Status,
     revision : {n \in Revisions : n \in {article[a].revision, article[a].revision + 1}}]

(* The dto may change the body, the status or both; what counts is the      *)
(* status after it.  (Variant first: an update counts the status before.)   *)
UpdateByOldStatus(r, a) ==
    \E row \in Rows(a) : Write(r, a, row, article[a].status = "PUBLISHED")

Update(r, a) == \E row \in Rows(a) : Write(r, a, row, row.status = "PUBLISHED")

Publish(r, a) == Write(r, a, [article[a] EXCEPT !.status = "PUBLISHED"], TRUE)

Reindex(r, a) == Write(r, a, article[a], TRUE)

Enqueue(r) ==
    /\ request[r] # NoOne
    /\ waiting' = [waiting EXCEPT ![request[r]] = waiting[request[r]] + 1]
    /\ request' = [request EXCEPT ![r] = NoOne]
    /\ UNCHANGED <<article, published, again, chunks, worker, session, failing>>

-----------------------------------------------------------------------------
(* indexArticle, one job.                                                  *)

In(w, step) == worker[w].pc = step

Of(w) == worker[w].of

Take(w, a, kind, queue) ==
    /\ In(w, "idle")
    /\ queue[a] > 0
    /\ worker' = [worker EXCEPT ![w] = [pc |-> "read", of |-> a, job |-> kind,
                                        revision |-> 1, index |-> 1]]
    /\ UNCHANGED <<staff, chunks, session, failing>>

TakeFresh(w, a) ==
    /\ Take(w, a, "fresh", waiting)
    /\ waiting' = [waiting EXCEPT ![a] = waiting[a] - 1]
    /\ UNCHANGED again

TakeAgain(w, a) ==
    /\ Take(w, a, "again", again)
    /\ again' = [again EXCEPT ![a] = again[a] - 1]
    /\ UNCHANGED waiting

(* Status and body in one read.  (Variant first: the status is not looked   *)
(* at.)                                                                    *)
ReadAnyStatus(w) ==
    /\ In(w, "read")
    /\ worker' = [worker EXCEPT ![w].revision = article[Of(w)].revision, ![w].pc = "delete"]
    /\ UNCHANGED <<staff, jobs, chunks, session, failing>>

Read(w) ==
    /\ In(w, "read")
    /\ worker' = [worker EXCEPT ![w].revision = article[Of(w)].revision,
                                ![w].pc = IF article[Of(w)].status = "PUBLISHED"
                                          THEN "delete" ELSE "clear"]
    /\ UNCHANGED <<staff, jobs, chunks, session, failing>>

Clear(w) ==
    /\ In(w, "clear")
    /\ chunks' = [chunks EXCEPT ![Of(w)] = {}]
    /\ worker' = [worker EXCEPT ![w] = Idle]
    /\ UNCHANGED <<staff, jobs, session, failing>>

(* (Variant first: the new chunks replace those of the same index.)        *)
DeleteReplaced(w) ==
    /\ In(w, "delete")
    /\ chunks' = [chunks EXCEPT ![Of(w)] =
                      {c \in chunks[Of(w)] : c.index > Size[worker[w].revision]}]
    /\ worker' = [worker EXCEPT ![w].pc = "create"]
    /\ UNCHANGED <<staff, jobs, session, failing>>

Delete(w) ==
    /\ In(w, "delete")
    /\ chunks' = [chunks EXCEPT ![Of(w)] = {}]
    /\ worker' = [worker EXCEPT ![w].pc = "create"]
    /\ UNCHANGED <<staff, jobs, session, failing>>

Draft(w, embedded) ==
    [by |-> w, revision |-> worker[w].revision, index |-> worker[w].index, embedded |-> embedded]

Create(w) ==
    /\ In(w, "create")
    /\ worker[w].index <= Size[worker[w].revision]
    /\ chunks' = [chunks EXCEPT ![Of(w)] = chunks[Of(w)] \cup {Draft(w, FALSE)}]
    /\ worker' = [worker EXCEPT ![w].pc = "embed"]
    /\ UNCHANGED <<staff, jobs, session, failing>>

NextDraft(w) ==
    worker' = [worker EXCEPT ![w].pc = "create", ![w].index = worker[w].index + 1]

(* The UPDATE by id changes nothing if another worker deleted the row.      *)
Embed(w) ==
    /\ In(w, "embed")
    /\ chunks' = IF Draft(w, FALSE) \in chunks[Of(w)]
                 THEN [chunks EXCEPT ![Of(w)] =
                          (chunks[Of(w)] \ {Draft(w, FALSE)}) \cup {Draft(w, TRUE)}]
                 ELSE chunks
    /\ NextDraft(w)
    /\ UNCHANGED <<staff, jobs, session, failing>>

Finish(w) ==
    /\ In(w, "create")
    /\ worker[w].index > Size[worker[w].revision]
    /\ worker' = [worker EXCEPT ![w] = Idle]
    /\ UNCHANGED <<staff, jobs, chunks, session, failing>>

-----------------------------------------------------------------------------
(* handleMessage, for the messages of one session.                         *)

Says(q, step) == chat[q].pc = step

Stay == UNCHANGED <<staff, jobs, chunks, worker>>

(* The session's row is read and checked; at the cap the message is refused. *)
Ask(q) ==
    /\ Says(q, "idle")
    /\ turns < TurnCap
    /\ chat' = [chat EXCEPT ![q].pc = "say"]
    /\ Stay /\ UNCHANGED <<turns, said, failing>>

(* The message is stored, then judged: out of scope and orientation are     *)
(* answered without a search.                                              *)
Say(q) ==
    /\ Says(q, "say")
    /\ said' = said + 1
    /\ \E step \in {"retrieve", "reply"} : chat' = [chat EXCEPT ![q].pc = step]
    /\ Stay /\ UNCHANGED <<turns, failing>>

Found ==
    {s \in Source : /\ article[s.of].status = "PUBLISHED"
                    /\ \E c \in chunks[s.of] : c.embedded /\ c.revision = s.revision}

(* A question that cannot be embedded finds nothing.                       *)
Retrieve(q) ==
    /\ Says(q, "retrieve")
    /\ \E found \in {Found, {}} : chat' = [chat EXCEPT ![q] = [pc |-> "reply", used |-> found]]
    /\ Stay /\ UNCHANGED <<turns, said, failing>>

Reply(q) ==
    /\ Says(q, "reply")
    /\ chat' = [chat EXCEPT ![q].pc = "count"]
    /\ Stay /\ UNCHANGED <<turns, said, failing>>

(* (Variant first: answers without a source do not count.)                 *)
CountIfSourced(q) ==
    /\ Says(q, "count")
    /\ turns' = IF chat[q].used = {} THEN turns ELSE turns + 1
    /\ chat' = [chat EXCEPT ![q] = [pc |-> "idle", used |-> {}]]
    /\ Stay /\ UNCHANGED <<said, failing>>

Count(q) ==
    /\ Says(q, "count")
    /\ turns' = turns + 1
    /\ chat' = [chat EXCEPT ![q] = [pc |-> "idle", used |-> {}]]
    /\ Stay /\ UNCHANGED <<said, failing>>

-----------------------------------------------------------------------------
(* Faults.                                                                 *)

Fault == faults < MaxFaults /\ faults' = faults + 1 /\ UNCHANGED crashes

(* The row stays written, the request answers with an error.               *)
EnqueueFails(r) ==
    /\ Fault
    /\ request[r] # NoOne
    /\ request' = [request EXCEPT ![r] = NoOne]
    /\ UNCHANGED <<article, published, jobs, chunks, worker, session>>

(* A call of a job fails: an embedding's error is logged, any other ends it. *)
CallFails(w) ==
    /\ Fault
    /\ ~In(w, "idle")
    /\ IF In(w, "embed") THEN NextDraft(w) ELSE worker' = [worker EXCEPT ![w] = Idle]
    /\ UNCHANGED <<staff, jobs, chunks, session>>

ChatFails(q) ==
    /\ Fault
    /\ ~Says(q, "idle")
    /\ chat' = [chat EXCEPT ![q] = [pc |-> "idle", used |-> {}]]
    /\ Stay /\ UNCHANGED <<turns, said>>

(* The worker dies or loses its lock: BullMQ hands the job out a second     *)
(* time, and no third time.                                                *)
Stall(w, left) ==
    /\ crashes < MaxCrashes
    /\ ~In(w, "idle")
    /\ again' = IF worker[w].job = "fresh"
                THEN [again EXCEPT ![Of(w)] = again[Of(w)] + 1] ELSE again
    /\ worker' = [worker EXCEPT ![w] = left]
    /\ crashes' = crashes + 1
    /\ UNCHANGED <<staff, waiting, chunks, session, faults>>

Die(w) == Stall(w, Idle)

LoseLock(w) == worker[w] # Idle /\ Stall(w, [worker[w] EXCEPT !.job = "lost"])

-----------------------------------------------------------------------------
Step(w) ==
    Read(w) \/ Clear(w) \/ Delete(w) \/ Create(w) \/ Embed(w) \/ Finish(w)

Job(w) == Step(w) \/ \E a \in Articles : TakeFresh(w, a) \/ TakeAgain(w, a)

Converse(q) == Ask(q) \/ Say(q) \/ Retrieve(q) \/ Reply(q) \/ Count(q) \/ ChatFails(q)

Next ==
    \/ \E a \in Articles : CreateArticle(a)
    \/ \E r \in Requests :
          Enqueue(r) \/ EnqueueFails(r)
             \/ \E a \in Articles : Update(r, a) \/ Publish(r, a) \/ Reindex(r, a)
    \/ \E w \in Workers : Job(w) \/ CallFails(w) \/ Die(w) \/ LoseLock(w)
    \/ \E q \in Chats : Converse(q)

Spec == Init /\ [][Next]_vars

(* A started request goes on; a worker takes waiting jobs and works on them. *)
Fairness ==
    /\ \A r \in Requests : WF_vars(Enqueue(r))
    /\ \A w \in Workers : WF_vars(Job(w))

FairSpec == Spec /\ Fairness

-----------------------------------------------------------------------------
(* Properties.                                                             *)

(* What an answer is grounded on was published: no body that was only ever  *)
(* a draft reaches the index or an answer, however edits, publications and  *)
(* rebuilds interleave ("content is staff-reviewed").                      *)
OnlyPublishedIsUsed ==
    /\ \A a \in Articles : \A c \in chunks[a] : c.revision \in published[a]
    /\ \A q \in Chats : \A s \in chat[q].used : s.revision \in published[s.of]

Settled(a) ==
    /\ waiting[a] = 0 /\ again[a] = 0
    /\ \A r \in Requests : request[r] # a
    /\ \A w \in Workers : worker[w] = Idle \/ Of(w) # a

Whole(a) ==
    \E w \in Workers :
        chunks[a] = {[by |-> w, revision |-> article[a].revision, index |-> i, embedded |-> TRUE] :
                        i \in 1..Size[article[a].revision]}

(* A published article with nothing left to do is searchable by its latest  *)
(* body, all of it, once each: no edit during a rebuild is missed, and one  *)
(* crash of the worker is made up for.                                     *)
SettledIsWhole ==
    \A a \in Articles :
        faults = 0 /\ crashes < 2 /\ Settled(a) /\ article[a].status = "PUBLISHED" => Whole(a)

(* The turn limit is read before the message and counted after the answer:  *)
(* a session stores at most one message per message in flight beyond it,    *)
(* and one for each that failed before it was counted.                     *)
CapHolds == said <= TurnCap + (Cardinality(Chats) - 1) + faults

(* A job queued after the last failure makes the article searchable by its  *)
(* latest body, unless it is withdrawn: whatever a failed job left behind    *)
(* is repaired by a reindex.                                               *)
ReindexRepairs ==
    \A a \in Articles :
        waiting[a] > 0 /\ faults = MaxFaults /\ crashes = MaxCrashes
            ~> Whole(a) \/ article[a].status # "PUBLISHED"
====
