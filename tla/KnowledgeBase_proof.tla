----------------------------- MODULE KnowledgeBase_proof -----------------------------
(***************************************************************************)
(* What reaches an answer and how long a session lasts, for any number of  *)
(* articles, workers, requests, messages, crashes and faults.              *)
(***************************************************************************)
EXTENDS KnowledgeBase, FiniteSetTheorems, TLAPS

(* Every place a body goes on its way to an answer.                        *)
PublishedInv ==
    /\ \A a \in Articles : article[a].status = "PUBLISHED" => article[a].revision \in published[a]
    /\ \A w \in Workers : worker[w].pc \in {"delete", "create", "embed"} =>
          worker[w].revision \in published[Of(w)]
    /\ OnlyPublishedIsUsed

Busy   == {q \in Chats : chat[q].pc # "idle"}
Stored == {q \in Chats : chat[q].pc \in {"retrieve", "reply", "count"}}

(* A stored message is counted, or under way, or paid for by a fault; and   *)
(* those under way were let in below the cap.                              *)
TurnInv ==
    /\ said <= turns + faults + Cardinality(Stored)
    /\ turns + Cardinality(Busy) + 1 <= TurnCap + Cardinality(Chats)

IInv == TypeOK /\ PublishedInv /\ TurnInv

-----------------------------------------------------------------------------
(* Types, and what a step does to a worker or a message.                    *)

JobWorker == [pc : {"read", "clear", "delete", "create", "embed"}, of : Articles,
              job : {"fresh", "again", "lost"}, revision : Revisions, index : Nat]

LEMMA InitType == Init => TypeOK
<1> SUFFICES ASSUME Init PROVE TypeOK
  OBVIOUS
<1>1. [status |-> "NONE", revision |-> 1] \in [status : Status \cup {"NONE"}, revision : Revisions]
  BY LimitsAssumption DEF Revisions
<1>2. [pc |-> "idle", used |-> {}] \in Message
  BY DEF Message
<1> QED
  BY <1>1, <1>2 DEF Init, TypeOK, Worker

LEMMA WorkerType ==
    ASSUME TypeOK, NEW w \in Workers
    PROVE  /\ worker[w].pc # "idle" => worker[w] \in JobWorker /\ Of(w) \in Articles
           /\ worker[w].pc = "idle" => worker[w] = Idle
           /\ worker[w] # Idle => worker[w].pc # "idle"
<1>1. worker[w] \in Worker
  BY DEF TypeOK
<1>2. CASE worker[w] = Idle
  BY <1>2 DEF Idle
<1>3. CASE worker[w] \in JobWorker
  BY <1>3 DEF JobWorker, Of
<1> QED
  BY <1>1, <1>2, <1>3 DEF Worker, JobWorker

LEMMA WorkerChange ==
    ASSUME TypeOK, NEW w \in Workers, NEW r \in Worker, worker' = [worker EXCEPT ![w] = r]
    PROVE  /\ worker' \in [Workers -> Worker] /\ worker'[w] = r
           /\ \A v \in Workers : v # w => worker'[v] = worker[v]
BY DEF TypeOK

LEMMA ArticleType ==
    ASSUME TypeOK, NEW a \in Articles
    PROVE  /\ article[a].status \in Status \cup {"NONE"} /\ article[a].revision \in Revisions
           /\ article[a] \in [status : Status \cup {"NONE"}, revision : Revisions]
BY DEF TypeOK

LEMMA ChatChange ==
    ASSUME TypeOK, NEW q \in Chats, NEW m \in Message, chat' = [chat EXCEPT ![q] = m]
    PROVE  /\ chat' \in [Chats -> Message] /\ chat'[q] = m
           /\ \A p \in Chats : p # q => chat'[p] = chat[p]
BY DEF TypeOK

LEMMA ChatGoes ==
    ASSUME TypeOK, NEW q \in Chats, NEW step \in {"say", "retrieve", "reply", "count"},
           chat' = [chat EXCEPT ![q].pc = step]
    PROVE  /\ chat' \in [Chats -> Message]
           /\ chat'[q].pc = step /\ chat'[q].used = chat[q].used
           /\ \A p \in Chats : p # q => chat'[p] = chat[p]
BY DEF TypeOK, Message

LEMMA IdleType == Idle \in Worker
BY DEF Worker

(* What a worker becomes.                                                  *)
LEMMA WorkerStep ==
    ASSUME TypeOK, NEW w \in Workers,
           Step(w) \/ CallFails(w) \/ Die(w) \/ LoseLock(w)
    PROVE  /\ worker' \in [Workers -> Worker]
           /\ \A v \in Workers : v # w => worker'[v] = worker[v]
           /\ worker[w].pc # "idle"
           /\ worker'[w].pc \in {"delete", "create", "embed"} =>
                 /\ worker'[w].of = Of(w)
                 /\ \/ /\ worker[w].pc \in {"delete", "create", "embed"}
                       /\ worker'[w].revision = worker[w].revision
                    \/ /\ worker[w].pc = "read" /\ article[Of(w)].status = "PUBLISHED"
                       /\ worker'[w].revision = article[Of(w)].revision
<1>1. worker[w].pc # "idle"
  BY WorkerType DEF Step, Read, Clear, Delete, Create, Embed, Finish, CallFails, Die, LoseLock,
                    Stall, In
<1>2. worker[w] \in JobWorker /\ Of(w) \in Articles
  BY <1>1, WorkerType
<1>3. \/ worker' = [worker EXCEPT ![w] = Idle]
      \/ worker' = [worker EXCEPT ![w] = [worker[w] EXCEPT !.job = "lost"]]
      \/ /\ worker[w].pc = "read"
         /\ worker' = [worker EXCEPT ![w].revision = article[Of(w)].revision,
                                     ![w].pc = IF article[Of(w)].status = "PUBLISHED"
                                               THEN "delete" ELSE "clear"]
      \/ /\ worker[w].pc = "delete"
         /\ worker' = [worker EXCEPT ![w].pc = "create"]
      \/ /\ worker[w].pc = "create"
         /\ worker' = [worker EXCEPT ![w].pc = "embed"]
      \/ worker[w].pc = "embed" /\ NextDraft(w)
  BY DEF Step, Read, Clear, Delete, Create, Embed, Finish, CallFails, Die, LoseLock, Stall, In
<1>4. CASE worker' = [worker EXCEPT ![w] = Idle]
  BY <1>1, <1>4, IdleType, WorkerChange DEF Idle
<1>5. ASSUME NEW r \in JobWorker, worker' = [worker EXCEPT ![w] = r]
      PROVE  /\ worker' \in [Workers -> Worker] /\ worker'[w] = r
             /\ \A v \in Workers : v # w => worker'[v] = worker[v]
  BY <1>5, WorkerChange DEF Worker, JobWorker
<1>6. CASE worker' = [worker EXCEPT ![w] = [worker[w] EXCEPT !.job = "lost"]]
  <2> DEFINE r == [worker[w] EXCEPT !.job = "lost"]
  <2>1. r \in JobWorker /\ r.pc = worker[w].pc /\ r.of = Of(w) /\ r.revision = worker[w].revision
    BY <1>2 DEF JobWorker, Of
  <2> HIDE DEF r
  <2>2. worker'[w] = r /\ worker' \in [Workers -> Worker]
        /\ \A v \in Workers : v # w => worker'[v] = worker[v]
    BY <1>5, <1>6, <2>1 DEF r
  <2>3. worker[w].pc = "read" => r.pc = "read"
    BY <2>1
  <2> QED
    BY <1>1, <2>1, <2>2
<1>7. CASE /\ worker[w].pc = "read"
           /\ worker' = [worker EXCEPT ![w].revision = article[Of(w)].revision,
                                       ![w].pc = IF article[Of(w)].status = "PUBLISHED"
                                                 THEN "delete" ELSE "clear"]
  <2> DEFINE to == IF article[Of(w)].status = "PUBLISHED" THEN "delete" ELSE "clear"
             rev == article[Of(w)].revision
             r == [worker[w] EXCEPT !.revision = rev, !.pc = to]
  <2>1. to \in {"delete", "clear"} /\ rev \in Revisions
    BY <1>2, ArticleType
  <2>2. worker' = [worker EXCEPT ![w] = r]
    BY <1>7 DEF TypeOK
  <2>3. to = "delete" => article[Of(w)].status = "PUBLISHED"
    OBVIOUS
  <2> HIDE DEF to
  <2>4. r \in JobWorker /\ r.pc = to /\ r.of = Of(w) /\ r.revision = rev
    BY <1>2, <2>1 DEF JobWorker, Of
  <2> HIDE DEF r
  <2> QED
    BY <1>1, <1>5, <1>7, <2>1, <2>2, <2>3, <2>4
<1>8. ASSUME NEW to \in {"create", "embed"}, worker[w].pc \in {"delete", "create"},
             worker' = [worker EXCEPT ![w].pc = to]
      PROVE  /\ worker' \in [Workers -> Worker]
             /\ worker'[w].of = Of(w) /\ worker'[w].revision = worker[w].revision
             /\ \A v \in Workers : v # w => worker'[v] = worker[v]
  <2> DEFINE r == [worker[w] EXCEPT !.pc = to]
  <2>1. worker' = [worker EXCEPT ![w] = r]
    BY <1>8 DEF TypeOK
  <2>2. r \in JobWorker /\ r.of = Of(w) /\ r.revision = worker[w].revision
    BY <1>2 DEF JobWorker, Of
  <2> HIDE DEF r
  <2> QED
    BY <1>5, <2>1, <2>2
<1>9. CASE worker[w].pc = "embed" /\ NextDraft(w)
  <2> DEFINE i == worker[w].index + 1
             r == [worker[w] EXCEPT !.pc = "create", !.index = i]
  <2>1. worker' = [worker EXCEPT ![w] = r]
    BY <1>9 DEF TypeOK, NextDraft
  <2>2. i \in Nat
    BY <1>2 DEF JobWorker
  <2> HIDE DEF i
  <2>3. r \in JobWorker /\ r.of = Of(w) /\ r.revision = worker[w].revision
    BY <1>2, <2>2 DEF JobWorker, Of
  <2> HIDE DEF r
  <2> QED
    BY <1>1, <1>5, <1>9, <2>1, <2>3
<1> QED
  BY <1>1, <1>3, <1>4, <1>6, <1>7, <1>8, <1>9

(* What becomes of the chunks: none is added but the worker's own.          *)
LEMMA ChunkStep ==
    ASSUME TypeOK, NEW w \in Workers, Step(w)
    PROVE  /\ chunks' \in [Articles -> SUBSET Chunk]
           /\ \A a \in Articles : \A c \in chunks'[a] :
                 \/ c \in chunks[a]
                 \/ /\ a = Of(w) /\ worker[w].pc \in {"create", "embed"}
                    /\ c.revision = worker[w].revision
<1>1. worker[w].pc # "idle"
  BY WorkerStep
<1>2. worker[w] \in JobWorker /\ Of(w) \in Articles
  BY <1>1, WorkerType
<1>3. \A e \in BOOLEAN : Draft(w, e) \in Chunk /\ Draft(w, e).revision = worker[w].revision
  BY <1>2 DEF Draft, Chunk, JobWorker
<1>4. CASE chunks' = chunks
  BY <1>4 DEF TypeOK
<1>5. CASE chunks' = [chunks EXCEPT ![Of(w)] = {}]
  BY <1>5 DEF TypeOK
<1>6. CASE worker[w].pc = "create" /\ chunks' = [chunks EXCEPT ![Of(w)] = chunks[Of(w)] \cup {Draft(w, FALSE)}]
  BY <1>2, <1>3, <1>6 DEF TypeOK
<1>7. CASE worker[w].pc = "embed" /\ chunks' = [chunks EXCEPT ![Of(w)] =
                          (chunks[Of(w)] \ {Draft(w, FALSE)}) \cup {Draft(w, TRUE)}]
  BY <1>2, <1>3, <1>7 DEF TypeOK
<1> QED
  BY <1>4, <1>5, <1>6, <1>7 DEF Step, Read, Clear, Delete, Create, Embed, Finish, In

LEMMA StaffStep ==
    ASSUME TypeOK, NEW a \in Articles,
           \/ CreateArticle(a)
           \/ \E r \in Requests : Update(r, a) \/ Publish(r, a) \/ Reindex(r, a)
    PROVE  /\ article' \in [Articles -> [status : Status \cup {"NONE"}, revision : Revisions]]
           /\ published' \in [Articles -> SUBSET Revisions]
           /\ request' \in [Requests -> Articles \cup {NoOne}]
           /\ UNCHANGED <<chunks, waiting, again, worker, turns, said, chat, crashes, faults>>
           /\ \A b \in Articles : published[b] \subseteq published'[b]
           /\ \A b \in Articles : article'[b].status = "PUBLISHED" =>
                 article'[b] = article[b] \/ article'[b].revision \in published'[b]
<1> USE DEF jobs, session, failing
<1>1. CASE CreateArticle(a)
  BY <1>1 DEF CreateArticle, TypeOK, Status
<1>2. ASSUME NEW r \in Requests, Update(r, a) \/ Publish(r, a) \/ Reindex(r, a)
      PROVE  \E row \in [status : Status \cup {"NONE"}, revision : Revisions], queues \in BOOLEAN :
                Write(r, a, row, queues)
  <2>1. CASE Update(r, a)
    BY <2>1 DEF Update, Rows
  <2>2. CASE Publish(r, a)
    <3>1. [article[a] EXCEPT !.status = "PUBLISHED"] \in
             [status : Status \cup {"NONE"}, revision : Revisions]
      BY ArticleType DEF Status
    <3> QED
      BY <2>2, <3>1 DEF Publish
  <2>3. CASE Reindex(r, a)
    BY <2>3, ArticleType DEF Reindex
  <2> QED
    BY <1>2, <2>1, <2>2, <2>3
<1>3. ASSUME NEW r \in Requests, NEW queues \in BOOLEAN,
             NEW row \in [status : Status \cup {"NONE"}, revision : Revisions],
             Write(r, a, row, queues)
      PROVE  /\ article' \in [Articles -> [status : Status \cup {"NONE"}, revision : Revisions]]
             /\ published' \in [Articles -> SUBSET Revisions]
             /\ request' \in [Requests -> Articles \cup {NoOne}]
             /\ UNCHANGED <<chunks, waiting, again, worker, turns, said, chat, crashes, faults>>
             /\ \A b \in Articles : published[b] \subseteq published'[b]
             /\ \A b \in Articles : article'[b].status = "PUBLISHED" =>
                   article'[b] = article[b] \/ article'[b].revision \in published'[b]
  <2>1. article' = [article EXCEPT ![a] = row] /\ row.revision \in Revisions
    BY <1>3 DEF Write
  <2>2. /\ published' \in [Articles -> SUBSET Revisions]
        /\ \A b \in Articles : published[b] \subseteq published'[b]
        /\ row.status = "PUBLISHED" => row.revision \in published'[a]
    <3>1. CASE row.status = "PUBLISHED"
      <4>1. published' = [published EXCEPT ![a] = published[a] \cup {row.revision}]
        BY <1>3, <3>1 DEF Write
      <4> QED
        BY <2>1, <4>1 DEF TypeOK
    <3>2. CASE row.status # "PUBLISHED"
      BY <1>3, <3>2 DEF Write, TypeOK
    <3> QED
      BY <3>1, <3>2
  <2>3. request' \in [Requests -> Articles \cup {NoOne}]
    BY <1>3 DEF Write, TypeOK
  <2>4. UNCHANGED <<chunks, waiting, again, worker, turns, said, chat, crashes, faults>>
    BY <1>3 DEF Write
  <2> QED
    BY <2>1, <2>2, <2>3, <2>4 DEF TypeOK
<1> QED
  BY <1>1, <1>2, <1>3

LEMMA ConverseStep ==
    ASSUME TypeOK, NEW q \in Chats, Converse(q)
    PROVE  /\ chat' \in [Chats -> Message]
           /\ \A p \in Chats : p # q => chat'[p] = chat[p]
           /\ UNCHANGED <<article, published, request, waiting, again, chunks, worker, crashes>>
           /\ chat'[q].used \in {{}, chat[q].used, Found}
           /\ \/ /\ chat[q].pc = "idle" /\ turns < TurnCap
                 /\ chat'[q].pc = "say" /\ UNCHANGED <<turns, said, faults>>
              \/ /\ chat[q].pc = "say" /\ chat'[q].pc \in {"retrieve", "reply"}
                 /\ said' = said + 1 /\ UNCHANGED <<turns, faults>>
              \/ /\ chat[q].pc \in {"retrieve", "reply"} /\ chat'[q].pc \in {"reply", "count"}
                 /\ UNCHANGED <<turns, said, faults>>
              \/ /\ chat[q].pc = "count" /\ chat'[q].pc = "idle"
                 /\ turns' = turns + 1 /\ UNCHANGED <<said, faults>>
              \/ /\ chat[q].pc # "idle" /\ chat'[q].pc = "idle"
                 /\ faults' = faults + 1 /\ UNCHANGED <<turns, said>>
<1> USE DEF Says, Stay, staff, jobs, failing
<1>1. CASE Ask(q)
  BY <1>1, ChatGoes DEF Ask
<1>2. CASE Say(q)
  BY <1>2, ChatGoes DEF Say
<1>3. CASE Retrieve(q)
  <2>1. PICK found \in {Found, {}} : chat' = [chat EXCEPT ![q] = [pc |-> "reply", used |-> found]]
    BY <1>3 DEF Retrieve
  <2>2. [pc |-> "reply", used |-> found] \in Message
    BY DEF Message, Found
  <2> DEFINE m == [pc |-> "reply", used |-> found]
  <2>3. m.pc = "reply" /\ m.used = found /\ m \in Message /\ chat' = [chat EXCEPT ![q] = m]
    BY <2>1, <2>2
  <2> HIDE DEF m
  <2>4. /\ chat' \in [Chats -> Message] /\ chat'[q] = m
        /\ \A p \in Chats : p # q => chat'[p] = chat[p]
    BY <2>3, ChatChange
  <2> QED
    BY <1>3, <2>3, <2>4 DEF Retrieve
<1>4. CASE Reply(q)
  BY <1>4, ChatGoes DEF Reply
<1>5. CASE Count(q) \/ ChatFails(q)
  <2> DEFINE m == [pc |-> "idle", used |-> {}]
  <2>1. m \in Message /\ m.pc = "idle" /\ m.used = {} /\ chat' = [chat EXCEPT ![q] = m]
    BY <1>5 DEF Message, Count, ChatFails
  <2> HIDE DEF m
  <2>2. /\ chat' \in [Chats -> Message] /\ chat'[q] = m
        /\ \A p \in Chats : p # q => chat'[p] = chat[p]
    BY <2>1, ChatChange
  <2> QED
    BY <1>5, <2>1, <2>2 DEF Count, ChatFails, Fault
<1> QED
  BY <1>1, <1>2, <1>3, <1>4, <1>5 DEF Converse

(* What else a job does, and the queue.                                    *)
LEMMA JobStep ==
    ASSUME TypeOK, NEW w \in Workers, Job(w) \/ CallFails(w) \/ Die(w) \/ LoseLock(w)
    PROVE  /\ UNCHANGED <<article, published, request, turns, said, chat>>
           /\ waiting' \in [Articles -> Nat] /\ again' \in [Articles -> Nat]
           /\ crashes' \in Nat /\ faults' \in Nat /\ faults' >= faults
           /\ chunks' \in [Articles -> SUBSET Chunk]
           /\ worker' \in [Workers -> Worker]
           /\ \A v \in Workers : v # w => worker'[v] = worker[v]
           /\ worker'[w].pc \in {"delete", "create", "embed"} =>
                 /\ worker'[w].of = Of(w)
                 /\ \/ /\ worker[w].pc \in {"delete", "create", "embed"}
                       /\ worker'[w].revision = worker[w].revision
                    \/ /\ worker[w].pc = "read" /\ article[Of(w)].status = "PUBLISHED"
                       /\ worker'[w].revision = article[Of(w)].revision
           /\ \A a \in Articles : \A c \in chunks'[a] :
                 \/ c \in chunks[a]
                 \/ /\ a = Of(w) /\ worker[w].pc \in {"create", "embed"}
                    /\ c.revision = worker[w].revision
<1> USE DEF staff, session
<1>1. CASE Step(w)
  <2>1. UNCHANGED <<article, published, request, turns, said, chat, waiting, again, crashes, faults>>
    BY <1>1 DEF Step, Read, Clear, Delete, Create, Embed, Finish, jobs, failing
  <2>2. faults' >= faults
    BY <2>1 DEF TypeOK
  <2> QED
    BY <1>1, <2>1, <2>2, WorkerStep, ChunkStep DEF TypeOK
<1>2. ASSUME NEW a \in Articles, TakeFresh(w, a) \/ TakeAgain(w, a)
      PROVE  /\ worker' \in [Workers -> Worker] /\ worker'[w].pc = "read"
             /\ \A v \in Workers : v # w => worker'[v] = worker[v]
             /\ waiting' \in [Articles -> Nat] /\ again' \in [Articles -> Nat]
             /\ UNCHANGED <<article, published, request, turns, said, chat, chunks, crashes, faults>>
  <2>1. PICK kind \in {"fresh", "again"} :
           worker' = [worker EXCEPT ![w] = [pc |-> "read", of |-> a, job |-> kind,
                                            revision |-> 1, index |-> 1]]
    BY <1>2 DEF TakeFresh, TakeAgain, Take
  <2> DEFINE r == [pc |-> "read", of |-> a, job |-> kind, revision |-> 1, index |-> 1]
  <2>2. r \in JobWorker /\ r.pc = "read" /\ worker' = [worker EXCEPT ![w] = r]
    BY <2>1, LimitsAssumption DEF JobWorker, Revisions
  <2> HIDE DEF r
  <2>3. /\ worker' \in [Workers -> Worker] /\ worker'[w] = r
        /\ \A v \in Workers : v # w => worker'[v] = worker[v]
    BY <2>2, WorkerChange DEF Worker, JobWorker
  <2>4. waiting' \in [Articles -> Nat] /\ again' \in [Articles -> Nat]
    BY <1>2 DEF TakeFresh, TakeAgain, Take, TypeOK
  <2> QED
    BY <1>2, <2>2, <2>3, <2>4 DEF TakeFresh, TakeAgain, Take, failing
<1>3. CASE CallFails(w)
  BY <1>3, WorkerStep DEF CallFails, Fault, TypeOK, jobs
<1>4. CASE Die(w) \/ LoseLock(w)
  <2>1. /\ UNCHANGED <<article, published, request, turns, said, chat, waiting, chunks, faults>>
        /\ again' = (IF worker[w].job = "fresh"
                     THEN [again EXCEPT ![Of(w)] = again[Of(w)] + 1] ELSE again)
        /\ crashes' = crashes + 1
    BY <1>4 DEF Die, LoseLock, Stall
  <2>2. again' \in [Articles -> Nat]
    <3>1. Of(w) \in Articles
      BY <1>4, WorkerStep, WorkerType
    <3> QED
      BY <2>1, <3>1 DEF TypeOK
  <2> QED
    BY <1>4, <2>1, <2>2, WorkerStep DEF TypeOK
<1> QED
  BY <1>1, <1>2, <1>3, <1>4 DEF Job, TypeOK

LEMMA QueueStep ==
    ASSUME TypeOK, NEW r \in Requests, Enqueue(r) \/ EnqueueFails(r)
    PROVE  /\ UNCHANGED <<article, published, again, chunks, worker, turns, said, chat, crashes>>
           /\ request' \in [Requests -> Articles \cup {NoOne}]
           /\ waiting' \in [Articles -> Nat]
           /\ faults' \in Nat /\ faults' >= faults
<1>1. CASE Enqueue(r)
  <2>1. request[r] \in Articles
    BY <1>1 DEF Enqueue, TypeOK
  <2> QED
    BY <1>1, <2>1 DEF Enqueue, TypeOK, session, failing
<1>2. CASE EnqueueFails(r)
  BY <1>2 DEF EnqueueFails, Fault, TypeOK, session, jobs
<1> QED
  BY <1>1, <1>2

LEMMA NextType == TypeOK /\ [Next]_vars => TypeOK'
<1> SUFFICES ASSUME TypeOK, [Next]_vars PROVE TypeOK'
  OBVIOUS
<1>1. ASSUME NEW q \in Chats, Converse(q) PROVE TypeOK'
  <2>1. turns' \in Nat /\ said' \in Nat /\ faults' \in Nat
    BY <1>1, ConverseStep DEF TypeOK
  <2> QED
    BY <1>1, <2>1, ConverseStep DEF TypeOK
<1>2. ASSUME NEW w \in Workers, Job(w) \/ CallFails(w) \/ Die(w) \/ LoseLock(w) PROVE TypeOK'
  BY <1>2, JobStep DEF TypeOK
<1>3. ASSUME NEW r \in Requests, Enqueue(r) \/ EnqueueFails(r) PROVE TypeOK'
  BY <1>3, QueueStep DEF TypeOK
<1>4. ASSUME NEW a \in Articles,
             \/ CreateArticle(a)
             \/ \E r \in Requests : Update(r, a) \/ Publish(r, a) \/ Reindex(r, a)
      PROVE TypeOK'
  BY <1>4, StaffStep DEF TypeOK
<1>5. CASE UNCHANGED vars
  BY <1>5 DEF vars, staff, jobs, session, failing, TypeOK
<1> QED
  BY <1>1, <1>2, <1>3, <1>4, <1>5 DEF Next

(* Type correctness.                                                       *)
THEOREM Types == Spec => []TypeOK
BY InitType, NextType, PTL DEF Spec

-----------------------------------------------------------------------------
(* Bodies.                                                                 *)

LEMMA InitPublished == Init => PublishedInv
<1> SUFFICES ASSUME Init PROVE PublishedInv
  OBVIOUS
<1>1. \A a \in Articles : article[a].status = "NONE" /\ chunks[a] = {}
  BY DEF Init
<1>2. \A w \in Workers : worker[w].pc = "idle"
  BY DEF Init, Idle
<1>3. \A q \in Chats : chat[q].used = {}
  BY DEF Init
<1> QED
  BY <1>1, <1>2, <1>3 DEF PublishedInv, OnlyPublishedIsUsed

LEMMA NextPublished == TypeOK /\ PublishedInv /\ [Next]_vars => PublishedInv'
<1> SUFFICES ASSUME TypeOK, PublishedInv, [Next]_vars PROVE PublishedInv'
  OBVIOUS
<1>1. ASSUME NEW q \in Chats, Converse(q) PROVE PublishedInv'
  <2>1. \A s \in Found : s.of \in Articles /\ s.revision \in published[s.of]
    BY DEF PublishedInv, OnlyPublishedIsUsed, Found, Source
  <2>2. \A p \in Chats : \A s \in chat'[p].used : s.revision \in published[s.of]
    BY <1>1, <2>1, ConverseStep DEF PublishedInv, OnlyPublishedIsUsed
  <2> QED
    BY <1>1, <2>2, ConverseStep DEF PublishedInv, OnlyPublishedIsUsed, Of
<1>2. ASSUME NEW w \in Workers, Job(w) \/ CallFails(w) \/ Die(w) \/ LoseLock(w)
      PROVE  PublishedInv'
  <2>1. Of(w) \in Articles \/ worker[w].pc \notin {"read", "delete", "create", "embed"}
    BY WorkerType
  <2>2. \A v \in Workers : worker'[v].pc \in {"delete", "create", "embed"} =>
           worker'[v].revision \in published[worker'[v].of]
    BY <1>2, <2>1, JobStep DEF PublishedInv, Of
  <2>3. \A a \in Articles : \A c \in chunks'[a] : c.revision \in published[a]
    BY <1>2, JobStep DEF PublishedInv, OnlyPublishedIsUsed
  <2>4. UNCHANGED <<article, published, chat>>
    BY <1>2, JobStep
  <2> QED
    BY <2>2, <2>3, <2>4 DEF PublishedInv, OnlyPublishedIsUsed, Of
<1>3. ASSUME NEW a \in Articles,
             \/ CreateArticle(a)
             \/ \E r \in Requests : Update(r, a) \/ Publish(r, a) \/ Reindex(r, a)
      PROVE PublishedInv'
  <2>1. /\ UNCHANGED <<chunks, worker, chat>>
        /\ \A b \in Articles : published[b] \subseteq published'[b]
        /\ \A b \in Articles : article'[b].status = "PUBLISHED" =>
              article'[b] = article[b] \/ article'[b].revision \in published'[b]
    BY <1>3, StaffStep
  <2>2. \A w \in Workers : worker[w].pc \in {"delete", "create", "embed"} => Of(w) \in Articles
    BY WorkerType
  <2>3. \A q \in Chats : \A s \in chat[q].used : s.of \in Articles
    BY DEF TypeOK, Message, Source
  <2> QED
    BY <2>1, <2>2, <2>3 DEF PublishedInv, OnlyPublishedIsUsed, Of
<1>4. CASE UNCHANGED <<article, published, chunks, worker, chat>>
  BY <1>4 DEF PublishedInv, OnlyPublishedIsUsed, Of
<1>5. ASSUME NEW r \in Requests, Enqueue(r) \/ EnqueueFails(r) PROVE PublishedInv'
  BY <1>4, <1>5, QueueStep
<1>6. CASE UNCHANGED vars
  BY <1>4, <1>6 DEF vars, staff, session
<1> QED
  BY <1>1, <1>2, <1>3, <1>5, <1>6 DEF Next

-----------------------------------------------------------------------------
(* Turns.                                                                  *)

LEMMA SetOfChats ==
    ASSUME NEW S \in SUBSET Chats
    PROVE  IsFiniteSet(S) /\ Cardinality(S) \in Nat /\ Cardinality(S) <= Cardinality(Chats)
BY ChatsAssumption, FS_Subset, FS_CardinalityType

LEMMA InitTurns == Init => TurnInv
<1> SUFFICES ASSUME Init PROVE TurnInv
  OBVIOUS
<1>1. Busy = {} /\ Stored = {}
  BY DEF Init, Busy, Stored
<1>2. Cardinality(Busy) = 0 /\ Cardinality(Stored) = 0
  BY <1>1, FS_EmptySet
<1>3. Cardinality(Chats) \in Nat /\ Cardinality(Chats) # 0
  BY ChatsAssumption, FS_CardinalityType, FS_EmptySet
<1>4. turns = 0 /\ said = 0 /\ faults = 0 /\ TurnCap \in Nat
  BY LimitsAssumption DEF Init
<1> QED
  BY <1>2, <1>3, <1>4 DEF TurnInv

LEMMA NextTurns == TypeOK /\ TurnInv /\ [Next]_vars => TurnInv'
<1> SUFFICES ASSUME TypeOK, TurnInv, [Next]_vars PROVE TurnInv'
  OBVIOUS
<1>1. /\ turns \in Nat /\ said \in Nat /\ faults \in Nat /\ TurnCap \in Nat
      /\ Busy \in SUBSET Chats /\ Stored \in SUBSET Chats
      /\ Busy' \in SUBSET Chats /\ Stored' \in SUBSET Chats
  BY LimitsAssumption DEF TypeOK, Busy, Stored
<1>2. /\ IsFiniteSet(Busy) /\ IsFiniteSet(Stored)
      /\ Cardinality(Busy) \in Nat /\ Cardinality(Stored) \in Nat
      /\ Cardinality(Busy') \in Nat /\ Cardinality(Stored') \in Nat
      /\ Cardinality(Chats) \in Nat /\ Cardinality(Busy') <= Cardinality(Chats)
  BY <1>1, SetOfChats
<1>3. ASSUME UNCHANGED <<turns, said, chat>>, faults' \in Nat, faults' >= faults PROVE TurnInv'
  <2>1. Busy' = Busy /\ Stored' = Stored
    BY <1>3 DEF Busy, Stored
  <2> QED
    BY <1>1, <1>2, <1>3, <2>1 DEF TurnInv
<1>4. ASSUME NEW q \in Chats, Converse(q) PROVE TurnInv'
  <2>1. \A p \in Chats : p # q => chat'[p] = chat[p]
    BY <1>4, ConverseStep
  <2>2. CASE chat[q].pc = "idle" /\ turns < TurnCap
             /\ chat'[q].pc = "say" /\ UNCHANGED <<turns, said, faults>>
    <3>1. Stored' = Stored
      BY <2>1, <2>2 DEF Stored
    <3> QED
      BY <1>1, <1>2, <2>2, <3>1 DEF TurnInv
  <2>3. CASE chat[q].pc = "say" /\ chat'[q].pc \in {"retrieve", "reply"}
             /\ said' = said + 1 /\ UNCHANGED <<turns, faults>>
    <3>1. Busy' = Busy /\ Stored' = Stored \cup {q} /\ q \notin Stored
      BY <2>1, <2>3 DEF Busy, Stored
    <3>2. Cardinality(Stored') = Cardinality(Stored) + 1
      BY <1>2, <3>1, FS_AddElement
    <3> QED
      BY <1>1, <1>2, <2>3, <3>1, <3>2 DEF TurnInv
  <2>4. CASE chat[q].pc \in {"retrieve", "reply"} /\ chat'[q].pc \in {"reply", "count"}
             /\ UNCHANGED <<turns, said, faults>>
    <3>1. Busy' = Busy /\ Stored' = Stored
      BY <2>1, <2>4 DEF Busy, Stored
    <3> QED
      BY <1>1, <1>2, <2>4, <3>1 DEF TurnInv
  <2>5. CASE chat[q].pc = "count" /\ chat'[q].pc = "idle"
             /\ turns' = turns + 1 /\ UNCHANGED <<said, faults>>
    <3>1. Busy' = Busy \ {q} /\ q \in Busy /\ Stored' = Stored \ {q} /\ q \in Stored
      BY <2>1, <2>5 DEF Busy, Stored
    <3>2. Cardinality(Busy') = Cardinality(Busy) - 1
          /\ Cardinality(Stored') = Cardinality(Stored) - 1
      BY <1>2, <3>1, FS_RemoveElement
    <3> QED
      BY <1>1, <1>2, <2>5, <3>2 DEF TurnInv
  <2>6. CASE chat[q].pc # "idle" /\ chat'[q].pc = "idle"
             /\ faults' = faults + 1 /\ UNCHANGED <<turns, said>>
    <3>1. Busy' = Busy \ {q} /\ q \in Busy /\ Stored' = Stored \ {q}
      BY <2>1, <2>6 DEF Busy, Stored
    <3>2. Cardinality(Busy') = Cardinality(Busy) - 1
      BY <1>2, <3>1, FS_RemoveElement
    <3>3. Cardinality(Stored') >= Cardinality(Stored) - 1
      <4>1. CASE q \in Stored
        <5>1. Cardinality(Stored') = Cardinality(Stored) - 1
          BY <1>2, <3>1, <4>1, FS_RemoveElement
        <5> QED
          BY <1>2, <5>1
      <4>2. CASE q \notin Stored
        <5>1. Stored' = Stored
          BY <3>1, <4>2
        <5> QED
          BY <1>2, <5>1
      <4> QED
        BY <4>1, <4>2
    <3> QED
      BY <1>1, <1>2, <2>6, <3>2, <3>3 DEF TurnInv
  <2> QED
    BY <1>4, <2>2, <2>3, <2>4, <2>5, <2>6, ConverseStep
<1>5. ASSUME NEW w \in Workers, Job(w) \/ CallFails(w) \/ Die(w) \/ LoseLock(w) PROVE TurnInv'
  BY <1>3, <1>5, JobStep
<1>6. ASSUME NEW r \in Requests, Enqueue(r) \/ EnqueueFails(r) PROVE TurnInv'
  BY <1>3, <1>6, QueueStep
<1>7. ASSUME NEW a \in Articles,
             \/ CreateArticle(a)
             \/ \E r \in Requests : Update(r, a) \/ Publish(r, a) \/ Reindex(r, a)
      PROVE TurnInv'
  <2>1. UNCHANGED <<turns, said, chat, faults>>
    BY <1>7, StaffStep
  <2> QED
    BY <1>1, <1>3, <2>1
<1>8. CASE UNCHANGED vars
  BY <1>1, <1>3, <1>8 DEF vars, session, failing
<1> QED
  BY <1>4, <1>5, <1>6, <1>7, <1>8 DEF Next

-----------------------------------------------------------------------------
LEMMA Invariant == Spec => []IInv
<1>1. Init => IInv
  BY InitType, InitPublished, InitTurns DEF IInv
<1>2. IInv /\ [Next]_vars => IInv'
  BY NextType, NextPublished, NextTurns DEF IInv
<1> QED
  BY <1>1, <1>2, PTL DEF Spec

(* No body that was only ever a draft reaches the index or an answer         *)
(* (update, publish, indexArticle, retrieve).                              *)
THEOREM PublishedOnly == Spec => []OnlyPublishedIsUsed
<1>1. IInv => OnlyPublishedIsUsed
  BY DEF IInv, PublishedInv
<1> QED
  BY <1>1, Invariant, PTL

(* A session passes its cap by the messages in flight beside the last, and   *)
(* by those that failed before they were counted (handleMessage).          *)
THEOREM TurnsCapped == Spec => []CapHolds
<1>1. IInv => CapHolds
  <2> SUFFICES ASSUME IInv PROVE CapHolds
    OBVIOUS
  <2>1. /\ turns \in Nat /\ said \in Nat /\ faults \in Nat /\ TurnCap \in Nat
        /\ TurnInv
    BY LimitsAssumption DEF IInv, TypeOK
  <2>2. Busy \in SUBSET Chats /\ Stored \in SUBSET Busy
    BY DEF Busy, Stored
  <2>3. IsFiniteSet(Busy) /\ Cardinality(Busy) \in Nat
    BY <2>2, SetOfChats
  <2>4. Cardinality(Stored) \in Nat /\ Cardinality(Stored) <= Cardinality(Busy)
    BY <2>2, <2>3, FS_Subset, FS_CardinalityType
  <2>5. Cardinality(Chats) \in Nat
    BY SetOfChats
  <2> QED
    BY <2>1, <2>3, <2>4, <2>5 DEF TurnInv, CapHolds
<1> QED
  BY <1>1, Invariant, PTL

-----------------------------------------------------------------------------
(* The index.  The queue has one worker (a single process, concurrency 1).  *)
(* While no call failed and at most one job was interrupted, a published    *)
(* article has a job queued for it, or is being rebuilt, or is whole.       *)

OneWorker == \A v, w \in Workers : v = w

Pending(a) == waiting[a] > 0 \/ again[a] > 0 \/ \E r \in Requests : request[r] = a

Built(w, n, i) ==
    {[by |-> w, revision |-> n, index |-> k, embedded |-> TRUE] : k \in 1..i}

Building(w, a) ==
    /\ worker[w].pc # "idle" /\ Of(w) = a
    /\ \/ worker[w].pc = "read" /\ worker[w].index = 1
       \/ /\ worker[w].pc # "read" /\ worker[w].revision = article[a].revision
          /\ \/ worker[w].pc = "delete" /\ worker[w].index = 1
             \/ /\ worker[w].pc = "create"
                /\ worker[w].index \in 1..(Size[article[a].revision] + 1)
                /\ chunks[a] = Built(w, article[a].revision, worker[w].index - 1)
             \/ /\ worker[w].pc = "embed"
                /\ worker[w].index \in 1..Size[article[a].revision]
                /\ chunks[a] = Built(w, article[a].revision, worker[w].index - 1)
                                  \cup {Draft(w, FALSE)}

Away(a) == \A w \in Workers : worker[w].pc # "idle" => Of(w) # a

IndexInv(a) ==
    article[a].status = "PUBLISHED" =>
        Pending(a) \/ (\E w \in Workers : Building(w, a)) \/ (Away(a) /\ Whole(a))

(* Only a job that was interrupted is handed out again.                     *)
FirstHand ==
    crashes = 0 => /\ \A a \in Articles : again[a] = 0
                   /\ \A w \in Workers : worker[w].pc # "idle" => worker[w].job = "fresh"

SInv ==
    /\ IInv
    /\ FirstHand
    /\ faults = 0 /\ crashes < 2 => \A a \in Articles : IndexInv(a)

LEMMA InitWhole == Init => SInv
<1> SUFFICES ASSUME Init PROVE SInv
  OBVIOUS
<1>1. IInv
  BY InitType, InitPublished, InitTurns DEF IInv
<1>2. FirstHand
  BY DEF Init, FirstHand, Idle
<1>3. \A a \in Articles : IndexInv(a)
  BY DEF Init, IndexInv
<1> QED
  BY <1>1, <1>2, <1>3 DEF SInv

(* The fields a job's step sets, and those it leaves.                       *)
LEMMA WorkerMoves ==
    ASSUME TypeOK, NEW w \in Workers, worker[w].pc # "idle"
    PROVE  /\ \A to : worker' = [worker EXCEPT ![w].pc = to] =>
                 /\ worker'[w].pc = to /\ worker'[w].of = Of(w) /\ worker'[w].job = worker[w].job
                 /\ worker'[w].revision = worker[w].revision /\ worker'[w].index = worker[w].index
           /\ \A to, n : worker' = [worker EXCEPT ![w].revision = n, ![w].pc = to] =>
                 /\ worker'[w].pc = to /\ worker'[w].of = Of(w) /\ worker'[w].job = worker[w].job
                 /\ worker'[w].revision = n /\ worker'[w].index = worker[w].index
           /\ NextDraft(w) =>
                 /\ worker'[w].pc = "create" /\ worker'[w].of = Of(w)
                 /\ worker'[w].job = worker[w].job /\ worker'[w].revision = worker[w].revision
                 /\ worker'[w].index = worker[w].index + 1
<1> DEFINE r == worker[w]
<1>1. r \in JobWorker /\ Of(w) = r.of
  BY WorkerType DEF Of
<1>2. ASSUME NEW to, worker' = [worker EXCEPT ![w].pc = to]
      PROVE  /\ worker'[w].pc = to /\ worker'[w].of = r.of /\ worker'[w].job = r.job
             /\ worker'[w].revision = r.revision /\ worker'[w].index = r.index
  <2>1. worker'[w] = [r EXCEPT !.pc = to]
    BY <1>2 DEF TypeOK
  <2> HIDE DEF r
  <2> QED
    BY <1>1, <2>1 DEF JobWorker
<1>3. ASSUME NEW to, NEW n, worker' = [worker EXCEPT ![w].revision = n, ![w].pc = to]
      PROVE  /\ worker'[w].pc = to /\ worker'[w].of = r.of /\ worker'[w].job = r.job
             /\ worker'[w].revision = n /\ worker'[w].index = r.index
  <2>1. worker'[w] = [r EXCEPT !.revision = n, !.pc = to]
    BY <1>3 DEF TypeOK
  <2> HIDE DEF r
  <2> QED
    BY <1>1, <2>1 DEF JobWorker
<1>4. ASSUME NextDraft(w)
      PROVE  /\ worker'[w].pc = "create" /\ worker'[w].of = r.of /\ worker'[w].job = r.job
             /\ worker'[w].revision = r.revision /\ worker'[w].index = r.index + 1
  <2>1. worker'[w] = [r EXCEPT !.pc = "create", !.index = r.index + 1]
    BY <1>4 DEF TypeOK, NextDraft
  <2> HIDE DEF r
  <2> QED
    BY <1>1, <2>1 DEF JobWorker
<1> QED
  BY <1>1, <1>2, <1>3, <1>4

LEMMA ReadMoves ==
    ASSUME TypeOK, NEW w \in Workers, Read(w)
    PROVE  /\ worker'[w].of = Of(w) /\ worker'[w].job = worker[w].job
           /\ worker'[w].revision = article[Of(w)].revision
           /\ worker'[w].index = worker[w].index
           /\ worker'[w].pc \in {"delete", "clear"}
           /\ article[Of(w)].status = "PUBLISHED" => worker'[w].pc = "delete"
<1> DEFINE to == IF article[Of(w)].status = "PUBLISHED" THEN "delete" ELSE "clear"
           n == article[Of(w)].revision
<1>1. worker[w].pc # "idle"
  BY DEF Read, In
<1>2. worker' = [worker EXCEPT ![w].revision = n, ![w].pc = to]
  BY DEF Read
<1>3. to \in {"delete", "clear"} /\ (article[Of(w)].status = "PUBLISHED" => to = "delete")
  OBVIOUS
<1> HIDE DEF to, n
<1>4. /\ worker'[w].pc = to /\ worker'[w].of = Of(w) /\ worker'[w].job = worker[w].job
      /\ worker'[w].revision = n /\ worker'[w].index = worker[w].index
  BY <1>1, <1>2, WorkerMoves
<1> QED
  BY <1>3, <1>4 DEF n

(* A job ends or stays in its article.                                      *)
LEMMA JobGoesOn ==
    ASSUME TypeOK, NEW w \in Workers, Step(w) \/ CallFails(w)
    PROVE  \/ worker'[w].pc = "idle"
           \/ worker'[w].of = Of(w) /\ worker'[w].job = worker[w].job
<1>1. worker[w].pc # "idle"
  BY WorkerStep
<1>2. CASE Read(w)
  BY <1>2, ReadMoves
<1>3. CASE Delete(w)
  BY <1>1, <1>3, WorkerMoves DEF Delete
<1>4. CASE Create(w)
  BY <1>1, <1>4, WorkerMoves DEF Create
<1>5. CASE NextDraft(w)
  BY <1>1, <1>5, WorkerMoves
<1>6. CASE worker' = [worker EXCEPT ![w] = Idle]
  BY <1>6 DEF TypeOK, Idle
<1> QED
  BY <1>2, <1>3, <1>4, <1>5, <1>6 DEF Step, Clear, Embed, Finish, CallFails

LEMMA NextFirstHand == TypeOK /\ FirstHand /\ [Next]_vars => FirstHand'
<1> SUFFICES ASSUME TypeOK, FirstHand, [Next]_vars PROVE FirstHand'
  OBVIOUS
<1>1. CASE UNCHANGED <<again, worker, crashes>>
  BY <1>1 DEF FirstHand
<1>2. ASSUME NEW w \in Workers, Die(w) \/ LoseLock(w) PROVE FirstHand'
  BY <1>2 DEF Die, LoseLock, Stall, TypeOK, FirstHand
<1>3. ASSUME NEW w \in Workers, Step(w) \/ CallFails(w) PROVE FirstHand'
  <2>1. again' = again /\ crashes' = crashes
    BY <1>3 DEF Step, Read, Clear, Delete, Create, Embed, Finish, CallFails, Fault, jobs, failing
  <2>2. worker'[w].pc = "idle" \/ worker'[w].job = worker[w].job
    BY <1>3, JobGoesOn
  <2>3. worker[w].pc # "idle" /\ \A v \in Workers : v # w => worker'[v] = worker[v]
    BY <1>3, WorkerStep
  <2> QED
    BY <2>1, <2>2, <2>3 DEF FirstHand
<1>4. ASSUME NEW w \in Workers, NEW a \in Articles, TakeFresh(w, a) PROVE FirstHand'
  BY <1>4 DEF TakeFresh, Take, TypeOK, FirstHand, failing
<1>5. ASSUME NEW w \in Workers, NEW a \in Articles, TakeAgain(w, a) PROVE FirstHand'
  <2>1. again[a] # 0 /\ crashes' = crashes
    BY <1>5 DEF TakeAgain, Take, TypeOK, failing
  <2> QED
    BY <2>1 DEF FirstHand
<1>6. ASSUME NEW q \in Chats, Converse(q) PROVE FirstHand'
  BY <1>1, <1>6, ConverseStep
<1>7. ASSUME NEW r \in Requests, Enqueue(r) \/ EnqueueFails(r) PROVE FirstHand'
  BY <1>1, <1>7, QueueStep
<1>8. ASSUME NEW a \in Articles,
             \/ CreateArticle(a)
             \/ \E r \in Requests : Update(r, a) \/ Publish(r, a) \/ Reindex(r, a)
      PROVE FirstHand'
  BY <1>1, <1>8, StaffStep
<1>9. CASE UNCHANGED vars
  BY <1>1, <1>9 DEF vars, jobs, failing
<1> QED
  BY <1>2, <1>3, <1>4, <1>5, <1>6, <1>7, <1>8, <1>9 DEF Next, Job

(* An article the step is not about.                                        *)
Elsewhere(a) ==
    /\ article'[a] = article[a]
    /\ chunks'[a] = chunks[a]
    /\ Pending(a) => Pending(a)'
    /\ \A w \in Workers :
          \/ worker'[w] = worker[w]
          \/ /\ worker[w].pc # "idle" => Of(w) # a
             /\ worker'[w].pc # "idle" => Of(w)' # a

LEMMA IndexKept ==
    ASSUME NEW a \in Articles, IndexInv(a), Elsewhere(a)
    PROVE  IndexInv(a)'
<1>1. ASSUME NEW w \in Workers, Building(w, a) PROVE Building(w, a)'
  BY <1>1 DEF Elsewhere, Building, Of, Draft, Built
<1>2. Away(a) => Away(a)'
  BY DEF Elsewhere, Away, Of
<1>3. Whole(a) => Whole(a)'
  BY DEF Elsewhere, Whole
<1> QED
  BY <1>1, <1>2, <1>3 DEF IndexInv, Elsewhere

LEMMA BuiltNext ==
    ASSUME NEW w \in Workers, NEW n \in Revisions, NEW i \in Nat
    PROVE  Built(w, n, i + 1) =
              Built(w, n, i) \cup {[by |-> w, revision |-> n, index |-> i + 1, embedded |-> TRUE]}
<1>1. 1..(i + 1) = (1..i) \cup {i + 1}
  OBVIOUS
<1> QED
  BY <1>1 DEF Built

(* One step of the worker's job, in the article it rebuilds.                *)
LEMMA IndexStep ==
    ASSUME OneWorker, TypeOK, NEW w \in Workers, Step(w), \A a \in Articles : IndexInv(a)
    PROVE  \A a \in Articles : IndexInv(a)'
<1>1. worker[w].pc # "idle"
  BY WorkerStep
<1>2. PICK a \in Articles : a = Of(w)
  BY <1>1, WorkerType
<1>3. /\ worker[w] \in JobWorker /\ worker[w].revision \in Revisions /\ worker[w].index \in Nat
      /\ article[a].revision \in Revisions /\ Size[article[a].revision] \in Nat
  BY <1>1, WorkerType, ArticleType, SizeAssumption DEF JobWorker
<1>4. UNCHANGED <<article, request, waiting, again>>
  BY DEF Step, Read, Clear, Delete, Create, Embed, Finish, staff, jobs
<1>5. \A b \in Articles : b # a => chunks'[b] = chunks[b]
  BY <1>2 DEF Step, Read, Clear, Delete, Create, Embed, Finish, TypeOK
<1>6. worker'[w].pc = "idle" \/ worker'[w].of = a
  BY <1>2, JobGoesOn
<1>7. ASSUME NEW b \in Articles, b # a PROVE IndexInv(b)'
  <2>1. Elsewhere(b)
    BY <1>2, <1>4, <1>5, <1>6, <1>7 DEF OneWorker, Elsewhere, Pending, Of
  <2> QED
    BY <2>1, IndexKept
<1>8. ASSUME article[a].status = "PUBLISHED", ~Pending(a), Building(w, a)
      PROVE  Building(w, a)' \/ (Away(a)' /\ Whole(a)')
  <2> DEFINE n == article[a].revision
             i == worker[w].index
  <2>1. CASE Read(w)
    <3>1. worker'[w].pc = "delete" /\ worker'[w].of = a /\ worker'[w].revision = n
          /\ worker'[w].index = i /\ i = 1
      BY <1>2, <1>8, <2>1, ReadMoves DEF Read, In, Building
    <3> QED
      BY <1>4, <3>1 DEF Building, Of
  <2>2. CASE Clear(w)
    BY <1>8, <2>2 DEF Clear, In, Building
  <2>3. CASE Delete(w)
    <3>1. /\ worker'[w].pc = "create" /\ worker'[w].of = a /\ worker'[w].revision = n
          /\ worker'[w].index = 1
      BY <1>1, <1>2, <1>8, <2>3, WorkerMoves DEF Delete, In, Building
    <3>2. chunks'[a] = {}
      BY <1>2, <2>3 DEF Delete, TypeOK
    <3>3. Built(w, n, 1 - 1) = {}
      BY DEF Built
    <3> QED
      BY <1>3, <1>4, <3>1, <3>2, <3>3 DEF Building, Of
  <2>4. CASE Create(w)
    <3>1. /\ worker[w].pc = "create" /\ worker[w].revision = n
          /\ chunks[a] = Built(w, n, i - 1) /\ i \in 1..(Size[n] + 1)
      BY <1>8, <2>4 DEF Create, In, Building
    <3>2. /\ worker'[w].pc = "embed" /\ worker'[w].of = a /\ worker'[w].revision = n
          /\ worker'[w].index = i /\ worker[w].revision = n
          /\ chunks[a] = Built(w, n, i - 1)
      BY <1>1, <1>2, <2>4, <3>1, WorkerMoves DEF Create
    <3>3. i \in 1..Size[n]
      BY <1>3, <2>4, <3>1 DEF Create
    <3>4. chunks'[a] = Built(w, n, i - 1) \cup {Draft(w, FALSE)}
      BY <1>2, <2>4, <3>2 DEF Create, TypeOK
    <3>5. Draft(w, FALSE)' = Draft(w, FALSE)
      BY <3>2 DEF Draft
    <3> QED
      BY <1>4, <3>2, <3>3, <3>4, <3>5 DEF Building, Of, Built
  <2>5. CASE Embed(w)
    <3>1. /\ worker'[w].pc = "create" /\ worker'[w].of = a /\ worker'[w].revision = n
          /\ worker'[w].index = i + 1 /\ worker[w].revision = n
          /\ chunks[a] = Built(w, n, i - 1) \cup {Draft(w, FALSE)} /\ i \in 1..Size[n]
      BY <1>1, <1>2, <1>8, <2>5, WorkerMoves DEF Embed, In, Building
    <3>2. /\ Draft(w, FALSE) \notin Built(w, n, i - 1)
          /\ Draft(w, TRUE) = [by |-> w, revision |-> n, index |-> i, embedded |-> TRUE]
      BY <3>1 DEF Draft, Built
    <3>3. chunks'[a] = (chunks[a] \ {Draft(w, FALSE)}) \cup {Draft(w, TRUE)}
      BY <1>2, <2>5, <3>1 DEF Embed, TypeOK
    <3>4. i - 1 \in Nat /\ (i - 1) + 1 = i /\ i + 1 \in 1..(Size[n] + 1) /\ (i + 1) - 1 = i
      BY <1>3, <3>1
    <3>5. Built(w, n, i) = Built(w, n, i - 1) \cup {Draft(w, TRUE)}
      <4> DEFINE k == i - 1
      <4>1. k \in Nat /\ k + 1 = i /\ n \in Revisions
        BY <1>3, <3>4
      <4> HIDE DEF k, i, n
      <4>2. Built(w, n, k + 1) =
               Built(w, n, k) \cup {[by |-> w, revision |-> n, index |-> k + 1, embedded |-> TRUE]}
        BY <4>1, BuiltNext
      <4> QED
        BY <3>2, <4>1, <4>2 DEF k
    <3>6. chunks'[a] = Built(w, n, i)
      <4> DEFINE B == Built(w, n, i - 1)
                 x == Draft(w, FALSE)
                 y == Draft(w, TRUE)
      <4>1. chunks[a] = B \cup {x} /\ x \notin B /\ chunks'[a] = (chunks[a] \ {x}) \cup {y}
        BY <3>1, <3>2, <3>3
      <4> HIDE DEF B, x, y
      <4>2. chunks'[a] = B \cup {y}
        BY <4>1
      <4> QED
        BY <3>5, <4>2 DEF B, y
    <3> QED
      BY <1>4, <3>1, <3>4, <3>6 DEF Building, Of, Built
  <2>6. CASE Finish(w)
    <3>1. worker' = [worker EXCEPT ![w] = Idle] /\ chunks' = chunks
      BY <2>6 DEF Finish
    <3>2. i = Size[n] + 1 /\ chunks[a] = Built(w, n, Size[n])
      BY <1>3, <1>8, <2>6 DEF Finish, In, Building
    <3>3. Away(a)'
      BY <3>1 DEF OneWorker, Away, Idle, TypeOK
    <3>4. Whole(a)'
      BY <1>4, <3>1, <3>2 DEF Whole, Built
    <3> QED
      BY <3>3, <3>4
  <2> QED
    BY <2>1, <2>2, <2>3, <2>4, <2>5, <2>6 DEF Step
<1>9. IndexInv(a)'
  <2> SUFFICES ASSUME article[a].status = "PUBLISHED", ~Pending(a)
               PROVE  (\E v \in Workers : Building(v, a)') \/ (Away(a)' /\ Whole(a)')
    BY <1>4 DEF IndexInv, Pending
  <2>1. ~Away(a)
    BY <1>1, <1>2 DEF Away
  <2>2. Building(w, a)
    BY <2>1 DEF IndexInv, OneWorker
  <2> QED
    BY <1>8, <2>2
<1> QED
  BY <1>7, <1>9

(* A job taken from the queue, or interrupted.                              *)
LEMMA IndexTake ==
    ASSUME OneWorker, TypeOK, NEW w \in Workers, NEW a \in Articles,
           TakeFresh(w, a) \/ TakeAgain(w, a), \A b \in Articles : IndexInv(b)
    PROVE  \A b \in Articles : IndexInv(b)'
<1>1. /\ worker[w].pc = "idle"
      /\ worker'[w].pc = "read" /\ worker'[w].of = a /\ worker'[w].index = 1
      /\ UNCHANGED <<article, request, chunks>>
  BY DEF TakeFresh, TakeAgain, Take, TypeOK, staff, In
<1>2. \A b \in Articles : b # a => waiting'[b] = waiting[b] /\ again'[b] = again[b]
  BY DEF TakeFresh, TakeAgain, TypeOK
<1>3. ASSUME NEW b \in Articles, b # a PROVE IndexInv(b)'
  <2>1. Elsewhere(b)
    BY <1>1, <1>2, <1>3 DEF OneWorker, Elsewhere, Pending, Of
  <2> QED
    BY <2>1, IndexKept
<1>4. Building(w, a)'
  BY <1>1 DEF Building, Of
<1> QED
  BY <1>3, <1>4 DEF IndexInv

LEMMA IndexStall ==
    ASSUME OneWorker, TypeOK, FirstHand, NEW w \in Workers, Die(w) \/ LoseLock(w), crashes' < 2,
           \A a \in Articles : IndexInv(a)
    PROVE  \A a \in Articles : IndexInv(a)'
<1>1. worker[w].pc # "idle" /\ crashes' = crashes + 1 /\ UNCHANGED <<article, request, chunks, waiting>>
  BY DEF Die, LoseLock, Stall, In, staff
<1>2. PICK a \in Articles : a = Of(w)
  BY <1>1, WorkerType
<1>3. worker[w].job = "fresh"
  BY <1>1 DEF FirstHand, TypeOK
<1>4. again' = [again EXCEPT ![a] = again[a] + 1]
  BY <1>2, <1>3 DEF Die, LoseLock, Stall
<1>5. worker'[w].pc = "idle" \/ worker'[w].of = a
  <2>1. worker[w] \in JobWorker
    BY <1>1, WorkerType
  <2>2. CASE worker' = [worker EXCEPT ![w] = Idle]
    BY <2>2 DEF TypeOK, Idle
  <2>3. CASE worker' = [worker EXCEPT ![w] = [worker[w] EXCEPT !.job = "lost"]]
    <3>1. worker'[w] = [worker[w] EXCEPT !.job = "lost"]
      BY <2>3 DEF TypeOK
    <3> QED
      BY <1>2, <2>1, <3>1 DEF JobWorker, Of
  <2> QED
    BY <2>2, <2>3 DEF Die, LoseLock, Stall
<1>6. Pending(a)'
  BY <1>4 DEF Pending, TypeOK
<1>7. ASSUME NEW b \in Articles, b # a PROVE IndexInv(b)'
  <2>1. again'[b] = again[b]
    BY <1>4, <1>7 DEF TypeOK
  <2>2. Elsewhere(b)
    BY <1>1, <1>2, <1>5, <1>7, <2>1 DEF OneWorker, Elsewhere, Pending, Of
  <2> QED
    BY <2>2, IndexKept
<1> QED
  BY <1>6, <1>7 DEF IndexInv

(* Staff leave a published article with a job on its way.                   *)
LEMMA IndexStaff ==
    ASSUME TypeOK, NEW a \in Articles,
           \/ CreateArticle(a)
           \/ \E r \in Requests : Update(r, a) \/ Publish(r, a) \/ Reindex(r, a),
           \A b \in Articles : IndexInv(b)
    PROVE  \A b \in Articles : IndexInv(b)'
<1> USE DEF jobs
<1>1. UNCHANGED <<chunks, waiting, again, worker>>
  BY StaffStep
<1>2. ASSUME article'[a].status = "PUBLISHED" => Pending(a)',
             \A b \in Articles : b # a => article'[b] = article[b],
             \A r \in Requests : request[r] # NoOne => request'[r] = request[r]
      PROVE  \A b \in Articles : IndexInv(b)'
  <2>1. ASSUME NEW b \in Articles, b # a PROVE IndexInv(b)'
    <3>1. \A r \in Requests : request[r] = b => request'[r] = b
      BY <1>2, NoOneAssumption
    <3>2. Elsewhere(b)
      BY <1>1, <1>2, <2>1, <3>1 DEF Elsewhere, Pending
    <3> QED
      BY <3>2, IndexKept
  <2> QED
    BY <1>2, <2>1 DEF IndexInv
<1>3. CASE CreateArticle(a)
  <2>1. article'[a].status = "DRAFT"
    BY <1>3 DEF CreateArticle, TypeOK
  <2> QED
    BY <1>2, <1>3, <2>1 DEF CreateArticle, TypeOK
<1>4. ASSUME NEW r \in Requests, NEW row, NEW queues, Write(r, a, row, queues),
             row.status = "PUBLISHED" => queues
      PROVE  \A b \in Articles : IndexInv(b)'
  <2>1. article' = [article EXCEPT ![a] = row] /\ request[r] = NoOne
    BY <1>4 DEF Write
  <2>2. queues => request'[r] = a
    BY <1>4 DEF Write, TypeOK
  <2>3. \A s \in Requests : request[s] # NoOne => request'[s] = request[s]
    BY <1>4, <2>1 DEF Write, TypeOK
  <2> QED
    BY <1>2, <1>4, <2>1, <2>2, <2>3 DEF Pending, TypeOK
<1>5. ASSUME NEW r \in Requests, Update(r, a) PROVE \A b \in Articles : IndexInv(b)'
  <2>1. PICK row \in Rows(a) : Write(r, a, row, row.status = "PUBLISHED")
    BY <1>5 DEF Update
  <2> QED
    BY <1>4, <2>1
<1>6. ASSUME NEW r \in Requests, Publish(r, a) PROVE \A b \in Articles : IndexInv(b)'
  BY <1>4, <1>6 DEF Publish
<1>7. ASSUME NEW r \in Requests, Reindex(r, a) PROVE \A b \in Articles : IndexInv(b)'
  BY <1>4, <1>7 DEF Reindex
<1> QED
  BY <1>3, <1>5, <1>6, <1>7

LEMMA NextWhole == ASSUME OneWorker PROVE SInv /\ [Next]_vars => SInv'
<1> SUFFICES ASSUME SInv, [Next]_vars PROVE SInv'
  OBVIOUS
<1>1. TypeOK /\ FirstHand /\ IInv' /\ FirstHand'
  BY NextType, NextPublished, NextTurns, NextFirstHand DEF SInv, IInv
<1>2. SUFFICES ASSUME faults' = 0, crashes' < 2,
                      faults = 0 /\ crashes < 2 => \A a \in Articles : IndexInv(a)
               PROVE  \A a \in Articles : IndexInv(a)'
  BY <1>1 DEF SInv
<1>3. faults \in Nat /\ crashes \in Nat
  BY <1>1 DEF TypeOK
<1>4. ASSUME UNCHANGED <<article, chunks, worker, waiting, again, request>>,
             faults = 0 /\ crashes < 2
      PROVE  \A a \in Articles : IndexInv(a)'
  <2>1. \A a \in Articles : Elsewhere(a)
    BY <1>4 DEF Elsewhere, Pending
  <2> QED
    BY <1>2, <1>4, <2>1, IndexKept
<1>5. ASSUME NEW q \in Chats, Converse(q) PROVE \A a \in Articles : IndexInv(a)'
  <2>1. /\ UNCHANGED <<article, chunks, worker, waiting, again, request, crashes>>
        /\ faults' = faults \/ faults' = faults + 1
    BY <1>1, <1>5, ConverseStep
  <2> QED
    BY <1>2, <1>3, <1>4, <2>1
<1>6. ASSUME NEW w \in Workers, Step(w) PROVE \A a \in Articles : IndexInv(a)'
  <2>1. faults' = faults /\ crashes' = crashes
    BY <1>6 DEF Step, Read, Clear, Delete, Create, Embed, Finish, failing
  <2> QED
    BY <1>1, <1>2, <1>6, <2>1, IndexStep
<1>7. ASSUME NEW w \in Workers, NEW a \in Articles, TakeFresh(w, a) \/ TakeAgain(w, a)
      PROVE  \A b \in Articles : IndexInv(b)'
  <2>1. faults' = faults /\ crashes' = crashes
    BY <1>7 DEF TakeFresh, TakeAgain, Take, failing
  <2> QED
    BY <1>1, <1>2, <1>7, <2>1, IndexTake
<1>8. ASSUME NEW w \in Workers, CallFails(w) PROVE FALSE
  BY <1>2, <1>3, <1>8 DEF CallFails, Fault
<1>9. ASSUME NEW w \in Workers, Die(w) \/ LoseLock(w) PROVE \A a \in Articles : IndexInv(a)'
  <2>1. faults' = faults /\ crashes' = crashes + 1
    BY <1>9 DEF Die, LoseLock, Stall
  <2>2. faults = 0 /\ crashes < 2
    BY <1>2, <1>3, <2>1
  <2> QED
    BY <1>1, <1>2, <1>9, <2>2, IndexStall
<1>10. ASSUME NEW r \in Requests, Enqueue(r) PROVE \A a \in Articles : IndexInv(a)'
  <2>1. /\ UNCHANGED <<article, chunks, worker, again, faults, crashes>>
        /\ request[r] \in Articles
        /\ waiting' = [waiting EXCEPT ![request[r]] = waiting[request[r]] + 1]
        /\ request' = [request EXCEPT ![r] = NoOne]
    BY <1>1, <1>10 DEF Enqueue, TypeOK, failing
  <2>2. ASSUME NEW a \in Articles PROVE Elsewhere(a)
    BY <1>1, <2>1, <2>2 DEF Elsewhere, Pending, TypeOK
  <2> QED
    BY <1>2, <2>1, <2>2, IndexKept
<1>11. ASSUME NEW r \in Requests, EnqueueFails(r) PROVE FALSE
  BY <1>2, <1>3, <1>11 DEF EnqueueFails, Fault
<1>12. ASSUME NEW a \in Articles,
              \/ CreateArticle(a)
              \/ \E r \in Requests : Update(r, a) \/ Publish(r, a) \/ Reindex(r, a)
       PROVE \A b \in Articles : IndexInv(b)'
  <2>1. UNCHANGED <<faults, crashes>>
    BY <1>1, <1>12, StaffStep
  <2> QED
    BY <1>1, <1>2, <1>12, <2>1, IndexStaff
<1>13. CASE UNCHANGED vars
  BY <1>2, <1>4, <1>13 DEF vars, staff, jobs, failing
<1> QED
  BY <1>5, <1>6, <1>7, <1>8, <1>9, <1>10, <1>11, <1>12, <1>13 DEF Next, Job

(* With one worker, a published article with nothing left to do is          *)
(* searchable by its latest body, all of it, once each: no edit during a    *)
(* rebuild is missed, and one interrupted job is made up for.              *)
THEOREM SettledArticlesWhole == ASSUME OneWorker PROVE Spec => []SettledIsWhole
<1>1. SInv => SettledIsWhole
  <2> SUFFICES ASSUME SInv, NEW a \in Articles, faults = 0, crashes < 2, Settled(a),
                      article[a].status = "PUBLISHED"
               PROVE  Whole(a)
    BY DEF SettledIsWhole
  <2>1. TypeOK /\ IndexInv(a)
    BY DEF SInv, IInv
  <2>2. ~Pending(a)
    BY <2>1 DEF Settled, Pending
  <2>3. \A w \in Workers : ~Building(w, a)
    <3> SUFFICES ASSUME NEW w \in Workers, Building(w, a) PROVE FALSE
      OBVIOUS
    <3>1. worker[w].pc # "idle" /\ Of(w) = a
      BY DEF Building
    <3>2. worker[w] = Idle \/ Of(w) # a
      BY DEF Settled
    <3> QED
      BY <3>1, <3>2 DEF Idle
  <2> QED
    BY <2>1, <2>2, <2>3 DEF IndexInv
<1>2. SInv /\ [Next]_vars => SInv'
  BY NextWhole
<1> QED
  BY <1>1, <1>2, InitWhole, PTL DEF Spec
====
