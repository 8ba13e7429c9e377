# Atlas RAG: a TLA+ verification

Atlas RAG is a retrieval-augmented question answering service: users upload
documents to knowledge bases, a Celery worker converts, chunks and embeds them
into PostgreSQL and Qdrant, and a chat endpoint retrieves evidence and streams
an answer. This directory holds TLA+ modules translated from that code, TLC
configurations that check small instances of them, and proofs that TLAPS checks
for every instance. Paths below are relative to `src/app/` unless they begin
with `src/`.

## 1. Inventory

| Part | State it keeps | Operations | Talks to |
|---|---|---|---|
| Document API (`api/document.py`) | `documents` rows, uploaded files | upload, delete, list, status | PostgreSQL, disk, Qdrant, broker |
| Indexing task (`tasks/document_index.py`, `services/document_index_service.py`, `queue.py`, `core/celery.py`) | `documents.status`, lock key, retry count, dead queue, progress key | one attempt: lock, heartbeat, convert, replace chunks, embed, finish; retry, dead letter, late ack | broker, Redis, PostgreSQL, Qdrant, file |
| Chunk replacement and vector synchronisation (`rag/chunker.py`, `rag/embeddings.py`, `rag/vectorstore.py`) | `documents_chunks`, `chunk_embeddings`, Qdrant points | replace the chunk rows, upsert points, list and delete stale points | PostgreSQL, Qdrant |
| Garbage collection (`services/gc_service.py`, `src/scripts/gc.py`) | none of its own | collect stale documents, orphan files and assets, orphan points | all stores of the pipeline |
| Knowledge bases (`api/knowledge_base.py`, `api/deps.py`) | `knowledge_bases`, members and roles | create, update, delete, add, change and remove members | PostgreSQL |
| RAG answering (`services/rag_service.py`, `api/rag.py`, `rag/answering.py`, `rag/query_rewriter.py`) | event queue of one request, conversation rows | stream an answer, cancel, degrade, persist | model services, retrieval, memory |
| Short-term memory and context (`services/short_term_memory.py`, `services/conversation_context.py`, `api/conversation.py`) | message cache in Redis, conversation summary | append, load, rebuild, compact, delete | Redis, PostgreSQL, model |
| Long-term memory (`services/memory_service.py`, `services/memory_extractor.py`, `api/memory.py`) | `user_memories`, pending counter | remember, extract, edit | PostgreSQL, model |
| Vision slots (`rag/distributed_limit.py`, `rag/vision.py`) | a Redis sorted set of leases | acquire, release, expire | Redis, model |
| Retrieval (`rag/embeddings.py`, `rag/parent_context.py`, `services/token_budget.py`) | BM25 cache | dense and lexical search, fusion, parent windows, budget | PostgreSQL, Qdrant |
| Authentication, rate limit, cache (`api/auth.py`, `auth/jwt_utils.py`, `rate_limiter.py`, `cache.py`) | counters, cached user names, tokens | login, register, refresh | Redis, PostgreSQL |
| Frontend HTTP client (`src/frontend/src/api/http.ts`) | tokens, one shared refresh promise | request, refresh, stream | the API |
| Chat view (`src/frontend/src/views/ChatView.vue`) | the text shown and the text to show of one answer | read events, animate, settle, give up | the HTTP client |
| Configuration, logging, health, start-up; other views; evaluation scripts | nothing that changes | | |

How they interact: the upload handler hands a document to the task through the
broker, and from then on the API and the worker processes share four stores
without a common transaction. Delete requests and the garbage collector touch
the same stores with no lock in common with the task. The streaming endpoint
runs the synchronous pipeline in a thread of its own and passes events through a
bounded queue. The cache of messages is written beside the table it copies.

What is hard in this system:

* **Interleaving.** Delete requests, uploads, indexing attempts and the garbage
  collector run at once on the same document, and only indexing attempts lock.
* **Crashes and redelivery.** Acknowledgements are late, a lost worker's message
  returns, and a slow task's message is delivered twice.
* **Partial failure.** A Qdrant request may act and not be answered; batches are
  not atomic; several errors are swallowed on purpose.
* **Stale reads.** The lock is checked between phases, role checks and
  conversation state are read before they are used.
* **Timeouts.** Lock TTL, heartbeat, slot leases and retry countdowns race.
* **Boundaries.** Budgets in tokens, overlaps as large as chunks, windows at the
  ends of a document, ranks that tie.

What makes each part correct:

* Pipeline: at most one execution of a document is at work; an indexed document
  has exactly its chunks' points in Qdrant; a cleanup never removes live points;
  no document waits for nobody; every document settles; no lock stays.
* Garbage collection: nothing that is live, or about to be, is removed.
* Knowledge bases: one owner and one membership per user, whoever acts on a check
  that no longer holds; no search outside the asker's scope; no document lost with
  its knowledge base.
* Streaming: what is shown in the end is what is stored; the thread ends; who stays
  sees an answer or an error.
* Memory: no message lost from summary and window together; every question drawn
  from once, and only when its asker allows it.
* Tokens: refused requests share one refresh; the tokens are those of the user shown.
* Vision slots: no more holders than slots while leases last; slots come back.
* Retrieval: the budget is never exceeded, fusion is monotone, citations exist.
* Chunking: nothing of a document is lost, a chunk fits and has the right headings
  and page.

## 2. Modules

| Module | What it is |
|---|---|
| `DocPublication` | abstract specification: what the pipeline promises to those who search |
| `DocIndex` | the pipeline in detail: API handlers, task, attempt, lock, broker, crashes |
| `DocGc` | the garbage collector composed with `DocIndex`: it EXTENDS it and shares its stores |
| `DocumentProofs` | of `DocIndex`: types and `NoSilentStop`; the inductive invariant, the safety theorems, and that it implements `DocPublication`; then the same of the pipeline with the collector, and the collector's safety |
| `VisionSlots`, `VisionSlotsProofs` | image coroutines of a conversion and the lease semaphore in Redis |
| `Chunking` | PDF and Markdown to chunks, as operators |
| `Ranking` | ranked lists to evidence and citations, as operators |
| `TokenBudget` | counting and cutting to token budgets, summaries and history, as operators |
| `Algorithms` | one call of an operator of these three, and what every result must satisfy |
| `AlgorithmInvariants` | what holds after every round of each of their loops |
| `AlgorithmProofs` | loops, sorting and sums in general; the properties of `Ranking` and `TokenBudget`, for every input |
| `ChunkingProofs` | the properties of `Chunking`, for every input |
| `KnowledgeBase`, `KnowledgeBaseProofs` | roles, members, documents and the cached keyword index beside each other |
| `Conversation`, `ConversationProofs` | a conversation in the table, its window in Redis, compaction, extraction, deletion |
| `AnswerStream`, `AnswerStreamProofs` | the thread, queue, response and view of one streamed answer |
| `TokenRefresh`, `TokenRefreshProofs` | the requests of a tab and its session |
| `MCDocIndex`, `MCDocGc`, `MCVisionSlots`, `MCKnowledgeBase`, `MCConversation`, `MCAnswer`, `MCSession`, `MCAlgorithms` | instances for TLC: fault budgets, symmetry, constraints |

`DocGc` composes with the pipeline by extension: every step of `DocIndex!Next`
is a step of `GcNext`, and both implement `DocPublication`, whose `Discard` is what
the collector does to a document that is not shown as indexed. `VisionSlots` refines what happens inside one step of the
pipeline, `Convert`, and shares no variable with it: a conversion that fails or
is cancelled there is the failing branch of `Convert` here. `Chunking` is the
content of the same step. `Conversation` and `AnswerStream` are two views of
`run_rag_answer`: the first has many requests and what they read and write of the
conversation, the second one request and whom it talks to; the steps they have in
common are `CommitUser`/`Ask` and `CommitAnswer`/`Persist`. The documents of
`KnowledgeBase` are those of `DocIndex`, seen only as rows that hold chunk ids.

### `DocIndex`

A step is the longest piece of code that touches one shared store once: a
transaction with no foreign call inside it, a Redis command, a Qdrant request.
The correspondence:

| State | Code |
|---|---|
| `status`, `chunks`, `nextId` | `documents.status`, committed `documents_chunks` rows, their id sequence |
| `file`, `points` | the uploaded file, ids of the Qdrant points whose payload names the document |
| `lock` | `lock:doc_index:<id>`, here with the execution whose `SET NX` made it |
| `queue`, `dead` | broker messages by retry count, `queue:doc_index:dead` |
| `upload`, `del`, `delRows` | where an upload or delete request is; chunk rows its open transaction has deleted |
| `pc`, `job`, `attempt`, `redelivered` | a worker process and its delivery |
| `locked`, `lost`, `ids`, `todo`, `outcome` | `lock_acquired`, `lock_lost`, chunk ids read by `generate_for_chunks`, what is left to upsert or delete, how the attempt ended |
| `dropped`, `purged`, `faults` | history, and the bound on faults |

| Actions | Code |
|---|---|
| `SaveFile`, `InsertRow`, `Enqueue`, `MarkEnqueueFailed` | `upload_document`, in order; a failed insert removes the file, a failed enqueue marks the row |
| `DeleteBegin`, `DeleteVectors`, `DeleteCommit`, `DeleteFiles` | `delete_document`; its transaction is open, and its row locks held, across the Qdrant request |
| `Take`, `Redeliver`, `WorkerLost`, `Ack` | the broker and Celery under `acks_late` and `reject_on_worker_lost` |
| `Acquire`, `AcquireError`, `LockBusy` | `acquire_doc_index_lock` and the three ways it ends |
| `Load`, `Convert`, `ReplaceChunks`, `ReadChunks`, `UpsertBatch`, `ListPoints`, `DeleteStale`, `CommitEmbeddings`, `Finish`, `Release` | `run_document_index` with `chunk_document_async` and `generate_for_chunks` |
| `AttemptFailed`, `RecordDead`, `PublishRetry` | the `except` branches of `index_document_task` |
| `Heartbeat`, `LockExpires`, `Stall` | the heartbeat thread, the TTL, a key that vanishes under a live heartbeat |
| `UploadCrash`, `DeleteCrash` | death of the API process |

Abstractions, each with its reason:

* Only the upload handler enqueues, so a document has one task id. The release
  and the refresh compare task ids, so for executions of one document they only
  test that the key is there. The model keeps who made the key, as history.
* `ensure_lock` reads a flag that only this execution's heartbeat sets, so it is
  part of the step that follows it.
* A chunk id stands for one Qdrant upsert batch (128 chunks in the code).
* A successful refresh of the lock is a stutter; what it does is keep
  `LockExpires` disabled (`Refreshed`).
* The progress key is written by everyone and read by no decision; it is left out,
  and so are retry countdowns: a waiting message may be taken at any time.
* Documents share nothing but the id sequence. One delete request is at work on
  a document at a time, and a document is uploaded once.
* A document row that is deleted while the task waits for it appears to the task
  as a missing row, an update of no row or a foreign key error, as PostgreSQL
  shows it; sessions do not flush by themselves (`core/database.py:8`), so the
  embedding rows are inserted only at the commit.

### `DocGc`

| State | Code |
|---|---|
| `old` | rows whose `updated_at` is before the age limit; an update of the row takes it out |
| `gc`, `stale` | where `run_global_gc` is, and what is left of `stale_docs` |
| `known`, `liveDocs`, `liveChunks`, `doomed` | `known`, `live_doc_ids`, `live_chunk_ids`, `delete_ids` |
| `gone` | history: documents that requests have deleted during the run |

| Actions | Code |
|---|---|
| `GcStart`, `GcPurge`, `GcUnlink`, `GcDeleteRows`, `GcVanished` | `collect_stale_documents`: query, then per document points, files, rows; a document that is gone when its object is read anew ends the run |
| `GcReadPaths`, `GcDeleteFiles` | `collect_orphan_files` |
| `GcReadDocs`, `GcReadChunks`, `GcScan`, `GcDeletePoints`, `GcDeletePointsFails` | `collect_orphan_qdrant_points`: two queries, the scroll, the deletion |
| `Age`, `GcCrash` | time; death of the script |

With `Quiet` uploads and executions are stopped while the collector runs, and delete
requests are not. The code does not enforce it; the passing runs show what an operator
gains by stopping them, section 5 what happens otherwise. `Age` takes place only
when the upload request is over and no execution is inside an attempt, because
the limits are hours and days. The scroll is one step: what it reads later can
only be nearer to what the model deletes. Caption files and extracted images follow their source file and are
left out; so are the dry run and the skip flags, which only leave out stages.

### `VisionSlots`

| State | Code |
|---|---|
| `pc` | where the coroutine `_extract_image_text_async` of an image is, down to `vision_global_slot` |
| `calls` | `context.calls` |
| `wait`, `timer` | what is left until `deadline`, and until the timeout of Redis or of the model |
| `inflight`, `answer` | the acquire script on its way to Redis, its answer on the way back |
| `leases`, `left`, `keyLeft` | the sorted set `semaphore:rag:vision`: members, time left by their scores, the key's own TTL |

| Actions | Code |
|---|---|
| `StartOcr`, `EndOcr`, `EnterLocal` | the two semaphores of a document and its caption budget; a cached caption needs no slot |
| `Try`, `Answered`, `AcquireError`, `Resume` | the loop of `vision_global_slot` |
| `Eval` | the Lua script, which Redis may run after its sender has gone |
| `EndCall`, `Release` | the model call and the `finally` |
| `Cancel` | the document timeout, or a failing image: `asyncio` cancels the coroutines, but not a thread that is talking to Redis |
| `Tick`, `Lose`, `Crash` | time; a script that never arrives; death of the process |

Abstractions: each image is processed once and a request's token is its image.
The Redis client is built without retries, so a script is sent at most once. The
semaphores of `asyncio` are the number of coroutines inside them; who is next is
left open. The caption cache is the choice in `EnterLocal`.

`CallTime` is all the time the model's client may take, and
`VisionAssumption` demands `TTL >= CallTime + ReplyTime`, which is how
`core/config.py:117-120` computes the lower bound of the TTL: the `5.0` there is
the `socket_timeout` of the Redis client (`rag/distributed_limit.py:49`). With
`VISION_MAX_RETRIES` above its default of 0 the client also pauses between its
attempts, and its timeout is counted per socket operation; the bound leaves no
room for either, so the theorems speak of settings where `CallTime` includes
them.

### `KnowledgeBase`

| State | Code |
|---|---|
| `kbs`, `creator`, `members` | `knowledge_bases` and `knowledge_base_members` |
| `doc`, `uploader` | `documents.kb_id`, the committed chunk ids, `documents.user_id` |
| `pending`, `nextId` | uncommitted chunk rows of an indexing attempt, their id sequence |
| `index` | `_bm25_indexes`, by the key of `_bm25_key` |
| `call` | the requests between the check of a role and what they do after it |
| `into`, `late` | history: where a document was uploaded to; scopes a chunk has entered below the newest |

| Actions | Code |
|---|---|
| `CreateKb` | `create_kb`: the row and the owner's membership in one transaction |
| `BeginAny`, `BeginAsk` | `check_kb_role` at the head of each handler, `_ensure_kb_viewer` |
| `Lookup`, `Insert` | `add_member` looks, then inserts; `uq_kb_member` and the foreign key refuse |
| `UpdateMemberRole`, `RemoveMember`, `DeleteKb` | the handlers after their check |
| `Upload`, `UploadPersonal`, `DeleteDocument` | `upload_document`, `delete_document` |
| `Allot`, `Commit` | `chunk_document_async`: ids are taken before they are committed |
| `EnsureBm25`, `Search` | `ensure_bm25`, and the search that reads what it has cached |

Abstractions: names, descriptions, chunk settings and listings decide nothing.
An update or a removal reads its row and writes it in one step, which is all one can
see of it: the role of the owner's row never changes and a row that vanishes is
updated in vain. `ensure_bm25` is one step of one process; other processes have
indexes of their own. Questions about one document
(`_validate_document`) and the copy of `kb_id` in the payload of Qdrant points,
which `delete_kb` leaves as it is, are not modelled.

### `Conversation`

| State | Code |
|---|---|
| `conv`, `msgs`, `summary` | `rag_conversations` with `summary` and `summary_until_message_id`, `rag_messages` |
| `known` | the user has rows in `user_memories` |
| `cache` | the list `rag:short_term:<user>:<conversation>` |
| `pc`, `draft`, `loc`, `useMemory` | where a request is, its ORM object's summary, its locals, `body.use_memory` |
| `cleaning` | a deletion between its commit and its cleaning of Redis |

| Actions | Code |
|---|---|
| `Begin`, `Context`, `CommitUser`, `CommitAnswer`, `Fail` | `run_rag_answer` and `build_conversation_context` |
| `Lrange`, `Hit`, `LoadFromPostgres`, `Replace` | `load_short_term_messages`, for the prompt and for the extraction |
| `AppendUser`, `AppendAnswer` | `append_short_term_message`, after the commit |
| `ReadPending`, `Extract` | `remember_short_term_window`: the read, the model's call, the write |
| `DeleteConversation`, `DeleteShortTermMemory`, `ClearMemories` | `api/conversation.py`, `api/memory.py` |
| `Expire`, `Evict` | the TTL; a Redis that restarts or needs the memory |

A summary is the set of messages it was made from. Allotting a message id and
committing it are one step here. The TTL of the list is far longer than a request.
Of a general failure of the database only its effect, the end of the request, is
there; a model that fails marks the questions without counting them, which is the
choice `found = FALSE` in `Extract`. What the code does and no property denies:
two overlapping extractions may count a question twice, a failed append leaves a
hole in the list, and an append that crosses the deletion brings the list of a
deleted conversation back until its TTL ends.

### `AnswerStream`

| State | Code |
|---|---|
| `worker`, `event`, `chunks`, `answer` | where the thread of `stream_rag_answer` is, what it emits, the tokens and the answer |
| `stored` | the newest row: the question or its answer |
| `queue`, `stopped` | the queue of 100 events and the event that ends `emit` |
| `gen`, `hand` | the generator behind the response and the event it holds |
| `view`, `target`, `content`, `final` | `ChatView.send` and its `createMessageStreamer` |

| Actions | Code |
|---|---|
| `Open`, `Ask`, `Retrieve`, `GenerateToken`, `GenerateEnd`, `Persist` | the thread in `run_rag_answer`, with every way it may fail |
| `Check`, `Put` | `emit`: it raises when stopped, and tries again while the queue is full |
| `Get`, `Close` | the generator; it is closed only at its `yield` |
| `Deliver`, `Tick`, `Settle` | `postSse`, the animation frames, the end of `send` |
| `Leave`, `Crash` | the page goes or the network breaks; the process dies |

A text is a sequence of pieces; a piece is a citation that exists or one that does
not, which `validate_answer_citations` cuts out. An error after the commit of the
question counts as a failure of retrieval.

### `TokenRefresh`

| State | Code |
|---|---|
| `page`, `store`, `username` | the login page or the application, `tokenStore`, the auth store |
| `request` | each request of `api` or `postSse`: its token, whether its retry is still before it, whose refresh it waits for |
| `refreshing`, `flights` | the shared promise, the calls of `/refresh` under way |
| `issued`, `expired`, `over` | the server's clock: pairs issued, access and refresh tokens expired |

| Actions | Code |
|---|---|
| `Enter`, `Login`, `Logout` | router guard and auth store |
| `Send`, `Serve`, `Reject`, `Lose` | `api`: a request, its answer, its 401, a broken call |
| `Refreshed`, `RefreshFails` | `refreshAccessToken` and `handleRefreshFailure` |
| `ExpireAccess`, `ExpireRefresh` | time |

Pairs expire in the order in which they were issued, because all have the same
lifetime. A token just issued does not expire before the retry it was issued for
(`ExpireAccess`): access tokens live 60 minutes. Numbers are capped at `MaxPairs`
and the last pair stays valid, which bounds the model and not the code.

### `Chunking`, `Ranking`, `TokenBudget`, `Algorithms`

Each function of the code is an operator. `Algorithms` calls one of them in each
behaviour and states what the result must satisfy, for any set `Calls` of calls;
`MCAlgorithms` makes it every input of a small set. A loop over data is a fold, or a
recursive function whose domain bounds its rounds: one round of the loop is an operator
of its own (`Place`, `Turn`, `Cite`, `TakeLine`). Conversion libraries, the models' scores
and the regular expressions that recognise blocks are external: a BM25 score is a
rank, a relevance a number. A text is as little as its token count needs: in
`Chunking` stretches of ideographs followed by a word, in `TokenBudget` classes of
characters. The count is the one without a tokenizer; with `tiktoken` installed the
code counts differently, which is not modelled. The keyword classification of the
sentences of a summary is left out.

## 3. Runs

| Run | Bounds | Shows |
|---|---|---|
| `doc_lockkept` | 1 document, 2 workers, no retry, up to 2 batches; any two of crash, redelivery, Redis, database and broker fault | `MutualExclusion`, `IndexedIsSearchable`, `CleanupSparesLiveChunks`, and the refinement `PublishesAtomically` |
| `doc_settles` | 1 worker, 1 retry, 1 crash, 1 Redis error, 1 vanished lock, fairness | types, `NoSilentStop`, `EventuallySettled`, `LockIsFreed` |
| `doc_refreshfails` | 2 workers, no retry, redelivery, failing refresh, fairness | `EventuallySettled` even when two executions work at once |
| `gc_one` | 1 document, 1 worker, 1 retry; 1 crash, 1 refused message, 1 database error; `Quiet`, fairness | `RunLeavesNoOrphans`, `StuckIsCollected` |
| `gc_two` | 2 documents (symmetric), 1 worker, no retry; `Quiet` | `DeletesByRule`, `OrphanScanSparesLive` |
| `vision_slots` | 3 images of 2 documents, 1 slot, 1 local slot each, TTL 3 = call 1 + reply 2, fairness | `SlotsRespected`, `LiveLeaseStays`, `EveryImageEnds`, `LeakedSlotReturns` |
| `algorithms` | every input of the sets in `MCAlgorithms`: up to 5 texts, 3 ranks, 5 neighbours, 3 results, 4 lines, 14 characters | `PackingIsSound`, `SplittingLosesNothing`, `StructureIsKept`, `RankingIsSound`, `EvidenceIsSound`, `BudgetsAreKept`: each a conjunction of named properties, one per algorithm |
| `knowledge_base` | 2 users, 1 knowledge base, 2 documents, 3 requests, 3 chunk ids | `MembershipsSound` (`OneOwner` and `OneRow`), `SearchesAllowed`, `FreshUnlessLate`, `DeletionKeepsDocuments` |
| `conversation` | 3 questions in 2 slots, history and window 2, threshold 4, 1 Redis fault | `SummaryKeepsAll`, `CountedOnce`, `OptOutNeverCounted`, `RecentIsSeen`, `DeletedWindowGoes` |
| `conversation_v_window` | 1 slot, 1 Redis fault | violation: `FailureCostsSpeedOnly`, section 5 |
| `answer` | a queue of 2, up to 4 tokens, fairness | `ShownIsStored`, `AnswerIsKept`, `ThreadEnds`, `ReaderIsAnswered` |
| `session` | 3 requests, 2 users, 2 pairs, 1 lost call, fairness | `OneRefresh`, `SessionIsOwn`, `LiveSessionServes`, `EveryRequestEnds` |

**Why the bounds are enough.**

* `DocIndex`: documents do not interact, so a second one only multiplies the
  states; the proofs cover any number. Two workers is the deployment's default
  concurrency and what every hazard of two executions of one task needs; without
  a redelivery a task has one message, so one worker is enough. One retry
  distinguishes a first, a last and an only attempt. Two batches make partial
  upserts, and two faults let a redelivered execution meet what a crashed one left.
* `DocGc`: the collector deletes the first document while a request deletes the
  second, which then vanishes from under the query's result.
* `VisionSlots`: three images over one slot give contention within a document and
  between two, a waiting loop and a leaked lease at once; the TTL is the least
  that the assumption allows.
* `KnowledgeBase`: three requests are two admins and the owner, each between check
  and act. `MembersOrDocuments` keeps apart what does not interact: memberships
  change beside at most one document, or several documents beside an owner who is
  alone. The proofs need neither bound.
* `Conversation`: compaction starts at the fourth message, so three questions with
  their answers compact twice; two slots are two requests at every step of each
  other. `OneTrouble` lets Redis fail, commands be asked and the last question be
  followed by a deletion only in behaviours whose requests follow one another: the
  properties about the window speak of these, and the others are proved.
* `AnswerStream`: with a queue of two and four tokens the queue fills and empties
  before, while and after the reader goes.
* `TokenRefresh`: of three requests one starts a refresh, one joins it and one is
  refused late; two pairs are one to expire and one that is valid.

The inductive invariants and the types of the components hold in these instances
too and are not listed again: section 4 proves them for all of them.

`NoSilentStop` is checked with a crash and without database errors, and proved under
`NoLostTask`. It is false when the broker refuses the message of a retry, when the
status update and the dead-letter record of a last attempt both fail, and when
an execution dies whose message was already redelivered and given up on a busy
lock it held itself. The code promises nothing there.

`CHECK_DEADLOCK FALSE` is stated because the system may stop: once every document
is settled, every question answered and no client asks for anything, there is
nothing to do; a call of an algorithm is over when it has returned.

**Fairness.** A worker process keeps executing the code it has begun and takes
waiting messages; a delete request that has begun ends; Redis expires keys.
`ReplaceChunks` and `CommitEmbeddings` may wait for the row locks of a delete
request. A client may send delete requests again and again, so those two get
strong fairness: PostgreSQL queues waiters for a row lock and grants it in turn.
No client is obliged to act and no fault to happen.

For `StuckIsCollected` the collector is run again and again (an operator or a
timer; the repository has no schedule of its own) and time passes. `GcDeleteRows`
waits for row locks and gets strong fairness for the same reason as above. That
Qdrant accepts a deletion is not assumed: the collector goes on without it.

In `VisionSlots` the event loop runs every coroutine that can go on and time
passes. Neither an answer of Redis nor a free semaphore is assumed: the client's
timeout (`AcquireError`) and the deadline of the loop are what ends an image.

In `AnswerStream` the thread, the response and the page's frames go on. A browser
pauses frames in a hidden tab; `ReaderIsAnswered` is about a tab that is looked at.
That the thread's `put` finds room is not assumed. In `Conversation` the server works
on its requests and Redis drops what has expired. In `TokenRefresh` the server answers every
call or the network breaks it; the user need not do anything. `KnowledgeBase` has only
safety properties and needs none.

## 4. Proofs

### The pipeline

The assumptions are those of `DocIndex` (`DocIndexAssumption`): any documents and
workers, any retry limit, any bound on batches, any fault budget.

* `TypeCorrect` holds without further assumption.
* `NothingStopsSilently` assumes `NoLostTask`: a working database and broker, and not both
  crashes and redeliveries. Section 3 says how `NoSilentStop` fails otherwise.
* `LockIsExclusive`, `Invariant`, `IndexedStaysSearchable`, `CleanupIsSafe` and
  `Refinement` assume `NoLockLoss`: the fault budget has no stall and no failing
  refresh. Without it they are false: two executions may then be at work, which
  `doc_refreshfails` explores.

`NoSilentStop` is strengthened to `Underway`: a document that is uploaded and not settled has
a message, a `Live` execution or a trace. An execution is live until it has set a status or
decided that it has failed; each of its steps keeps it so, or settles the document, publishes a
retry, or leaves the trace. A crash puts the message back unless it was redelivered, which is why the
two faults must not meet.

`IndexedIsSearchable` is not inductive: nothing in it says what an attempt has
reached. The strengthening `IInv` adds

* `OwnsKey`: who works on a document owns its lock key, so two executions at
  work are the same one. Nobody else can delete the key, because a release by an
  execution that has not acquired does nothing, and the key does not expire
  while its owner refreshes it;
* `RowsConsistent`: a row that is gone has no chunks and never returns; a delete
  request that commits has removed the points first;
* `Progress`: at each point of the attempt, how the ids it read, the ids it has
  yet to upsert and the points in Qdrant relate to the chunk rows, unless a
  delete request has removed the points meanwhile;
* `IndexedIsClean`: nothing but its chunks' points is found under an indexed
  document, even after a delete request has taken some away. The collector needs
  it: a point that it takes from under an indexed document would be one that was served.

Each step of `Next` has a lemma of its own or a named step in the preservation
proof. Steps of another execution preserve an execution's `Progress` because
`OwnsKey` leaves them only steps that do not touch the document's rows or
points. The refinement maps `status`, the points of indexed documents and
`purged` to the variables of `DocPublication`; `Finish` is the one step that
publishes, and `IInv` shows what it publishes is not empty.

### The collector

`GcAssumption` adds that the documents are finitely many: the collector queries
them into a list. `TypesOfGc` needs nothing else. `LockIsExclusiveBesideGc` needs
`NoLockLoss`, but not that anything is stopped. The other theorems assume `Quiet`:
uploads and executions are stopped during a run and delete requests are not; section 5
shows them false without it. `IndexedStaysBesideGc` and `GcRefinement` assume `NoLockLoss` too.

`GcInv` has a part for each stage of a run. `Selected`: what the query returned is
expired still or gone, so `GcDeleteRows` deletes by the rule (`OnlyExpiredDeleted`). `LiveRead`: no
chunk row has appeared behind the two queries, so what is doomed has no row
(`OrphanScanIsSafe`). `Explained`: whatever is not marked for deletion belongs to what
is there, unless a request has deleted the document meanwhile (`NoOrphanIsLeft`). The last
needs `IdsApart`: no two documents ever have a chunk id in common, neither in rows nor points
nor in what an attempt has read, or a point of a document without rows could pass for live by
the id of another document's chunk. `IdsApart` is a property of the pipeline, and proved of its steps.

With the collector a row may go beneath an open delete request; the third part of
`RowsConsistent` allows for it. The composition preserves `IInv` because the collector,
with executions stopped, touches only documents at rest. `GcRefinement` maps a collected
document to `Discard`: that it was not shown as indexed follows from `Selected`.

### The other components

`VisionSlots` is proved from `VisionAssumption` alone: any finite set of images,
any number of documents and slots, any times. `SlotsRespected` is about calls, not
leases, and not inductive. `IInv` says that a request which is calling, or whose
answer is on its way, has a lease that outlives its own timeout (`LeaseCovers`), that
the key outlives its leases, and that there are at most `Slots` leases; the
calls are then a subset of the leases. The argument needs the countdowns to move
together (`Tick`) and the script to add a lease only after removing the
expired ones.

`KnowledgeBase` is proved from `KnowledgeBaseAssumption`: any users, knowledge bases,
documents, requests and bounds. A role that a request was granted by need not hold
any more when it acts, so the invariant says nothing of the caller; it says what
the acting statement itself looks at. `Memberships` keeps the owner's row beside its
knowledge base, because no statement touches an owner's row and no request gives that role;
`Documents` says that a document's `kb_id` is the one it was uploaded with, or none; and
`Indexes`, that whatever an index holds was allowed in its scope when it was
built, which no later step can undo because uploader and origin of a document
never change. `DeletionKeepsDocuments` is an action property and follows from
`Released`; `MembershipsStaySound` and `SearchesAllowed` are parts of the invariant.

`FreshUnlessLate` says that `ensure_bm25`, which compares a count and a newest id, never takes
changed chunks for unchanged ones but in a scope some chunk has entered late. Equal counts and equal maxima
make no equal sets, so `FreshInv` says what the history of an index allows: an id is given
once (`Numbered`), a chunk that is not committed was in no index (`Unseen`), what an index holds has left
its scope for good when it left (`Settled`), and what has come since the index was built is newer than
all that stayed (`Newer`). If the newest id is the same, nothing has come since; then an equal count means
that nothing has gone (`FingerprintTells`). That the chunks of a scope have a newest follows from `WFMin` of
the library, upside down from the greatest id given out.

`Conversation` is proved from `ConversationAssumption`, which says what `app/core/config.py:44-48` and
`175-178` compute of any environment, a prompt without history (`RAG_HISTORY_MESSAGES=0`) included,
and besides that the window of Redis is not empty: with `SHORT_TERM_MEMORY_MESSAGES=0` too, `LTRIM` with
`-0` trims nothing, which is not modelled. For `SummaryKeepsAll` every
draft, not only the row, is made from all messages up to its checkpoint: a request
starts from a whole summary and adds the messages right behind its checkpoint, so
it does not matter which of several commits last. For `OptOutNeverCounted` a
question that is not marked was asked with memory, and what an extraction has
chosen to draw from remains a question worth it, also after others have marked it.
`CountedOnce` and `RecentIsSeen` speak of requests that follow one another; `WindowInv` carries
them, and has to say what holds from the end of one request to the next. `Serial`: no two requests are
under way. `Counted`: none of what an extraction has read is marked yet. `Recent`: the list in Redis
is the end of the table or is empty, at least as long as the history where the table is (`CacheFollows`); the window that was read
is the end of it too (`WindowFollows`); and less than a threshold of messages lies behind
the summary (`FewLeft`). `RecentMessagesSeen` follows by counting, from `FS_Interval` and the length of the window.

`AnswerStream` is proved from `AnswerAssumption`: any bound of the queue, any number of
tokens. A final answer is on its way through the thread's event, the queue, the generator's hand and the
view; `Announced` says that wherever it is, it is the stored row, and that the thread changes the
row no more. `Ordered` says that no token is behind it, so the view's target stays what it has
become; `Typed`, that what is shown is a prefix of the target and in the end all of it. `Accounted`
gives `NoThreadEndsWithoutAnswer`, the safety half of `AnswerIsKept`: a thread that has decided
has stored an answer or met one of four failures, and a disconnected client is none of them.

`TokenRefresh` is proved from `RefreshAssumption`: any requests, users, pairs and lost
calls. `Alone` says that a refresh under way belongs to the promise, and that who
started it still waits, so it cannot be refused and start another; `Own`, that as long as no logout
has crossed a refresh, store and refreshes are the user's; `Valid`, that a request
which is sent again has a token that has not expired; and `Fresh`, that one which was never sent has its
retry before it.

### The algorithms

All six properties of `algorithms` are proved for every input that
`AlgorithmsAssumption` allows, and the machine around them adds next to nothing: `Calculated`
is the invariant that a call has returned what its operator computes of its arguments. What is assumed
is what the callers pass: rankings without a repetition, because they come from rows and
keys; weights, budgets and lengths that are natural numbers; texts over the classes of characters;
to tell old from new in a summary, a previous one without the mark that stands for the
new notes; and blocks as the Markdown parser makes them: a code block begins with its fence, and the
head of a table is not longer than the table. Chunks for code blocks have at least 38 tokens, 32 for a text and
6 for the fences; the service uses 420 or what a knowledge base is configured to, at least 100
(`services/document_index_service.py:124`). `Ids` names the fence's literal beside the strings only because the
provers do not know that a literal is a string. `RankingAssumption` demands that the common denominator of the reciprocals is one.

The operators fold or recurse, and no prover here does induction on data. So induction is proved once,
`UpTo`, from `WFMin` of the library: a set of naturals that has 0 and, with each `k` below `n`,
`k + 1`, has `n`. `FoldRuns` and `Rounds` then turn a fold or a recursive function into a *run*, a function of the
number of rounds whose every value is the step applied to the one before it; `DescentExists` and
`DescentEnds` do the same for a recursion that descends by more than one, the shrinking guess of
`TruncateTokens`. `SumsExist` is the same induction for sums over finite sets, and `Arrangeable` for
sorting: a strict total order on a finite set has exactly one sorted list. What is left is, for each
algorithm, what holds after `k` rounds and that a round keeps it:

* `PackedAt`: the chunks and the open one are slices of what was read, each starting inside or
  behind the one before it, with an overlap that fits. `RestartOf` is the point where this could fail: a text
  that does not fit behind the overlap starts anew, and an overlap cannot be the whole chunk
  before it, because that chunk and the text do not fit together.
* `CutRight`: the windows of a long sentence from any position on: each starts inside or at the end of the one
  before it, goes back no further than the overlap, and none of the positions is left out. The recursion of `HardSplit` goes
  up and by more than one, so the induction is on how many characters are left (`CutsExist`, `CutBefore`). `CutFits` is where the rates of ideographs and
  letters meet: a window of a `Uniform` stretch has no more tokens than it was cut for.
* `TableAt`: after `k` rows the parts and the open one are the head followed by lists that together are these rows, in order,
  and several rows fit.
* `Spans` and `Holds`: what is split, packed, put between fences and packed again is never compared piece by piece. Of each
  of these steps it is proved that what was in one of the texts before is in one of them afterwards, character by character
  where something is cut and stretch by stretch where it is packed; loss of nothing is then transitive (`ChunkBlocksOf`).
* `ReadAt`: the sections closed so far and the open buffer are the lines read that are not headings, in order;
  the stack names the headings around the next line and whether it is fenced is known from the
  number of fences before it. `Nested` is the reason the path is right: where no heading skips a level, the stack has
  one heading of each level, so cutting it to a length (`Above`) is cutting it to a level.
* `PdfAt`: behind the lines of the first `r` pages, every text stands under a page heading with only
  images between them, and is of that page or has its first occurrence there (`Placed`, `Under`); the texts
  are those of the pages so far, each once. `PdfRegular` says that such lines skip no level, so what is proved of sections
  applies to them: `PdfOrigin` and `PdfSections` are the two loops composed.
* `WindowAt`: the window is the chunks from left to right of the hit, the two sides differ by
  at most one until one of them ends, and what was used is the sum of their lengths.
* `EvidenceAt`: a list of the results that were cited, strictly rising, with nothing between them but empty
  ones; the text is two characters longer with each record but the first.
* `CitedUpTo`: what is cited so far are the valid numbers among those read, in the order of their first use.
* `Fitted`: the lines taken are the newest `k`, their cost is what was used, and one that did not fit ends it.
* For the fusion `AheadScoresMore`: a chunk that one list puts ahead and none behind scores more, as reciprocals of
  smaller ranks are greater and some weight is positive. For the search, `RerankIsSound`: a prefix of a sorted list is its best.
* For budgets `TruncateOf` and `CountConcat`: a cut text is an end of the text that fits, and cutting between
  two parts that do not run into one word adds their counts. `MergeKeepsNotes` and `HistoryKeepsNewest` follow from
  what is at the end of a text surviving a cut that keeps the end.

### Only model-checked

* The liveness properties (`EventuallySettled`, `LockIsFreed`, `StuckIsCollected`,
  `EveryImageEnds`, `LeakedSlotReturns`, `DeletedWindowGoes`, `AnswerIsKept`, `ThreadEnds`,
  `ReaderIsAnswered`, `EveryRequestEnds`), which are beyond the prover.
* In `PackingIsSound` texts of several stretches: `Pack` drops a last chunk that says the same as the
  one before it, and the theorem needs that texts that read alike are alike, which `PackCall` secures
  by texts of one stretch. The run has the same restriction; that of `ChunkBlocks` (`ChunksHoldAll`) has not.

## 5. Disagreements and known behaviours

One run states what a comment promises and the code does not keep:

* `conversation_v_window`: `services/short_term_memory.py:52` says that a failing update
  of the cache affects performance only. If the push of one message fails and the
  next succeeds, the list ends with the newest message, which is all that
  `load_short_term_messages` compares, and the question is answered from a window
  with a hole.

Other disagreements between code and comments that the models reproduce, but that no run
of this project lists:

* A task that gives up on a busy lock leaves no dead-letter record: the retry of
  `tasks/document_index.py:60` raises the lock's exception, and nothing there calls
  `record_dead_document_task`, whose comment (`queue.py:177`) says that exhausted
  retries leave one. In `DocIndex`, `LockBusy` ends in `dropped`.
* An attempt goes on writing after its lock is lost: `lock_lost` is looked at between
  phases (`services/document_index_service.py:156`), and the phases run on, though
  the error at `:88` is there "to avoid repeated writes" (以避免重复写入).
* A deleted document may keep points in Qdrant: `delete_document` removes them
  (`api/document.py:143`) while an attempt is still upserting; its docstring
  (111-114) promises that they are gone. The collector finds them later.
* The collector beside running uploads and tasks deletes points of chunks that were
  committed after it had read the ids (`services/gc_service.py:237`) and documents
  that a task has taken up since it listed them (`:216`); its comment (3-6) calls it conservative.
  `Quiet = FALSE` in `DocGc_two.cfg` reproduces both; `Quiet = TRUE` is what an operator gains by
  stopping uploads and tasks first. A file that is saved and not yet
  inserted can be deleted in the same way.
* A client that disconnects while an answer is generated leaves an excerpt in the
  table, marked degraded, though the model works: the exception raised inside
  `on_token` is taken for one of the model (`services/rag_service.py:266`), for
  which the fallback was made (`rag/answering.py:234`). `AnswerIsKept` says what is left: the
  question has an answer.

Behaviours that nobody promises to be otherwise, and that a reader of the code may not expect:

* *Session.* A refresh that is answered after a logout stores the old user's tokens
  (`src/frontend/src/api/http.ts:60`); `SessionIsOwn` excepts behaviours with such a crossing.
  A network error during a refresh logs the user out (32-36), and a
  failed refresh reloads the tab with every request and stream in it. A request
  that is refused late is sent again with the tokens of whoever is logged in by then.
* *Knowledge bases.* An upload that crosses the deletion of its knowledge base
  leaves a document with a `kb_id` that nothing refers to and no list shows
  (`api/document.py:236`). The keyword index is kept when chunks enter below the
  newest id and count and newest id come out the same (`rag/embeddings.py:119`): with a commit
  that another has overtaken, or with the documents of a deleted knowledge base;
  `FreshUnlessLate` excepts these scopes. Two first logins at once may create two
  default knowledge bases (`api/auth.py:31`).
* *Views.* Messages of a conversation that is no longer open may arrive last and be
  shown (`src/frontend/src/views/ChatView.vue:61`).
* *Rate limit.* `INCR` and `EXPIRE` are two commands (`rate_limiter.py:26`).
* *Chunking.* A heading that skips a level pushes its siblings under it
  (`SectionsEnclose` speaks of headings that do not). A file name with a page
  number, or a line of a page that looks like a heading, spoils the page numbers
  behind it. A page whose only image duplicates an earlier one is rendered and read
  once more, which the comment at `rag/chunker.py:442` wants to avoid. A part of a long
  sentence with few ideographs, and a table row longer than a chunk, may exceed
  the chunk size. Lines of a code block that is split are joined without a line break.
* *Summaries.* With `RAG_MEMORY_SUMMARY_MAX_TOKENS` at its minimum of 200 the previous summary may
  take the whole budget and new notes be lost; `NewNotesSurvive` bounds what is kept.

## 6. Plan

Done: the pipeline with its abstract specification, the collector, the vision slots,
the algorithms, knowledge bases, conversations, streamed answers and the session,
with the theorems of section 4. Left, in this order:

1. `DocPublication` composed with questions: a search that began before a document
   was withdrawn.

**Not modelled.** The conversion libraries, the models and their answers are
external. The views but the one that streams, configuration, logging, health
checks, start-up and migrations keep no state that changes. The login counter, the cache of user names and the
default knowledge base are a few statements each that a model would only restate.
The evaluation scripts measure offline and share nothing with the service. An
answer that is streamed while its session is refreshed (`AnswerStream` with
`TokenRefresh`) was composed and left out: the refresh is over before the stream
begins, so the product only multiplies their states.
